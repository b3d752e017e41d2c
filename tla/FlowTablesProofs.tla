-------------------------- MODULE FlowTablesProofs --------------------------
(***************************************************************************)
(* Proofs about FlowTables, for any switches, keys, networks, classifiers, *)
(* and number of updates and disconnections: the tables of the switches    *)
(* that the runtime keeps track of hold the rules written last, an         *)
(* incremental update leaves alone what stays, and the messages of the     *)
(* processes implement TableStore.                                         *)
(***************************************************************************)
EXTENDS FlowTables, SequenceTheorems, TLAPS

\* What a process is given and what it computes have their types.
LEMMA SwitchifyType ==
    ASSUME NEW rules \in [Switches -> RuleSets], NEW switches \in SUBSET Switches
    PROVE  /\ Switchify(rules, switches) \in [Switches -> RuleSets]
           /\ \A s \in Switches \ switches : Switchify(rules, switches)[s] = NoRules
  BY DEF Switchify, NoRules, RuleSets, Optional

\* A classifier gives a switch that its topology does not have no rules.
Given(job) == \A s \in Switches \ job.switches : job.rules[s] = NoRules
JobsGiven ==
    /\ \A i \in 1 .. Len(jobs) : Given(jobs[i])
    /\ proc # None => Given(proc)

\* A switch that the runtime keeps track of and that has no connection has
\* never had one.
NewSwitches ==
    \A s \in Switches \ (connected \union astray) :
        /\ s \notin topology
        /\ \A i \in 1 .. Len(jobs) : s \notin jobs[i].switches
        /\ proc # None => s \notin proc.switches
        /\ oldRules[s] = NoRules /\ tables[s] = Empty

TypeInv == TypeOK /\ JobsGiven /\ Len(jobs) <= jobCount

\* What a step may do to the queue of processes: add one, take the first, or nothing.
LEMMA ForkTypes ==
    ASSUME TypeInv, NEW rules \in [Switches -> RuleSets], NEW switches \in SUBSET Switches,
           Fork(rules, switches)
    PROVE  /\ jobs' \in Seq(Job) /\ Len(jobs) \in Nat /\ Len(jobs') = Len(jobs) + 1
           /\ \A i \in 1 .. Len(jobs) : jobs'[i] = jobs[i]
           /\ jobs'[Len(jobs) + 1].rules = Switchify(rules, switches)
           /\ jobs'[Len(jobs) + 1].switches = switches
           /\ \A i \in 1 .. Len(jobs) : Given(jobs[i])
           /\ Given(jobs'[Len(jobs) + 1])
           /\ asked' \in Seq([Switches -> RuleSets])
           /\ asked' = Append(asked, Switchify(rules, switches))
           /\ jobCount' = jobCount + 1 /\ jobCount' \in Nat
<1> DEFINE job == [rules |-> Switchify(rules, switches), switches |-> switches,
                   raises |-> rules \in Unforwardable]
<1>1. job \in Job
  BY SwitchifyType DEF Job
<1>2. jobs' = Append(jobs, job) /\ jobs \in Seq(Job)
  BY DEF Fork, TypeInv, TypeOK
<1> HIDE DEF job
<1>3. /\ jobs' \in Seq(Job) /\ Len(jobs') = Len(jobs) + 1
      /\ \A i \in 1 .. Len(jobs) : jobs'[i] = jobs[i]
      /\ jobs'[Len(jobs) + 1] = job
  BY <1>1, <1>2, AppendProperties
<1>4. asked' \in Seq([Switches -> RuleSets]) /\ asked' = Append(asked, Switchify(rules, switches))
  BY SwitchifyType, AppendProperties DEF Fork, TypeInv, TypeOK
<1>5. jobCount' = jobCount + 1 /\ jobCount' \in Nat
  BY DEF Fork, TypeInv, TypeOK
<1>6. job.rules = Switchify(rules, switches) /\ job.switches = switches
  BY DEF job
<1>7. Given(jobs'[Len(jobs) + 1])
  BY <1>3, <1>6, SwitchifyType DEF Given
<1>8. Len(jobs) \in Nat
  BY <1>2, LenProperties
<1> QED
  BY <1>3, <1>4, <1>5, <1>6, <1>7, <1>8 DEF TypeInv, JobsGiven

\* The first process of the queue, and the rest.
LEMMA FirstJob ==
    ASSUME TypeInv, jobs # <<>>
    PROVE  /\ Head(jobs) \in Job /\ Head(jobs) = jobs[1] /\ Given(Head(jobs))
           /\ Tail(jobs) \in Seq(Job) /\ Len(Tail(jobs)) = Len(jobs) - 1
           /\ Len(jobs) \in Nat \ {0}
           /\ \A i \in 1 .. Len(Tail(jobs)) : Tail(jobs)[i] = jobs[i + 1]
<1>1. jobs \in Seq(Job)
  BY DEF TypeInv, TypeOK
<1>2. Len(jobs) \in Nat \ {0}
  BY <1>1, EmptySeq
<1>3. Head(jobs) = jobs[1]
  BY <1>1
<1>4. Given(jobs[1])
  BY <1>2 DEF TypeInv, JobsGiven
<1> QED
  BY <1>1, <1>2, <1>3, <1>4, HeadTailProperties

-----------------------------------------------------------------------------
(* Types. *)

LEMMA BeginTypes ==
    ASSUME TypeInv, Begin
    PROVE  /\ proc' # None /\ proc' \in Process /\ Given(proc)'
           /\ proc'.rules = jobs[1].rules /\ proc'.switches = jobs[1].switches
           /\ proc'.clear \subseteq proc'.switches
           /\ proc'.add \union proc'.delete \union proc'.modify \union proc'.replace
                 \subseteq proc'.switches \X Keys
<1> DEFINE job == Head(jobs)
<1>1. job \in Job /\ Given(job) /\ job = jobs[1]
  BY FirstJob DEF Begin
<1> HIDE DEF job
<1>2. \A p \in Places : New(job, p) # None => p \in job.switches \X Keys
  BY <1>1 DEF Given, New, Places, NoRules
<1>3. ToAdd(job) \subseteq job.switches \X Keys /\ AllRules(job) \subseteq job.switches \X Keys
  BY <1>2 DEF ToAdd, AllRules
<1>4. ToDelete(job) \subseteq job.switches \X Keys /\ ToModify(job) \subseteq job.switches \X Keys
  BY <1>2 DEF ToDelete, ToModify, SameRule, Places
<1>5. job.switches \in SUBSET Switches /\ job.rules \in [Switches -> RuleSets]
  BY <1>1 DEF Job
<1>6. job.switches \X Keys \subseteq Places
  BY <1>5 DEF Places
<1>7. proc' = [rules    |-> job.rules,
               switches |-> job.switches,
               clear    |-> IF mode = "proactive1" THEN {} ELSE job.switches,
               add      |-> IF mode = "proactive1" THEN ToAdd(job) ELSE AllRules(job),
               delete   |-> IF mode = "proactive1" THEN ToDelete(job) ELSE {},
               modify   |-> IF mode = "proactive1" THEN ToModify(job) ELSE {},
               replace  |-> {}]
  BY DEF Begin, job
<1>8. /\ proc'.rules = job.rules /\ proc'.switches = job.switches
      /\ proc'.clear \subseteq job.switches
      /\ proc'.add \subseteq job.switches \X Keys /\ proc'.delete \subseteq job.switches \X Keys
      /\ proc'.modify \subseteq job.switches \X Keys /\ proc'.replace \subseteq job.switches \X Keys
  BY <1>3, <1>4, <1>7
<1>9. proc' \in Process
  BY <1>3, <1>4, <1>5, <1>6, <1>7 DEF Process
<1>10. Given(proc)'
  BY <1>1, <1>8 DEF Given
<1> QED
  BY <1>1, <1>8, <1>9, <1>10, NoneAssumption

\* A message changes one table and takes something off one list of the process.
LEMMA WriteType ==
    ASSUME TypeOK, NEW s \in Switches, NEW t \in [AllKeys -> Optional], Write(s, t)
    PROVE  tables' \in [Switches -> [AllKeys -> Optional]]
  BY DEF TypeOK, Write

LEMMA PutType ==
    ASSUME TypeOK, NEW s \in Switches, NEW k \in Keys, NEW a \in Optional, Put(s, k, a)
    PROVE  tables' \in [Switches -> [AllKeys -> Optional]]
<1>1. tables[s] \in [AllKeys -> Optional] /\ k \in AllKeys
  BY DEF TypeOK, AllKeys
<1>2. [tables[s] EXCEPT ![k] = a] \in [AllKeys -> Optional]
  BY <1>1
<1> QED
  BY <1>2, WriteType DEF Put

Message(s, k) ==
    SendAdd(s, k) \/ SendDelete(s, k) \/ SendModify(s, k) \/ SendReplace(s, k)

LEMMA MessageTypes ==
    ASSUME TypeInv, NEW s \in Switches, NEW k \in Keys, Message(s, k)
    PROVE  TypeInv' /\ proc' # None
<1>1. proc # None /\ proc \in Process /\ <<s, k>> \in Places
  BY DEF Message, SendAdd, SendDelete, SendModify, SendReplace, TypeInv, TypeOK, Places
<1>2. proc.rules[s][k] \in Optional /\ None \in Optional
  BY <1>1 DEF Process, RuleSets, Optional
<1>3. tables' \in [Switches -> [AllKeys -> Optional]]
  BY <1>2, PutType DEF Message, SendAdd, SendDelete, SendModify, SendReplace, TypeInv
<1>4. /\ proc' \in Process /\ proc'.rules = proc.rules /\ proc'.switches = proc.switches
      /\ proc'.clear = proc.clear
      /\ proc'.add \union proc'.delete \union proc'.modify \union proc'.replace
            \subseteq proc.add \union proc.delete \union proc.modify \union proc.replace
  <2>1. CASE SendAdd(s, k)
    BY <1>1, <2>1 DEF SendAdd, Process
  <2>2. CASE SendDelete(s, k)
    BY <1>1, <2>2 DEF SendDelete, Process
  <2>3. CASE SendModify(s, k)
    BY <1>1, <2>3 DEF SendModify, Process
  <2>4. CASE SendReplace(s, k)
    BY <1>1, <2>4 DEF SendReplace, Process
  <2> QED
    BY <2>1, <2>2, <2>3, <2>4 DEF Message
<1>5. UNCHANGED <<mode, connected, topology, classifier, jobs, oldRules, jobCount, leaveCount, astray,
                  asked, installed>>
  BY DEF Message, SendAdd, SendDelete, SendModify, SendReplace, Still
<1>6. TypeOK'
  BY <1>1, <1>3, <1>4, <1>5 DEF TypeInv, TypeOK
<1>7. JobsGiven'
  BY <1>1, <1>4, <1>5 DEF TypeInv, JobsGiven, Given
<1> QED
  BY <1>4, <1>5, <1>6, <1>7, NoneAssumption DEF TypeInv

\* Every step keeps the types.
LEMMA TypeStep ==
    ASSUME TypeInv, [Next]_vars
    PROVE  TypeInv'
<1>1. ASSUME NEW rules \in [Switches -> RuleSets], NEW switches \in SUBSET Switches,
             Fork(rules, switches), UNCHANGED proc
      PROVE  JobsGiven' /\ Len(jobs') <= jobCount'
  <2>1. ASSUME NEW i \in 1 .. Len(jobs')
        PROVE  Given(jobs'[i])
    <3>1. Len(jobs) \in Nat
      BY DEF TypeInv, TypeOK
    <3>2. i \in 1 .. Len(jobs) \/ i = Len(jobs) + 1
      BY <1>1, <3>1, ForkTypes
    <3> QED
      BY <1>1, <3>2, ForkTypes
  <2> QED
    <3>1. JobsGiven'
      BY <1>1, <2>1 DEF JobsGiven, TypeInv, Given
    <3>2. Len(jobs') = Len(jobs) + 1 /\ jobCount' = jobCount + 1
      BY <1>1, ForkTypes
    <3> QED
      BY <3>1, <3>2 DEF TypeInv, TypeOK
<1>2. CASE ChangePolicy
  <2>1. PICK r \in Classifiers :
          classifier' = r /\ Fork(r, topology)
          /\ UNCHANGED <<mode, connected, topology, proc, oldRules, tables, leaveCount, astray, installed>>
    BY <1>2 DEF ChangePolicy
  <2>2. r \in [Switches -> RuleSets] /\ topology \in SUBSET Switches
    BY FlowTablesAssumption DEF RuleSets, Optional, TypeInv, TypeOK
  <2>3. TypeOK'
    BY <2>1, <2>2, ForkTypes DEF TypeInv, TypeOK
  <2> QED
    BY <1>1, <2>1, <2>2, <2>3 DEF TypeInv
<1>3. CASE PublishTopology
  <2>1. classifier \in [Switches -> RuleSets] /\ connected \in SUBSET Switches
    BY DEF TypeInv, TypeOK
  <2>2. TypeOK'
    BY <1>3, <2>1, ForkTypes DEF PublishTopology, TypeInv, TypeOK
  <2> QED
    BY <1>1, <1>3, <2>1, <2>2 DEF PublishTopology, TypeInv
<1>4. ASSUME NEW s \in Switches, Join(s) \/ Part(s)
      PROVE  TypeInv'
  <2>1. Empty \in [AllKeys -> Optional]
    BY DEF Empty, Optional
  <2>2. TypeOK'
    <3>1. CASE Join(s)
      BY <2>1, <3>1 DEF Join, TypeInv, TypeOK
    <3>2. CASE Part(s)
      BY <3>2 DEF Part, TypeInv, TypeOK
    <3> QED
      BY <1>4, <3>1, <3>2
  <2> QED
    BY <1>4, <2>2 DEF Join, Part, TypeInv, JobsGiven, Given
<1>5. ASSUME jobs' = Tail(jobs), jobs # <<>>
      PROVE  /\ jobs' \in Seq(Job)
             /\ \A i \in 1 .. Len(jobs') : Given(jobs'[i])
             /\ Len(jobs') = Len(jobs) - 1 /\ Len(jobs) \in Nat
  <2>1. \A i \in 1 .. Len(jobs') : jobs'[i] = jobs[i + 1] /\ i + 1 \in 1 .. Len(jobs)
    BY <1>5, FirstJob
  <2> QED
    BY <1>5, <2>1, FirstJob DEF TypeInv, JobsGiven
<1>6. CASE Begin
  <2>1. TypeOK'
    BY <1>5, <1>6, BeginTypes DEF Begin, TypeInv, TypeOK
  <2> QED
    BY <1>5, <1>6, <2>1, BeginTypes DEF Begin, TypeInv, TypeOK, JobsGiven
<1>7. CASE Die
  <2>1. TypeOK'
    BY <1>5, <1>7 DEF Die, TypeInv, TypeOK
  <2> QED
    BY <1>5, <1>7, <2>1 DEF Die, TypeInv, TypeOK, JobsGiven, Given
<1>8. ASSUME NEW s \in Switches, SendClear(s)
      PROVE  TypeInv'
  <2>1. (CHOOSE a \in Actions : TRUE) \in Actions
    BY FlowTablesAssumption
  <2>2. [Empty EXCEPT ![TableMiss] = CHOOSE a \in Actions : TRUE] \in [AllKeys -> Optional]
    BY <2>1 DEF Empty, Optional
  <2>3. tables' \in [Switches -> [AllKeys -> Optional]]
    BY <1>8, <2>2, WriteType DEF SendClear, TypeInv
  <2>4. proc # None /\ proc' \in Process /\ proc' = [proc EXCEPT !.clear = @ \ {s}]
    BY <1>8 DEF SendClear, TypeInv, TypeOK, Process
  <2>5. TypeOK'
    <3>1. /\ proc'.clear = proc.clear \ {s} /\ proc'.add = proc.add /\ proc'.delete = proc.delete
          /\ proc'.modify = proc.modify /\ proc'.replace = proc.replace
          /\ proc'.switches = proc.switches
      BY <2>4 DEF TypeInv, TypeOK, Process
    <3>2. /\ proc'.clear \subseteq proc'.switches
          /\ proc'.add \union proc'.delete \union proc'.modify \union proc'.replace
                \subseteq proc'.switches \X Keys
      BY <2>4, <3>1 DEF TypeInv, TypeOK
    <3> QED
      BY <1>8, <2>3, <2>4, <3>2 DEF SendClear, Still, TypeInv, TypeOK
  <2> QED
    <3>1. proc'.rules = proc.rules /\ proc'.switches = proc.switches
      BY <1>8, <2>4 DEF SendClear, TypeInv, TypeOK, Process
    <3>2. JobsGiven'
      BY <1>8, <2>4, <3>1 DEF SendClear, Still, TypeInv, JobsGiven, Given
    <3> QED
      BY <1>8, <2>5, <3>2 DEF SendClear, Still, TypeInv
<1>9. ASSUME NEW s \in Switches, NEW k \in Keys, Message(s, k)
      PROVE  TypeInv'
  BY <1>9, MessageTypes
<1>10. CASE End
  <2>1. proc # None /\ proc.rules \in [Switches -> RuleSets]
    BY <1>10 DEF End, Sent, TypeInv, TypeOK, Process
  <2>2. jobCount - Len(jobs) \in Nat
    BY DEF TypeInv, TypeOK
  <2> QED
    BY <1>10, <2>1, <2>2 DEF End, TypeInv, TypeOK, JobsGiven, Given
<1>11. CASE UNCHANGED vars
  BY <1>11 DEF vars, TypeInv, TypeOK, JobsGiven, Given
<1> QED
  BY <1>2, <1>3, <1>4, <1>6, <1>7, <1>8, <1>9, <1>10, <1>11 DEF Next, Message

LEMMA TypeInit ==
    ASSUME Init
    PROVE  TypeInv
<1>1. NoRules \in RuleSets /\ Empty \in [AllKeys -> Optional]
  BY DEF NoRules, Empty, RuleSets, Optional
<1>2. jobs = <<>> /\ asked = <<>> /\ jobs \in Seq(Job) /\ asked \in Seq([Switches -> RuleSets]) /\ Len(jobs) = 0
  BY DEF Init
<1> QED
  BY <1>1, <1>2 DEF Init, TypeInv, TypeOK, JobsGiven

(* The types of all variables, for any number of switches, rules and updates: a
   process writes to switches of its topology only (install_diff_rules, nuclear_install). *)
THEOREM TypeCorrect == Spec => []TypeOK
<1>1. Spec => []TypeInv
  BY TypeInit, TypeStep, PTL DEF Spec
<1>2. TypeInv => TypeOK
  BY DEF TypeInv
<1> QED
  BY <1>1, <1>2, PTL
-----------------------------------------------------------------------------
(* New switches. *)

\* Where the messages of a process go.
LEMMA WrittenSwitch ==
    ASSUME TypeInv, NEW s \in Switches, SendClear(s) \/ \E k \in Keys : Message(s, k)
    PROVE  /\ proc # None /\ proc' # None /\ s \in proc.switches
           /\ proc'.switches = proc.switches /\ proc'.rules = proc.rules
           /\ \A t \in Switches : t # s \/ s \notin connected => tables'[t] = tables[t]
           /\ UNCHANGED <<mode, connected, topology, jobs, oldRules, jobCount, astray, asked, installed>>
<1>1. proc # None /\ proc \in Process
  BY DEF SendClear, Message, SendAdd, SendDelete, SendModify, SendReplace, TypeInv, TypeOK
<1>2. s \in proc.switches
  <2>1. CASE SendClear(s)
    BY <2>1, <1>1 DEF SendClear, TypeInv, TypeOK
  <2>2. ASSUME NEW k \in Keys, Message(s, k) PROVE s \in proc.switches
    <3>1. <<s, k>> \in proc.add \union proc.delete \union proc.modify \union proc.replace
      BY <2>2 DEF Message, SendAdd, SendDelete, SendModify, SendReplace
    <3> QED
      BY <1>1, <3>1 DEF TypeInv, TypeOK
  <2> QED
    BY <2>1, <2>2
<1>3. proc'.switches = proc.switches /\ proc'.rules = proc.rules
  BY <1>1 DEF SendClear, Message, SendAdd, SendDelete, SendModify, SendReplace, Process
<1>4. \A t \in Switches : t # s \/ s \notin connected => tables'[t] = tables[t]
  <2>1. PICK u : Write(s, u)
    BY DEF SendClear, Message, SendAdd, SendDelete, SendModify, SendReplace, Put
  <2> QED
    BY <2>1 DEF Write, TypeInv, TypeOK
<1>5. proc' # None
  <2>1. SendClear(s) => proc' \in Process
    BY <1>1 DEF SendClear, Process
  <2> QED
    BY <2>1, MessageTypes, NoneAssumption
<1> QED
  BY <1>1, <1>2, <1>3, <1>4, <1>5 DEF SendClear, Message, SendAdd, SendDelete, SendModify, SendReplace, Still

LEMMA NewStep ==
    ASSUME TypeInv, NewSwitches, [Next]_vars
    PROVE  NewSwitches'
<1> SUFFICES ASSUME NEW s \in Switches, s \notin connected', s \notin astray'
             PROVE  /\ s \notin topology'
                    /\ \A i \in 1 .. Len(jobs') : s \notin jobs'[i].switches
                    /\ proc' # None => s \notin proc'.switches
                    /\ oldRules'[s] = NoRules /\ tables'[s] = Empty
  BY DEF NewSwitches
<1>1. CASE ChangePolicy
  <2>1. PICK r \in Classifiers :
          Fork(r, topology)
          /\ UNCHANGED <<connected, topology, proc, oldRules, tables, astray>>
    BY <1>1 DEF ChangePolicy
  <2>2. r \in [Switches -> RuleSets] /\ topology \in SUBSET Switches
    BY FlowTablesAssumption DEF RuleSets, Optional, TypeInv, TypeOK
  <2>3. s \notin topology
    BY <2>1 DEF NewSwitches
  <2>4. ASSUME NEW i \in 1 .. Len(jobs') PROVE s \notin jobs'[i].switches
    <3>1. i \in 1 .. Len(jobs) \/ i = Len(jobs) + 1
      <4>1. Len(jobs) \in Nat /\ Len(jobs') = Len(jobs) + 1
        BY <2>1, <2>2, ForkTypes
      <4> QED
        BY <4>1
    <3> QED
      BY <2>1, <2>2, <2>3, <3>1, ForkTypes DEF NewSwitches
  <2> QED
    BY <2>1, <2>4 DEF NewSwitches
<1>2. CASE PublishTopology
  <2>1. /\ topology' = connected /\ Fork(classifier, connected)
        /\ UNCHANGED <<connected, proc, oldRules, tables, astray>>
    BY <1>2 DEF PublishTopology
  <2>2. classifier \in [Switches -> RuleSets] /\ connected \in SUBSET Switches
    BY DEF TypeInv, TypeOK
  <2>3. s \notin connected
    BY <2>1
  <2>4. ASSUME NEW i \in 1 .. Len(jobs') PROVE s \notin jobs'[i].switches
    <3>1. i \in 1 .. Len(jobs) \/ i = Len(jobs) + 1
      <4>1. Len(jobs) \in Nat /\ Len(jobs') = Len(jobs) + 1
        BY <2>1, <2>2, ForkTypes
      <4> QED
        BY <4>1
    <3> QED
      BY <2>1, <2>2, <2>3, <3>1, ForkTypes DEF NewSwitches
  <2> QED
    BY <2>1, <2>3, <2>4 DEF NewSwitches
<1>3. ASSUME NEW t \in Switches, Join(t) \/ Part(t)
      PROVE  /\ s \notin topology'
             /\ \A i \in 1 .. Len(jobs') : s \notin jobs'[i].switches
             /\ proc' # None => s \notin proc'.switches
             /\ oldRules'[s] = NoRules /\ tables'[s] = Empty
  <2>1. s \notin connected /\ s \notin astray /\ s # t
    BY <1>3 DEF Join, Part
  <2>2. tables'[s] = tables[s]
    BY <1>3, <2>1 DEF Join, Part, TypeInv, TypeOK
  <2> QED
    BY <1>3, <2>1, <2>2 DEF Join, Part, NewSwitches
<1>4. CASE Begin \/ Die
  <2>1. jobs # <<>> /\ jobs' = Tail(jobs) /\ UNCHANGED <<connected, topology, oldRules, tables, astray>>
    BY <1>4 DEF Begin, Die
  <2>2. \A i \in 1 .. Len(jobs) : s \notin jobs[i].switches
    BY <2>1 DEF NewSwitches
  <2>3. \A i \in 1 .. Len(jobs') : s \notin jobs'[i].switches
    <3>1. \A i \in 1 .. Len(jobs') : jobs'[i] = jobs[i + 1] /\ i + 1 \in 1 .. Len(jobs)
      BY <2>1, FirstJob
    <3> QED
      BY <2>2, <3>1
  <2>4. proc' # None => s \notin proc'.switches
    <3>1. 1 \in 1 .. Len(jobs)
      BY <2>1, FirstJob
    <3>2. CASE Begin
      BY <2>2, <3>1, <3>2, BeginTypes
    <3>3. CASE Die
      BY <2>1, <3>3 DEF Die, NewSwitches
    <3> QED
      BY <1>4, <3>2, <3>3
  <2> QED
    BY <2>1, <2>3, <2>4 DEF NewSwitches
<1>5. ASSUME NEW t \in Switches, SendClear(t) \/ \E k \in Keys : Message(t, k)
      PROVE  /\ s \notin topology'
             /\ \A i \in 1 .. Len(jobs') : s \notin jobs'[i].switches
             /\ proc' # None => s \notin proc'.switches
             /\ oldRules'[s] = NoRules /\ tables'[s] = Empty
  BY <1>5, WrittenSwitch DEF NewSwitches
<1>6. CASE End
  <2>1. proc # None /\ proc' = None /\ oldRules' = proc.rules
        /\ UNCHANGED <<connected, topology, jobs, tables>>
    BY <1>6 DEF End, Sent
  <2>2. s \notin connected /\ s \notin astray
    BY <1>6, <2>1 DEF End
  <2>3. s \notin proc.switches
    BY <2>1, <2>2 DEF NewSwitches
  <2>4. proc.rules[s] = NoRules
    BY <2>1, <2>3 DEF TypeInv, JobsGiven, Given
  <2> QED
    BY <2>1, <2>2, <2>4 DEF NewSwitches
<1>7. CASE UNCHANGED vars
  BY <1>7 DEF vars, NewSwitches
<1> QED
  BY <1>1, <1>2, <1>3, <1>4, <1>5, <1>6, <1>7 DEF Next, Message

-----------------------------------------------------------------------------
(* The work that is left.  What a process has still to send at a place of the
   tables says what the table holds there, and where nothing is left, it holds the
   new rule, or an old one of a switch that left the topology. *)
Added(p) ==
    p \in proc.add => /\ New(proc, p) # None
                      /\ mode = "proactive1" => Old(p) = None
                      /\ p[1] \in proc.clear \/ tables[p[1]][p[2]] = None
Deleted(p) ==
    p \in proc.delete => /\ mode = "proactive1" /\ Old(p) # None /\ New(proc, p) = None
                         /\ tables[p[1]][p[2]] = Old(p)
Modified(p) ==
    /\ p \in proc.modify \union proc.replace =>
          mode = "proactive1" /\ Old(p) # None /\ New(proc, p) # None /\ Old(p) # New(proc, p)
    /\ p \in proc.modify => tables[p[1]][p[2]] = Old(p)
    /\ p \in proc.replace => tables[p[1]][p[2]] = None /\ proc.replace = {p}
Cleared(p) ==
    proc.clear # {} => mode # "proactive1" /\ (New(proc, p) # None => p \in proc.add)
Done(p) ==
    p \notin proc.add \union proc.delete \union proc.modify \union proc.replace /\ p[1] \notin proc.clear =>
        \/ tables[p[1]][p[2]] = New(proc, p)
        \/ p[1] \notin proc.switches /\ Old(p) # None

Pending(p) == Added(p) /\ Deleted(p) /\ Modified(p) /\ Cleared(p) /\ Done(p)
Tracked == {p \in Switches \X Exact : p[1] \notin astray}
WorkLeft == proc # None => \A p \in Tracked : Pending(p)

TablesInv == TypeInv /\ NewSwitches /\ WorkLeft /\ TablesTrusted

\* The difference is what has to be sent.
LEMMA PendingBegin ==
    ASSUME TablesInv, Begin, NEW p \in Switches \X Exact, p[1] \notin astray
    PROVE  Pending(p)'
<1> DEFINE job == Head(jobs)
<1>1. job \in Job /\ Given(job)
  BY FirstJob DEF Begin, TablesInv
<1> HIDE DEF job
<1>2. p \in Places /\ p[1] \in Switches /\ p[2] \in Exact /\ p[2] \notin Networks
  BY DEF Places, Exact
<1>3. tables[p[1]][p[2]] = Old(p) /\ tables' = tables /\ oldRules' = oldRules /\ mode' = mode
  BY <1>2 DEF TablesInv, TablesTrusted, Begin, Old
<1>4. proc' = [rules    |-> job.rules,
               switches |-> job.switches,
               clear    |-> IF mode = "proactive1" THEN {} ELSE job.switches,
               add      |-> IF mode = "proactive1" THEN ToAdd(job) ELSE AllRules(job),
               delete   |-> IF mode = "proactive1" THEN ToDelete(job) ELSE {},
               modify   |-> IF mode = "proactive1" THEN ToModify(job) ELSE {},
               replace  |-> {}]
  BY DEF Begin, job
<1>5. p[1] \notin job.switches => New(job, p) = None
  BY <1>1, <1>2 DEF Given, New, NoRules, Places
<1>6. /\ p \in ToAdd(job) <=> New(job, p) # None /\ Old(p) = None
      /\ p \in ToDelete(job) <=> Old(p) # None /\ New(job, p) = None /\ p[1] \in job.switches
      /\ p \in ToModify(job) <=> Old(p) # None /\ New(job, p) # None /\ Old(p) # New(job, p)
      /\ p \in AllRules(job) <=> New(job, p) # None
  BY <1>2 DEF ToAdd, ToDelete, ToModify, AllRules, SameRule
<1>7. Old(p)' = Old(p) /\ New(proc, p)' = New(job, p)
  BY <1>3, <1>4 DEF Old, New
<1>8. CASE mode = "proactive1"
  <2>1. /\ proc'.clear = {} /\ proc'.replace = {} /\ proc'.switches = job.switches
        /\ proc'.add = ToAdd(job) /\ proc'.delete = ToDelete(job) /\ proc'.modify = ToModify(job)
    BY <1>4, <1>8
  <2> QED
    BY <1>3, <1>5, <1>6, <1>7, <1>8, <2>1 DEF Pending, Added, Deleted, Modified, Cleared, Done
<1>9. CASE mode # "proactive1"
  <2>1. /\ proc'.clear = job.switches /\ proc'.replace = {} /\ proc'.switches = job.switches
        /\ proc'.add = AllRules(job) /\ proc'.delete = {} /\ proc'.modify = {}
    BY <1>4, <1>9
  <2> QED
    BY <1>3, <1>5, <1>6, <1>7, <1>9, <2>1 DEF Pending, Added, Deleted, Modified, Cleared, Done
<1> QED
  BY <1>8, <1>9

\* What a message does at the place it names, and elsewhere.
LEMMA WrittenPlace ==
    ASSUME TypeInv, NewSwitches, NEW s \in Switches, NEW k \in Keys, Message(s, k), NEW p \in Tracked
    PROVE  /\ p # <<s, k>> => tables'[p[1]][p[2]] = tables[p[1]][p[2]]
           /\ p = <<s, k>> => tables'[p[1]][p[2]] =
                 IF SendDelete(s, k) \/ SendModify(s, k) THEN None ELSE New(proc, p)
<1>1. proc # None /\ s \in proc.switches
  BY WrittenSwitch
<1>2. PICK a : /\ Put(s, k, a)
               /\ a = IF SendDelete(s, k) \/ SendModify(s, k) THEN None ELSE proc.rules[s][k]
  BY DEF Message, SendAdd, SendDelete, SendModify, SendReplace
<1>3. PICK t \in Switches, l \in Keys : p = <<t, l>> /\ t \notin astray
  BY DEF Tracked, Exact
<1>4. tables[s] \in [AllKeys -> Optional] /\ k \in AllKeys /\ l \in AllKeys
  BY <1>3 DEF TypeInv, TypeOK, AllKeys
<1>5. CASE t = s
  <2>1. s \in connected
    BY <1>1, <1>3, <1>5 DEF NewSwitches
  <2>2. tables'[s] = [tables[s] EXCEPT ![k] = a]
    BY <1>2, <2>1 DEF Put, Write, TypeInv, TypeOK
  <2> QED
    BY <1>2, <1>3, <1>4, <1>5, <2>2 DEF New
<1>6. CASE t # s
  <2>1. tables'[t] = tables[t]
    BY <1>3, <1>6, WrittenSwitch
  <2> QED
    BY <1>3, <1>6, <2>1
<1> QED
  BY <1>5, <1>6

\* A message does its part of the work and leaves the rest as it was.
LEMMA PendingMessage ==
    ASSUME TablesInv, NEW s \in Switches, NEW k \in Keys, Message(s, k), NEW p \in Tracked
    PROVE  Pending(p)'
<1> DEFINE t == tables[p[1]][p[2]]
<1>1. proc # None /\ proc \in Process /\ Pending(p)
  BY DEF Message, SendAdd, SendDelete, SendModify, SendReplace, TablesInv, TypeInv, TypeOK, WorkLeft
<1>2. /\ Old(p)' = Old(p) /\ New(proc, p)' = New(proc, p) /\ proc'.switches = proc.switches /\ mode' = mode
  BY WrittenSwitch DEF TablesInv, Old, New
<1>3. /\ p # <<s, k>> => t' = t
      /\ p = <<s, k>> => t' = IF SendDelete(s, k) \/ SendModify(s, k) THEN None ELSE New(proc, p)
  BY WrittenPlace DEF TablesInv
<1>4. CASE SendAdd(s, k)
  <2>1. /\ proc.clear = {} /\ <<s, k>> \in proc.add /\ proc'.clear = {} /\ proc'.add = proc.add \ {<<s, k>>}
        /\ proc'.delete = proc.delete /\ proc'.modify = proc.modify /\ proc'.replace = proc.replace
        /\ ~SendDelete(s, k) /\ ~SendModify(s, k)
    BY <1>1, <1>4 DEF SendAdd, SendDelete, SendModify, Process
  <2>2. CASE p = <<s, k>>
    BY <1>1, <1>2, <1>3, <2>1, <2>2 DEF Pending, Added, Deleted, Modified, Cleared, Done
  <2>3. CASE p # <<s, k>>
    BY <1>1, <1>2, <1>3, <2>1, <2>3 DEF Pending, Added, Deleted, Modified, Cleared, Done
  <2> QED
    BY <2>2, <2>3
<1>5. CASE SendDelete(s, k)
  <2>1. /\ proc.clear = {} /\ <<s, k>> \in proc.delete /\ proc'.clear = {} /\ proc'.delete = proc.delete \ {<<s, k>>}
        /\ proc'.add = proc.add /\ proc'.modify = proc.modify /\ proc'.replace = proc.replace
    BY <1>1, <1>5 DEF SendDelete, Process
  <2>2. CASE p = <<s, k>>
    BY <1>1, <1>2, <1>3, <1>5, <2>1, <2>2 DEF Pending, Added, Deleted, Modified, Cleared, Done
  <2>3. CASE p # <<s, k>>
    BY <1>1, <1>2, <1>3, <2>1, <2>3 DEF Pending, Added, Deleted, Modified, Cleared, Done
  <2> QED
    BY <2>2, <2>3
<1>6. CASE SendModify(s, k)
  <2>1. /\ proc.clear = {} /\ <<s, k>> \in proc.modify /\ proc'.clear = {} /\ proc'.modify = proc.modify \ {<<s, k>>}
        /\ proc'.add = proc.add /\ proc'.delete = proc.delete
        /\ proc.replace = {} /\ proc'.replace = {<<s, k>>}
    BY <1>1, <1>6 DEF SendModify, Process
  <2>2. CASE p = <<s, k>>
    BY <1>1, <1>2, <1>3, <1>6, <2>1, <2>2 DEF Pending, Added, Deleted, Modified, Cleared, Done
  <2>3. CASE p # <<s, k>>
    BY <1>1, <1>2, <1>3, <2>1, <2>3 DEF Pending, Added, Deleted, Modified, Cleared, Done
  <2> QED
    BY <2>2, <2>3
<1>7. CASE SendReplace(s, k)
  <2>1. /\ <<s, k>> \in proc.replace /\ proc'.clear = proc.clear /\ proc'.replace = {}
        /\ proc'.add = proc.add /\ proc'.delete = proc.delete /\ proc'.modify = proc.modify
        /\ ~SendDelete(s, k) /\ ~SendModify(s, k)
    BY <1>1, <1>7 DEF SendReplace, SendDelete, SendModify, Process
  <2>2. CASE p = <<s, k>>
    BY <1>1, <1>2, <1>3, <2>1, <2>2 DEF Pending, Added, Deleted, Modified, Cleared, Done
  <2>3. CASE p # <<s, k>>
    BY <1>1, <1>2, <1>3, <2>1, <2>3 DEF Pending, Added, Deleted, Modified, Cleared, Done
  <2> QED
    BY <2>2, <2>3
<1> QED
  BY <1>4, <1>5, <1>6, <1>7 DEF Message

\* A cleared switch has nothing but the rules that have still to be added.
LEMMA PendingClear ==
    ASSUME TablesInv, NEW s \in Switches, SendClear(s), NEW p \in Tracked
    PROVE  Pending(p)'
<1> DEFINE t == tables[p[1]][p[2]]
<1>1. proc # None /\ proc \in Process /\ Pending(p) /\ s \in proc.switches
  BY WrittenSwitch DEF SendClear, TablesInv, TypeInv, TypeOK, WorkLeft
<1>2. /\ Old(p)' = Old(p) /\ New(proc, p)' = New(proc, p) /\ proc'.switches = proc.switches /\ mode' = mode
  BY WrittenSwitch DEF TablesInv, Old, New
<1>3. /\ s \in proc.clear /\ proc'.clear = proc.clear \ {s} /\ proc'.add = proc.add
      /\ proc'.delete = proc.delete /\ proc'.modify = proc.modify /\ proc'.replace = proc.replace
  BY <1>1 DEF SendClear, Process
<1>4. mode # "proactive1"
  BY <1>1, <1>3 DEF Pending, Cleared
<1>5. PICK u \in Switches, l \in Keys : p = <<u, l>> /\ u \notin astray
  BY DEF Tracked, Exact
<1>6. CASE u = s
  <2>1. s \in connected
    BY <1>1, <1>5, <1>6 DEF TablesInv, NewSwitches
  <2>2. tables'[s] = [Empty EXCEPT ![TableMiss] = CHOOSE a \in Actions : TRUE]
    BY <2>1 DEF SendClear, Write, TablesInv, TypeInv, TypeOK
  <2>3. t' = None
    BY <1>5, <1>6, <2>2, FlowTablesAssumption DEF Empty, AllKeys
  <2> QED
    BY <1>1, <1>2, <1>3, <1>4, <2>3 DEF Pending, Added, Deleted, Modified, Cleared, Done
<1>7. CASE u # s
  <2>1. t' = t
    BY <1>5, <1>7, WrittenSwitch DEF TablesInv
  <2>2. p[1] # s
    BY <1>5, <1>7
  <2> QED
    BY <1>1, <1>2, <1>3, <1>4, <2>1, <2>2 DEF Pending, Added, Deleted, Modified, Cleared, Done
<1> QED
  BY <1>6, <1>7

\* What leaves the process and the tables of the switches kept track of alone.
LEMMA Undisturbed ==
    ASSUME TablesInv, UNCHANGED <<mode, proc, oldRules>>, astray \subseteq astray',
           \A s \in Switches \ astray' : tables'[s] = tables[s]
    PROVE  WorkLeft' /\ TablesTrusted'
<1>1. ASSUME NEW p \in Tracked', proc # None
      PROVE  Pending(p)'
  <2>1. p \in Tracked /\ p[1] \in Switches \ astray'
    BY <1>1 DEF Tracked
  <2>2. Pending(p) /\ tables'[p[1]] = tables[p[1]]
    BY <1>1, <2>1 DEF TablesInv, WorkLeft
  <2> QED
    BY <1>1, <2>2 DEF Pending, Added, Deleted, Modified, Cleared, Done, Old, New
<1>2. WorkLeft'
  BY <1>1 DEF WorkLeft
<1>3. TablesTrusted'
  BY DEF TablesInv, TablesTrusted
<1> QED
  BY <1>2, <1>3

\* When all is sent, the tables hold the new rules, except on switches that are
\* out of track from then on.
LEMMA AllDone ==
    ASSUME TablesInv, End, NEW s \in Switches \ astray', NEW k \in Exact
    PROVE  tables[s][k] = proc.rules[s][k]
<1>1. CASE s \in astray \union {t \in Switches \ proc.switches : oldRules[t] # NoRules}
  BY <1>1 DEF End
<1>2. CASE s \notin astray \union {t \in Switches \ proc.switches : oldRules[t] # NoRules}
  <2>1. proc # None /\ proc.clear \union proc.add \union proc.delete \union proc.modify \union proc.replace = {}
    BY DEF End, Sent
  <2>2. <<s, k>> \in Tracked
    BY <1>2 DEF Tracked
  <2>3. Done(<<s, k>>)
    BY <2>1, <2>2 DEF TablesInv, WorkLeft, Pending
  <2>4. oldRules[s] = NoRules => oldRules[s][k] = None
    BY DEF NoRules, Exact
  <2> QED
    BY <1>2, <2>1, <2>3, <2>4 DEF Done, Old, New
<1> QED
  BY <1>1, <1>2

LEMMA TablesStep ==
    ASSUME TablesInv, [Next]_vars
    PROVE  TablesInv'
<1>1. TypeInv' /\ NewSwitches'
  BY TypeStep, NewStep DEF TablesInv
<1>2. CASE ChangePolicy \/ PublishTopology \/ Die \/ UNCHANGED vars
  <2>1. UNCHANGED <<mode, proc, oldRules, astray, tables>>
    BY <1>2 DEF ChangePolicy, PublishTopology, Die, vars
  <2> QED
    BY <1>1, <2>1, Undisturbed DEF TablesInv
<1>3. ASSUME NEW t \in Switches, Join(t)
      PROVE  TablesInv'
  <2>1. UNCHANGED <<mode, proc, oldRules, astray>> /\ tables' = [tables EXCEPT ![t] = Empty]
    BY <1>3 DEF Join
  <2>2. t \notin astray => tables[t] = Empty
    BY <1>3 DEF Join, TablesInv, NewSwitches
  <2>3. \A s \in Switches \ astray' : tables'[s] = tables[s]
    BY <2>1, <2>2 DEF TablesInv, TypeInv, TypeOK
  <2> QED
    BY <1>1, <2>1, <2>3, Undisturbed DEF TablesInv
<1>4. ASSUME NEW t \in Switches, Part(t)
      PROVE  TablesInv'
  <2>1. UNCHANGED <<mode, proc, oldRules, tables>> /\ astray \subseteq astray'
    BY <1>4 DEF Part
  <2> QED
    BY <1>1, <2>1, Undisturbed DEF TablesInv
<1>5. CASE Begin
  <2>1. astray' = astray /\ proc' # None
    BY <1>5, BeginTypes DEF Begin, TablesInv
  <2>2. WorkLeft'
    BY <1>5, <2>1, PendingBegin DEF WorkLeft, Tracked
  <2> QED
    BY <1>1, <2>1, <2>2 DEF TablesInv, TablesTrusted
<1>6. ASSUME NEW t \in Switches, SendClear(t)
      PROVE  TablesInv'
  <2>1. astray' = astray /\ proc' # None
    BY <1>6, WrittenSwitch DEF TablesInv
  <2>2. WorkLeft'
    BY <1>6, <2>1, PendingClear DEF WorkLeft, Tracked
  <2> QED
    BY <1>1, <2>1, <2>2 DEF TablesInv, TablesTrusted
<1>7. ASSUME NEW t \in Switches, NEW k \in Keys, Message(t, k)
      PROVE  TablesInv'
  <2>1. astray' = astray /\ proc' # None
    BY <1>7, WrittenSwitch DEF TablesInv
  <2>2. WorkLeft'
    BY <1>7, <2>1, PendingMessage DEF WorkLeft, Tracked
  <2> QED
    BY <1>1, <2>1, <2>2 DEF TablesInv, TablesTrusted
<1>8. CASE End
  <2>1. proc' = None /\ oldRules' = proc.rules /\ tables' = tables
    BY <1>8 DEF End
  <2>2. TablesTrusted'
    BY <1>8, <2>1, AllDone DEF TablesTrusted
  <2> QED
    BY <1>1, <2>1, <2>2 DEF TablesInv, WorkLeft
<1> QED
  BY <1>2, <1>3, <1>4, <1>5, <1>6, <1>7, <1>8 DEF Next, Message

LEMMA TablesInit ==
    ASSUME Init
    PROVE  TablesInv
<1>1. TypeInv /\ proc = None /\ jobs = <<>> /\ topology = {}
  BY TypeInit DEF Init
<1>2. \A s \in Switches : oldRules[s] = NoRules /\ tables[s] = Empty
  BY DEF Init
<1>3. TablesTrusted
  BY <1>2 DEF TablesTrusted, NoRules, Empty, Exact, AllKeys
<1>4. NewSwitches
  BY <1>1, <1>2 DEF NewSwitches
<1> QED
  BY <1>1, <1>3, <1>4 DEF TablesInv, WorkLeft

LEMMA TablesInvariance == Spec => []TablesInv
  BY TablesInit, TablesStep, PTL DEF Spec

(* Between updates the tables of the switches that the runtime keeps track of hold
   the rules written last, however updates, disconnections and new switches fall
   between the messages of a process. *)
THEOREM TablesKept == Spec => []TablesTrusted
<1>1. TablesInv => TablesTrusted
  BY DEF TablesInv
<1> QED
  BY <1>1, TablesInvariance, PTL

(* An incremental update sends nothing that touches a rule that stays as it is. *)
THEOREM Untouched == Spec => StayingRulesUntouched
<1> DEFINE Stays(s, k) == mode = "proactive1" /\ proc # None /\ oldRules[s][k] = proc.rules[s][k]
           Quiet == \A s \in (connected \intersect connected') \ astray, k \in Exact :
                        Stays(s, k) => tables'[s][k] = tables[s][k]
<1>1. ASSUME TablesInv, [Next]_vars
      PROVE  [Quiet]_vars
  <2> SUFFICES ASSUME NEW s \in (connected \intersect connected') \ astray, NEW k \in Exact, Stays(s, k)
               PROVE  tables'[s][k] = tables[s][k]
    OBVIOUS
  <2>1. s \in Switches /\ k \in Keys /\ <<s, k>> \in Tracked
    BY <1>1 DEF TablesInv, TypeInv, TypeOK, Tracked, Exact
  <2>2. Pending(<<s, k>>)
    BY <1>1, <2>1 DEF TablesInv, WorkLeft
  <2>3. /\ proc.clear = {}
        /\ <<s, k>> \notin proc.add \union proc.delete \union proc.modify \union proc.replace
    BY <2>2 DEF Pending, Added, Deleted, Modified, Cleared, Old, New
  <2>4. ASSUME NEW t \in Switches, NEW l \in Keys, Message(t, l)
        PROVE  tables'[s][k] = tables[s][k]
    <3>1. <<t, l>> \in proc.add \union proc.delete \union proc.modify \union proc.replace
      BY <2>4 DEF Message, SendAdd, SendDelete, SendModify, SendReplace
    <3>2. <<s, k>> # <<t, l>>
      BY <2>3, <3>1
    <3> QED
      BY <1>1, <2>1, <2>4, <3>2, WrittenPlace DEF TablesInv
  <2>5. ASSUME NEW t \in Switches, Join(t)
        PROVE  tables'[s][k] = tables[s][k]
    BY <1>1, <2>1, <2>5 DEF Join, TablesInv, TypeInv, TypeOK
  <2>6. CASE ChangePolicy \/ PublishTopology \/ Begin \/ Die \/ End \/ UNCHANGED vars
    BY <2>6 DEF ChangePolicy, PublishTopology, Begin, Die, End, vars
  <2>7. ASSUME NEW t \in Switches, Part(t) \/ SendClear(t)
        PROVE  tables'[s][k] = tables[s][k]
    BY <2>3, <2>7 DEF Part, SendClear
  <2> QED
    BY <1>1, <2>4, <2>5, <2>6, <2>7 DEF Next, Message
<1>2. Spec => [][Quiet]_vars
  BY <1>1, TablesInvariance, PTL DEF Spec
<1> QED
  BY <1>2 DEF StayingRulesUntouched

-----------------------------------------------------------------------------
(* The refinement.  The queue holds the last of the rules asked for, in order, and
   the process that writes has those before them. *)
InOrder ==
    /\ Len(asked) = jobCount
    /\ \A i \in 1 .. Len(jobs) : asked[jobCount - Len(jobs) + i] = jobs[i].rules
    /\ proc # None => asked[jobCount - Len(jobs)] = proc.rules /\ installed < jobCount - Len(jobs)
    /\ installed <= jobCount - Len(jobs)

StoreInv == TablesInv /\ InOrder

LEMMA OrderFork ==
    ASSUME StoreInv, NEW rules \in [Switches -> RuleSets], NEW switches \in SUBSET Switches,
           Fork(rules, switches), UNCHANGED <<proc, installed>>
    PROVE  InOrder'
<1> DEFINE new == Switchify(rules, switches)
<1>1. /\ Len(jobs) \in Nat /\ jobCount \in Nat /\ installed \in Nat
      /\ asked \in Seq([Switches -> RuleSets]) /\ Len(asked) = jobCount /\ Len(jobs) <= jobCount
  BY DEF StoreInv, InOrder, TablesInv, TypeInv, TypeOK
<1>2. new \in [Switches -> RuleSets]
  BY SwitchifyType
<1>3. /\ Len(jobs') = Len(jobs) + 1 /\ jobCount' = jobCount + 1 /\ asked' = Append(asked, new)
      /\ \A i \in 1 .. Len(jobs) : jobs'[i] = jobs[i]
      /\ jobs'[Len(jobs) + 1].rules = new
  BY ForkTypes DEF StoreInv, TablesInv
<1> HIDE DEF new
<1>4. /\ Len(asked') = jobCount + 1 /\ asked'[jobCount + 1] = new
      /\ \A i \in 1 .. jobCount : asked'[i] = asked[i]
  BY <1>1, <1>2, <1>3, AppendProperties
<1>5. ASSUME NEW i \in 1 .. Len(jobs')
      PROVE  asked'[jobCount' - Len(jobs') + i] = jobs'[i].rules
  <2>1. jobCount' - Len(jobs') + i = jobCount - Len(jobs) + i /\ i \in Nat
    BY <1>1, <1>3
  <2>2. CASE i = Len(jobs) + 1
    <3>1. jobCount - Len(jobs) + i = jobCount + 1
      BY <1>1, <2>2
    <3> QED
      BY <1>3, <1>4, <2>1, <2>2, <3>1
  <2>3. CASE i \in 1 .. Len(jobs)
    <3>1. jobCount - Len(jobs) + i \in 1 .. jobCount
      BY <1>1, <2>3
    <3>2. asked[jobCount - Len(jobs) + i] = jobs[i].rules
      BY <2>3 DEF StoreInv, InOrder
    <3> QED
      BY <1>3, <1>4, <2>1, <2>3, <3>1, <3>2
  <2>4. i \in 1 .. Len(jobs) \/ i = Len(jobs) + 1
    <3>1. i \in 1 .. Len(jobs) + 1
      BY <1>3
    <3> QED
      BY <1>1, <3>1
  <2> QED
    BY <2>2, <2>3, <2>4
<1>6. jobCount' - Len(jobs') = jobCount - Len(jobs)
  BY <1>1, <1>3
<1>7. proc' # None => asked'[jobCount' - Len(jobs')] = proc'.rules /\ installed' < jobCount' - Len(jobs')
  <2> SUFFICES ASSUME proc # None
               PROVE  asked'[jobCount - Len(jobs)] = proc.rules /\ installed < jobCount - Len(jobs)
    BY <1>6
  <2>1. asked[jobCount - Len(jobs)] = proc.rules /\ installed < jobCount - Len(jobs)
    BY DEF StoreInv, InOrder
  <2>2. jobCount - Len(jobs) \in 1 .. jobCount
    BY <1>1, <2>1
  <2> QED
    BY <1>4, <2>1, <2>2
<1> QED
  BY <1>3, <1>4, <1>5, <1>6, <1>7 DEF StoreInv, InOrder

LEMMA OrderStep ==
    ASSUME StoreInv, [Next]_vars
    PROVE  InOrder'
<1>1. TypeInv /\ Len(jobs) \in Nat /\ jobCount \in Nat /\ installed \in Nat /\ Len(jobs) <= jobCount
  BY DEF StoreInv, TablesInv, TypeInv, TypeOK
<1>2. CASE ChangePolicy
  <2>1. PICK r \in Classifiers : Fork(r, topology) /\ UNCHANGED <<proc, installed>>
    BY <1>2 DEF ChangePolicy
  <2>2. r \in [Switches -> RuleSets] /\ topology \in SUBSET Switches
    BY <1>1, FlowTablesAssumption DEF RuleSets, Optional, TypeInv, TypeOK
  <2> QED
    BY <2>1, <2>2, OrderFork
<1>3. CASE PublishTopology
  <2>1. classifier \in [Switches -> RuleSets] /\ connected \in SUBSET Switches
    BY <1>1 DEF TypeInv, TypeOK
  <2> QED
    BY <1>3, <2>1, OrderFork DEF PublishTopology
<1>4. CASE Begin \/ Die
  <2>1. jobs # <<>> /\ jobs' = Tail(jobs) /\ proc = None /\ UNCHANGED <<jobCount, asked, installed>>
    BY <1>4 DEF Begin, Die
  <2>2. /\ Len(jobs') = Len(jobs) - 1 /\ Len(jobs) \in Nat \ {0}
        /\ \A i \in 1 .. Len(jobs') : jobs'[i] = jobs[i + 1]
    BY <1>1, <2>1, FirstJob
  <2>3. asked[jobCount - Len(jobs) + 1] = jobs[1].rules
    BY <2>2 DEF StoreInv, InOrder
  <2>4. ASSUME NEW i \in 1 .. Len(jobs')
        PROVE  asked'[jobCount' - Len(jobs') + i] = jobs'[i].rules
    <3>1. i + 1 \in 1 .. Len(jobs) /\ jobCount' - Len(jobs') + i = jobCount - Len(jobs) + (i + 1)
      BY <1>1, <2>1, <2>2
    <3>2. asked[jobCount - Len(jobs) + (i + 1)] = jobs[i + 1].rules
      BY <3>1 DEF StoreInv, InOrder
    <3> QED
      BY <2>1, <2>2, <3>1, <3>2
  <2>5. jobCount' - Len(jobs') = jobCount - Len(jobs) + 1
    BY <1>1, <2>1, <2>2
  <2>6. installed <= jobCount - Len(jobs)
    BY DEF StoreInv, InOrder
  <2>7. installed' < jobCount' - Len(jobs')
    BY <1>1, <2>1, <2>2, <2>5, <2>6
  <2>8. proc' # None => asked'[jobCount' - Len(jobs')] = proc'.rules
    <3>1. CASE Begin
      BY <1>1, <2>1, <2>3, <2>5, <3>1, BeginTypes
    <3>2. CASE Die
      BY <2>1, <3>2 DEF Die
    <3> QED
      BY <1>4, <3>1, <3>2
  <2> QED
    BY <1>1, <2>1, <2>2, <2>4, <2>5, <2>7, <2>8 DEF StoreInv, InOrder
<1>5. ASSUME NEW t \in Switches, SendClear(t) \/ \E k \in Keys : Message(t, k)
      PROVE  InOrder'
  BY <1>1, <1>5, WrittenSwitch DEF StoreInv, InOrder
<1>6. CASE End
  BY <1>1, <1>6 DEF End, StoreInv, InOrder
<1>7. ASSUME NEW t \in Switches, Join(t) \/ Part(t)
      PROVE  InOrder'
  BY <1>7 DEF Join, Part, StoreInv, InOrder
<1>8. CASE UNCHANGED vars
  BY <1>8 DEF vars, StoreInv, InOrder
<1> QED
  BY <1>2, <1>3, <1>4, <1>5, <1>6, <1>7, <1>8 DEF Next, Message

\* A table shows the rules written last, while a process writes as well.
ShowsOldRules == Shown = [s \in Switches |-> IF s \in astray THEN None ELSE OnExact(oldRules[s])]

LEMMA ShownOldRules == StoreInv => ShowsOldRules
<1> SUFFICES ASSUME StoreInv, NEW s \in Switches
             PROVE  (IF s \in astray THEN None ELSE OnExact(IF proc = None THEN tables[s] ELSE oldRules[s]))
                    = (IF s \in astray THEN None ELSE OnExact(oldRules[s]))
  BY DEF ShowsOldRules, Shown
<1>1. CASE proc = None /\ s \notin astray
  <2>1. \A k \in Exact : tables[s][k] = oldRules[s][k]
    BY <1>1 DEF StoreInv, TablesInv, TablesTrusted
  <2> QED
    BY <1>1, <2>1 DEF OnExact
<1>2. CASE proc # None \/ s \in astray
  BY <1>2
<1> QED
  BY <1>1, <1>2

LEMMA StoreStep == StoreInv /\ [Next]_vars => StoreInv'
  BY TablesStep, OrderStep DEF StoreInv

\* So as long as they stay, and the switches kept track of do, nothing shows.
LEMMA ShownSame ==
    ASSUME StoreInv, [Next]_vars, UNCHANGED <<oldRules, astray>>
    PROVE  Shown' = Shown
<1>1. StoreInv' => ShowsOldRules'
  BY ShownOldRules, PTL
<1> QED
  BY <1>1, StoreStep, ShownOldRules DEF ShowsOldRules

\* What has been asked for, and what a fork asks for.
LEMMA AskedType ==
    ASSUME NEW a \in Seq([Switches -> RuleSets])
    PROVE  [i \in DOMAIN a |-> [s \in Switches |-> OnExact(a[i][s])]] \in Seq([Switches -> [Exact -> Optional]])
<1>1. Len(a) \in Nat /\ DOMAIN a = 1 .. Len(a) /\ \A i \in 1 .. Len(a) : a[i] \in [Switches -> RuleSets]
  BY LenProperties
<1>2. \A i \in 1 .. Len(a) : [s \in Switches |-> OnExact(a[i][s])] \in [Switches -> [Exact -> Optional]]
  BY <1>1 DEF OnExact, RuleSets, Exact
<1> QED
  BY <1>1, <1>2

LEMMA ForkAsks ==
    ASSUME StoreInv, NEW rules \in [Switches -> RuleSets], NEW switches \in SUBSET Switches,
           Fork(rules, switches)
    PROVE  \E r \in [Switches -> [Exact -> Optional]] : AskedFor' = Append(AskedFor, r)
<1> DEFINE new == Switchify(rules, switches)
           r == [s \in Switches |-> OnExact(new[s])]
           S == [Switches -> [Exact -> Optional]]
<1>1. asked \in Seq([Switches -> RuleSets]) /\ asked' = Append(asked, new) /\ new \in [Switches -> RuleSets]
  BY ForkTypes, SwitchifyType DEF StoreInv, TablesInv, TypeInv, TypeOK
<1> HIDE DEF new
<1>2. r \in S
  BY <1>1 DEF OnExact, RuleSets, Exact
<1>3. /\ asked' \in Seq([Switches -> RuleSets]) /\ Len(asked) \in Nat /\ Len(asked') = Len(asked) + 1
      /\ DOMAIN asked = 1 .. Len(asked) /\ DOMAIN asked' = 1 .. Len(asked) + 1
      /\ \A i \in 1 .. Len(asked) : asked'[i] = asked[i]
      /\ asked'[Len(asked) + 1] = new
  BY <1>1, AppendProperties, LenProperties
<1>4. AskedFor \in Seq(S) /\ AskedFor' \in Seq(S)
  BY <1>1, <1>3, AskedType DEF AskedFor
<1>5. Len(AskedFor) = Len(asked) /\ Len(AskedFor') = Len(asked) + 1
  BY <1>3, <1>4, LenProperties DEF AskedFor
<1>6. /\ Append(AskedFor, r) \in Seq(S) /\ Len(Append(AskedFor, r)) = Len(asked) + 1
      /\ \A i \in 1 .. Len(asked) : Append(AskedFor, r)[i] = AskedFor[i]
      /\ Append(AskedFor, r)[Len(asked) + 1] = r
  BY <1>2, <1>4, <1>5, AppendProperties
<1>7. ASSUME NEW i \in 1 .. Len(asked) + 1
      PROVE  AskedFor'[i] = Append(AskedFor, r)[i]
  <2>1. CASE i \in 1 .. Len(asked)
    BY <1>3, <1>6, <2>1 DEF AskedFor
  <2>2. CASE i = Len(asked) + 1
    BY <1>3, <1>6, <2>2 DEF AskedFor
  <2>3. i \in 1 .. Len(asked) \/ i = Len(asked) + 1
    <3>1. Len(asked) \in Nat
      BY <1>3
    <3> QED
      BY <3>1
  <2> QED
    BY <2>1, <2>2, <2>3
<1>8. AskedFor' = Append(AskedFor, r)
  BY <1>4, <1>5, <1>6, <1>7, SeqEqual
<1> QED
  BY <1>2, <1>8

\* The end of a process is an update of all tables kept track of.
LEMMA EndUpdates ==
    ASSUME StoreInv, End
    PROVE  Store!Update
<1> DEFINE i == jobCount - Len(jobs)
           known == Switches \ astray'
<1>1. /\ Len(jobs) \in Nat /\ jobCount \in Nat /\ installed \in Nat /\ Len(jobs) <= jobCount
      /\ asked \in Seq([Switches -> RuleSets]) /\ Len(asked) = jobCount
  BY DEF StoreInv, InOrder, TablesInv, TypeInv, TypeOK
<1>2. /\ proc # None /\ proc' = None /\ installed' = i /\ oldRules' = proc.rules /\ tables' = tables
      /\ asked' = asked
  BY DEF End, Sent
<1>3. asked[i] = proc.rules /\ installed < i
  BY <1>2 DEF StoreInv, InOrder
<1>4. i \in 1 .. Len(asked) /\ i \in installed + 1 .. Len(asked)
  BY <1>1, <1>3
<1> HIDE DEF i
<1>5. Len(AskedFor) = Len(asked)
  <2>1. AskedFor \in Seq([Switches -> [Exact -> Optional]])
    BY <1>1, AskedType DEF AskedFor
  <2>2. DOMAIN AskedFor = 1 .. Len(asked) /\ Len(asked) \in Nat
    BY <1>1, LenProperties DEF AskedFor
  <2> QED
    BY <2>1, <2>2, LenProperties
<1>6. AskedFor[i] = [s \in Switches |-> OnExact(asked[i][s])]
  BY <1>1, <1>4, LenProperties DEF AskedFor
<1>7. ASSUME NEW s \in Switches
      PROVE  Shown'[s] = IF s \in known THEN AskedFor[i][s] ELSE None
  <2>1. CASE s \in astray'
    BY <2>1 DEF Shown
  <2>2. CASE s \notin astray'
    <3>1. \A k \in Exact : tables[s][k] = proc.rules[s][k]
      BY <2>2, AllDone DEF StoreInv
    <3>2. Shown'[s] = OnExact(tables[s])
      BY <1>2, <2>2 DEF Shown
    <3>3. AskedFor[i][s] = OnExact(proc.rules[s])
      BY <1>3, <1>6
    <3> QED
      BY <2>2, <3>1, <3>2, <3>3 DEF OnExact
  <2> QED
    BY <2>1, <2>2
<1>8. Shown' = [s \in Switches |-> IF s \in known THEN AskedFor[i][s] ELSE None]
  BY <1>7 DEF Shown
<1>9. AskedFor' = AskedFor
  BY <1>2 DEF AskedFor
<1> QED
  BY <1>2, <1>4, <1>5, <1>8, <1>9 DEF Store!Update

\* Every step is one of TableStore, or does not show.
LEMMA StepRefines ==
    ASSUME StoreInv, [Next]_vars
    PROVE  [Store!Next]_<<AskedFor, installed, Shown>>
<1>1. CASE ChangePolicy \/ PublishTopology
  <2>1. PICK rules \in [Switches -> RuleSets], switches \in SUBSET Switches : Fork(rules, switches)
    <3>1. classifier \in [Switches -> RuleSets] /\ connected \in SUBSET Switches /\ topology \in SUBSET Switches
      BY DEF StoreInv, TablesInv, TypeInv, TypeOK
    <3>2. Classifiers \subseteq [Switches -> RuleSets]
      BY FlowTablesAssumption DEF RuleSets, Optional
    <3> QED
      BY <1>1, <3>1, <3>2 DEF ChangePolicy, PublishTopology
  <2>2. UNCHANGED <<oldRules, astray, installed>>
    BY <1>1 DEF ChangePolicy, PublishTopology
  <2>3. Shown' = Shown
    BY <2>2, ShownSame
  <2> QED
    BY <2>1, <2>2, <2>3, ForkAsks DEF Store!Next, Store!Ask
<1>2. CASE Begin \/ Die \/ UNCHANGED vars
           \/ \E s \in Switches : Join(s) \/ SendClear(s) \/ \E k \in Keys : Message(s, k)
  <2>1. UNCHANGED <<oldRules, astray, installed, asked>>
    BY <1>2 DEF Begin, Die, vars, Join, SendClear, Message, SendAdd, SendDelete, SendModify, SendReplace, Still
  <2> QED
    BY <2>1, ShownSame DEF AskedFor
<1>3. ASSUME NEW t \in Switches, Part(t)
      PROVE  Store!Lose
  <2>1. astray' = astray \union {t} /\ UNCHANGED <<proc, tables, oldRules, installed, asked>>
    BY <1>3 DEF Part
  <2>2. Shown' = [Shown EXCEPT ![t] = None]
    BY <2>1 DEF Shown
  <2> QED
    BY <2>1, <2>2 DEF Store!Lose, AskedFor
<1>4. CASE End
  BY <1>4, EndUpdates DEF Store!Next
<1> QED
  BY <1>1, <1>2, <1>3, <1>4 DEF Next, Message, Store!Next

LEMMA StoreInit ==
    ASSUME Init
    PROVE  StoreInv /\ Store!Init
<1>1. asked = <<>> /\ jobs = <<>> /\ jobCount = 0 /\ installed = 0 /\ proc = None /\ astray = {}
  BY DEF Init
<1>2. InOrder
  BY <1>1 DEF InOrder
<1>3. AskedFor = <<>>
  BY <1>1 DEF AskedFor
<1>4. Shown = [s \in Switches |-> [k \in Exact |-> None]]
  <2>1. \A s \in Switches : OnExact(tables[s]) = [k \in Exact |-> None]
    BY DEF Init, OnExact, Empty, AllKeys, Exact
  <2> QED
    BY <1>1, <2>1 DEF Shown
<1> QED
  BY <1>1, <1>2, <1>3, <1>4, TablesInit DEF StoreInv, Store!Init

(* The messages of the processes, between any joins, disconnections and changes of
   policy, implement TableStore: the tables of the switches that are kept track of
   change as a whole, each time to rules that were asked for later. *)
THEOREM Implements == Spec => StoreSpec
<1>1. Spec => []StoreInv
  BY StoreInit, StoreStep, PTL DEF Spec
<1>2. StoreInv /\ [Next]_vars => [Store!Next]_<<AskedFor, installed, Shown>>
  BY StepRefines
<1>3. Init => Store!Init
  BY StoreInit
<1> QED
  BY <1>1, <1>2, <1>3, PTL DEF Spec, StoreSpec, Store!Spec
=============================================================================
