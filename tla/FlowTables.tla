------------------------------ MODULE FlowTables ------------------------------
(***************************************************************************)
(* How the processes of Runtime.install_classifier (src/core/runtime.py)   *)
(* write the flow tables, message by message: nuclear_install clears each  *)
(* switch and starts from scratch (mode proactive0), install_diff_rules    *)
(* sends the difference to the rules it wrote last (mode proactive1).      *)
(*                                                                         *)
(* A rule is known by its key, its match and priority at a switch; adding a *)
(* rule replaces the one with its key.  Rules map keys to actions, None    *)
(* where there is no rule.  A classifier reaches install_classifier as the *)
(* keys it gives each switch.                                              *)
(***************************************************************************)
EXTENDS Naturals, Sequences, FiniteSets

CONSTANTS
    Switches,
    Keys,           \* match and priority of a rule
    Networks,       \* the keys whose match has an IPPrefix
    Actions, None,
    TableMiss,      \* the key of the rule that clearing leaves behind
    Classifiers,    \* the classifiers of the policies that occur
    Unforwardable,  \* those of them with an action that has no output port
    Modes,          \* the modes the runtime may be started in
    MaxJobs,        \* bound on the updates
    MaxLeaves       \* bound on disconnections

ASSUME FlowTablesAssumption ==
    /\ Networks \subseteq Keys /\ TableMiss \notin Keys /\ None \notin Actions /\ Actions # {}
    /\ Classifiers \subseteq [Switches -> [Keys -> Actions \union {None}]]
    /\ Unforwardable \subseteq Classifiers
    /\ Modes \subseteq {"proactive0", "proactive1"} /\ MaxJobs \in Nat /\ MaxLeaves \in Nat

VARIABLES
    mode,
    connected,    \* switches that have a connection
    topology,     \* network.topology.nodes(), as published
    classifier,   \* rules of the current policy for each switch
    jobs,         \* forked processes that wait for switch_lock
    proc,         \* the process that holds switch_lock, None if none does
    oldRules,     \* the rules written last: old_rules, which mode proactive0 keeps as history only
    tables,       \* the rules in each switch
    jobCount, leaveCount,
    astray,       \* history: switches whose table the runtime lost track of
    asked,        \* history: the rules of all processes so far
    installed     \* history: the number of those whose rules were written last

vars == <<mode, connected, topology, classifier, jobs, proc, oldRules, tables, jobCount, leaveCount,
          astray, asked, installed>>

Optional == Actions \union {None}
RuleSets == [Keys -> Optional]
NoRules  == [k \in Keys |-> None]
AllKeys  == Keys \union {TableMiss}
Empty    == [k \in AllKeys |-> None]

\* switchify: rules for the switches of the topology only.
Switchify(rules, switches) == [s \in Switches |-> IF s \in switches THEN rules[s] ELSE NoRules]

Places == Switches \X Keys
Exact  == Keys \ Networks

\* A process that waits for switch_lock, and the one that holds it.
Job     == [rules : [Switches -> RuleSets], switches : SUBSET Switches, raises : BOOLEAN]
Process == [rules : [Switches -> RuleSets], switches : SUBSET Switches, clear : SUBSET Switches,
            add : SUBSET Places, delete : SUBSET Places, modify : SUBSET Places, replace : SUBSET Places]

ASSUME NoneAssumption == None \notin Process
-----------------------------------------------------------------------------
(* The policy, the topology and the connections *)

\* A process is forked with the classifier and the topology of the moment.
Fork(rules, switches) ==
    /\ jobCount < MaxJobs
    /\ jobs' = Append(jobs, [rules |-> Switchify(rules, switches), switches |-> switches,
                             raises |-> rules \in Unforwardable])
    /\ asked' = Append(asked, Switchify(rules, switches))
    /\ jobCount' = jobCount + 1

ChangePolicy == \E r \in Classifiers :
    /\ classifier' = r
    /\ Fork(r, topology)
    /\ UNCHANGED <<mode, connected, topology, proc, oldRules, tables, leaveCount, astray, installed>>

\* The topology is published some time after switches joined and left.
PublishTopology ==
    /\ topology # connected
    /\ topology' = connected
    /\ Fork(classifier, connected)
    /\ UNCHANGED <<mode, connected, classifier, proc, oldRules, tables, leaveCount, astray, installed>>

\* A switch starts with an empty table.
Join(s) ==
    /\ s \notin connected
    /\ connected' = connected \union {s}
    /\ tables' = [tables EXCEPT ![s] = Empty]
    /\ UNCHANGED <<mode, topology, classifier, jobs, proc, oldRules, jobCount, leaveCount, astray, asked,
                   installed>>

Part(s) ==
    /\ s \in connected /\ leaveCount < MaxLeaves
    /\ connected' = connected \ {s}
    /\ leaveCount' = leaveCount + 1
    /\ astray' = astray \union {s}
    /\ UNCHANGED <<mode, topology, classifier, jobs, proc, oldRules, tables, jobCount, asked, installed>>
-----------------------------------------------------------------------------
(* The process that holds switch_lock *)

\* The rule at a place before and after.
Old(p) == oldRules[p[1]][p[2]]
New(job, p) == job.rules[p[1]][p[2]]

\* find_same_rule finds one: an IPPrefix equals no other, so the rule of a
\* network has no counterpart.
SameRule(job, p) == Old(p) # None /\ New(job, p) # None /\ p[2] \notin Networks

\* The difference: rules that are new, gone, and changed.
ToAdd(job) == {p \in Places : New(job, p) # None /\ ~SameRule(job, p)}
\* Mutant: rules of switches that are gone are deleted too.
ToDeleteAnywhere(job) == {p \in Places : Old(p) # None /\ ~SameRule(job, p)}
ToDelete(job) == {p \in Places : Old(p) # None /\ ~SameRule(job, p) /\ p[1] \in job.switches}
\* Mutant: every rule that is in both is modified.
ToModifyAll(job) == {p \in Places : SameRule(job, p)}
\* Mutant: rules are compared without their actions.
ToModifyNone(job) == {}
ToModify(job) == {p \in Places : SameRule(job, p) /\ Old(p) # New(job, p)}

AllRules(job) == {p \in Places : New(job, p) # None}

\* The messages of a process, in its order: first the switches to clear, then
\* the rules to add, to delete, and to modify.
Begin ==
    /\ proc = None /\ jobs # <<>> /\ ~Head(jobs).raises
    /\ LET job == Head(jobs)
       IN  proc' = [rules    |-> job.rules,
                    switches |-> job.switches,
                    clear    |-> IF mode = "proactive1" THEN {} ELSE job.switches,
                    add      |-> IF mode = "proactive1" THEN ToAdd(job) ELSE AllRules(job),
                    delete   |-> IF mode = "proactive1" THEN ToDelete(job) ELSE {},
                    modify   |-> IF mode = "proactive1" THEN ToModify(job) ELSE {},
                    replace  |-> {}]
    /\ jobs' = Tail(jobs)
    /\ UNCHANGED <<mode, connected, topology, classifier, oldRules, tables, jobCount, leaveCount,
                   astray, asked, installed>>

\* OF_inportize raises before the process has sent or changed anything.
Die ==
    /\ proc = None /\ jobs # <<>> /\ Head(jobs).raises
    /\ jobs' = Tail(jobs)
    /\ UNCHANGED <<mode, connected, topology, classifier, proc, oldRules, tables, jobCount,
                   leaveCount, astray, asked, installed>>

\* A message reaches the switch if it is connected.
Write(s, t) == tables' = IF s \in connected THEN [tables EXCEPT ![s] = t] ELSE tables
Put(s, k, a) == Write(s, [tables[s] EXCEPT ![k] = a])
Still == UNCHANGED <<mode, connected, topology, classifier, jobs, oldRules, jobCount, leaveCount, astray,
                     asked, installed>>

\* send_clear between barriers, and a rule that sends what misses to the controller.
SendClear(s) ==
    /\ proc # None /\ s \in proc.clear
    /\ proc' = [proc EXCEPT !.clear = @ \ {s}]
    /\ Write(s, [Empty EXCEPT ![TableMiss] = CHOOSE a \in Actions : TRUE])
    /\ Still

\* install_rule
SendAdd(s, k) ==
    /\ proc # None /\ proc.clear = {} /\ <<s, k>> \in proc.add
    /\ proc' = [proc EXCEPT !.add = @ \ {<<s, k>>}]
    /\ Put(s, k, proc.rules[s][k])
    /\ Still

\* delete_rule
SendDelete(s, k) ==
    /\ proc # None /\ proc.clear = {} /\ proc.add = {} /\ <<s, k>> \in proc.delete
    /\ proc' = [proc EXCEPT !.delete = @ \ {<<s, k>>}]
    /\ Put(s, k, None)
    /\ Still

\* A modified rule is deleted, then installed.
SendModify(s, k) ==
    /\ proc # None /\ proc.clear = {} /\ proc.add = {} /\ proc.delete = {} /\ proc.replace = {}
    /\ <<s, k>> \in proc.modify
    /\ proc' = [proc EXCEPT !.modify = @ \ {<<s, k>>}, !.replace = {<<s, k>>}]
    /\ Put(s, k, None)
    /\ Still
\* Mutant: a modified rule is installed as it was.
SendReplaceOld(s, k) ==
    /\ proc # None /\ <<s, k>> \in proc.replace
    /\ proc' = [proc EXCEPT !.replace = {}]
    /\ Put(s, k, oldRules[s][k])
    /\ Still
SendReplace(s, k) ==
    /\ proc # None /\ <<s, k>> \in proc.replace
    /\ proc' = [proc EXCEPT !.replace = {}]
    /\ Put(s, k, proc.rules[s][k])
    /\ Still

Sent == proc # None /\ proc.clear \union proc.add \union proc.delete \union proc.modify \union proc.replace = {}

\* Mutant: old_rules is kept.
EndKeepOld ==
    /\ Sent
    /\ proc' = None
    /\ installed' = jobCount - Len(jobs)
    /\ UNCHANGED <<mode, connected, topology, classifier, jobs, oldRules, tables, jobCount, leaveCount,
                   astray, asked>>

\* old_rules is replaced and switch_lock released.  (History: a switch whose
\* rules the runtime forgets without deleting them goes astray, one whose table
\* is what the runtime believes is found again.)
End ==
    /\ Sent
    /\ proc' = None
    /\ oldRules' = proc.rules
    /\ installed' = jobCount - Len(jobs)
    /\ astray' = {s \in astray \union {t \in Switches \ proc.switches : oldRules[t] # NoRules} :
                     s \notin connected \/ \E k \in Exact : tables[s][k] # proc.rules[s][k]}
    /\ UNCHANGED <<mode, connected, topology, classifier, jobs, tables, jobCount, leaveCount, asked>>

Init ==
    /\ mode \in Modes
    /\ connected = {} /\ topology = {}
    /\ classifier = [s \in Switches |-> NoRules]
    /\ jobs = <<>> /\ proc = None
    /\ oldRules = [s \in Switches |-> NoRules]
    /\ tables = [s \in Switches |-> Empty]
    /\ jobCount = 0 /\ leaveCount = 0
    /\ astray = {} /\ asked = <<>> /\ installed = 0

Next ==
    \/ ChangePolicy \/ PublishTopology
    \/ \E s \in Switches : Join(s) \/ Part(s)
    \/ Begin \/ Die
    \/ \E s \in Switches : SendClear(s)
    \/ \E s \in Switches, k \in Keys :
          SendAdd(s, k) \/ SendDelete(s, k) \/ SendModify(s, k) \/ SendReplace(s, k)
    \/ End

Spec == Init /\ [][Next]_vars
FairSpec == Spec /\ WF_vars(Begin) /\ WF_vars(Die) /\ WF_vars(End)
                 /\ WF_vars(\E s \in Switches : SendClear(s))
                 /\ WF_vars(\E s \in Switches, k \in Keys :
                       SendAdd(s, k) \/ SendDelete(s, k) \/ SendModify(s, k) \/ SendReplace(s, k))
-----------------------------------------------------------------------------
TypeOK ==
    /\ mode \in Modes
    /\ connected \subseteq Switches /\ topology \subseteq Switches /\ astray \subseteq Switches
    /\ classifier \in [Switches -> RuleSets] /\ oldRules \in [Switches -> RuleSets]
    /\ jobs \in Seq(Job)
    /\ proc # None => /\ proc \in Process /\ proc.clear \subseteq proc.switches
                      /\ proc.add \union proc.delete \union proc.modify \union proc.replace
                            \subseteq proc.switches \X Keys
    /\ tables \in [Switches -> [AllKeys -> Optional]]
    /\ asked \in Seq([Switches -> RuleSets])
    /\ jobCount \in Nat /\ leaveCount \in Nat /\ installed \in Nat

(* Between updates a table holds what old_rules says, unless the runtime lost
   track of the switch, in both modes.  The rules of networks are left out: an
   IPPrefix equals no other, so that install_diff_rules adds a rule that stays
   and then deletes it. *)
TablesTrusted ==
    proc = None => \A s \in Switches \ astray, k \in Exact : tables[s][k] = oldRules[s][k]

(* An incremental update does not touch a rule that stays as it is, not even for
   a moment: no packet falls through to the rules below it. *)
StayingRulesUntouched ==
    [][\A s \in (connected \intersect connected') \ astray, k \in Exact :
          mode = "proactive1" /\ proc # None /\ oldRules[s][k] = proc.rules[s][k]
              => tables'[s][k] = tables[s][k]]_vars

(* The detailed updates implement TableStore: the tables of the switches that the
   runtime keeps track of change as a whole, to rules that were asked for later. *)
OnExact(t) == [k \in Exact |-> t[k]]
AskedFor == [i \in DOMAIN asked |-> [s \in Switches |-> OnExact(asked[i][s])]]
Shown == [s \in Switches |-> IF s \in astray THEN None
                             ELSE OnExact(IF proc = None THEN tables[s] ELSE oldRules[s])]
Store == INSTANCE TableStore WITH
    Rules   <- [Exact -> Optional],
    Nothing <- [k \in Exact |-> None],
    Unknown <- None,
    asked   <- AskedFor,
    latest  <- installed,
    shown   <- Shown
StoreSpec == Store!Spec

(* Every update comes to its end, and the tables come to hold the latest
   classifier on every switch of the topology that is kept track of, if it can
   be installed at all. *)
EventuallyLatest ==
    <>[](classifier \notin Unforwardable =>
         \A s \in topology \ astray, k \in Exact : tables[s][k] = classifier[s][k])
=============================================================================
