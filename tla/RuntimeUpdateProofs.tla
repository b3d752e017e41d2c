------------------------ MODULE RuntimeUpdateProofs ------------------------
(***************************************************************************)
(* Proofs about RuntimeUpdate, for any number of threads, changes,         *)
(* topologies and packets: types and mutual exclusion; the latest policy   *)
(* and topology get compiled unless handle_policy_change returned at once; *)
(* and they get forked, too, if no thread reassigns a policy outside       *)
(* policy_lock.                                                            *)
(***************************************************************************)
EXTENDS RuntimeUpdate, TLAPS

\* One timer at a time is inside network_lock.
OneNetworkChange ==
    \A m, n \in Timers :
        /\ timer[m].pc \in {"set", "fork", "leave"}
        /\ timer[n].pc \in {"set", "fork", "leave"}
        => m = n

TypeInv == TypeOK /\ OneNetworkChange

\* A classifier stays one of a policy and a topology there have been.
LEMMA CodesGrow ==
    ASSUME CountersOK, CountersOK',
           policyNo' >= policyNo, topoNo' >= topoNo, forks' >= forks
    PROVE  /\ Codes \subseteq Codes' /\ Processes \subseteq Processes'
           /\ 0..topoNo \subseteq 0..topoNo'
  <1>1. 0..policyNo \subseteq 0..policyNo' /\ 0..topoNo \subseteq 0..topoNo'
    BY BoundsAssumption DEF CountersOK
  <1>2. 1..forks \subseteq 1..forks'
    BY DEF CountersOK
  <1>3. Codes \subseteq Codes'
    BY <1>1 DEF Codes
  <1>. QED  BY <1>1, <1>2, <1>3 DEF Processes

LEMMA TypeInit == Init => TypeInv
  <1>. SUFFICES ASSUME Init PROVE TypeInv
    OBVIOUS
  <1>1. CountersOK
    BY BoundsAssumption DEF Init, CountersOK
  <1>2. Start \in Codes
    BY DEF Init, Start, Codes
  <1>3. inUpdate = NetworkLocked /\ OneNetworkChange
    BY DEF Init, NetworkLocked, OneNetworkChange
  <1>4. ThreadsOK
    <2>1. \A n \in Timers : timer[n].pc = "none" <=> n > topoNo
      BY DEF Init, Timers
    <2>. QED  BY <1>2, <1>3, <2>1 DEF Init, ThreadsOK
  <1>5. TablesOK
    BY <1>2 DEF Init, TablesOK
  <1>. QED  BY <1>1, <1>3, <1>4, <1>5 DEF TypeInv, TypeOK

\* No step takes a number back.
LEMMA CountersStep ==
    ASSUME CountersOK, [Next]_vars
    PROVE  /\ CountersOK'
           /\ policyNo' >= policyNo /\ topoNo' >= topoNo /\ forks' >= forks
  <1>. USE BoundsAssumption DEF CountersOK
  <1>1. CASE AssignTopology
    BY <1>1 DEF AssignTopology, tables
  <1>2. ASSUME NEW n \in Timers, TimerStep(n)
        PROVE  CountersOK' /\ policyNo' >= policyNo /\ topoNo' >= topoNo /\ forks' >= forks
    BY <1>2 DEF TimerStep, EnterNetworkChange, Recompile, ForkUpdate,
                LeaveNetworkChange, Fork, tables
  <1>3. ASSUME NEW u \in Users, UserReassign(u) \/ UserPush(u) \/ UserStep(u)
        PROVE  CountersOK' /\ policyNo' >= policyNo /\ topoNo' >= topoNo /\ forks' >= forks
    <2>1. CASE UserReassign(u)
      BY <2>1 DEF UserReassign, Reassign, tables
    <2>2. CASE UserFork(u)
      BY <2>2 DEF UserFork, Fork
    <2>3. CASE UserNotify(u)
      BY <2>3 DEF UserNotify, tables
    <2>4. CASE UserCompile(u)
      BY <2>4 DEF UserCompile, tables
    <2>5. CASE UserPush(u) \/ UserPushed(u)
      BY <2>5 DEF UserPush, UserPushed, tables
    <2>. QED  BY <1>3, <2>1, <2>2, <2>3, <2>4, <2>5 DEF UserStep
  <1>4. CASE Read \/ Callback \/ AsyncoreStep
    BY <1>4 DEF Read, Callback, AsyncoreStep, Dispatch, Evaluate, NotifyChange,
                ForkChange, Applied, LockChannel, SendOutput, Reassign, Fork, tables
  <1>5. CASE ProcessStep
    BY <1>5 DEF ProcessStep, BeginInstall, ClearAll, EndInstall, Process
  <1>6. CASE UNCHANGED vars
    BY <1>6 DEF vars, tables
  <1>. QED  BY <1>1, <1>2, <1>3, <1>4, <1>5, <1>6 DEF Next

\* The threads keep their types and network_lock its one holder.
LEMMA ThreadsStep ==
    ASSUME TypeInv, [Next]_vars
    PROVE  ThreadsOK' /\ OneNetworkChange'
  <1>. USE DEF TypeInv, TypeOK
  <1>1. /\ CountersOK' /\ Codes \subseteq Codes'
        /\ Current \in Codes /\ Current \in Codes'
    <2>1. Current \in Codes
      BY DEF CountersOK, Codes, Current
    <2>. QED  BY <2>1, CountersStep, CodesGrow
  <1>a. /\ asyncore.code \in Codes' /\ compiled \in Codes' /\ forked \in Codes'
        /\ timer \in [Timers -> [pc : {"none", "start", "set", "fork", "leave", "done"},
                                 code : Codes']]
        /\ user \in [Users -> [pc : {"idle", "notify", "compile", "fork", "push"}, code : Codes']]
    BY <1>1 DEF ThreadsOK
  <1>b. asyncore \in [pc : {"idle", "read", "packet", "apply", "notify", "fork", "send",
                            "push"},
                      code : Codes']
    BY <1>1 DEF ThreadsOK
  <1>c. UNCHANGED <<inUpdate, timer, topoNo>> =>
            /\ OneNetworkChange' /\ inUpdate' = NetworkLocked'
            /\ \A n \in Timers : timer'[n].pc = "none" <=> n > topoNo'
    BY DEF ThreadsOK, OneNetworkChange, NetworkLocked
  <1>2. CASE AssignTopology
    <2>1. topoNo + 1 \in Timers /\ timer[topoNo + 1].pc = "none"
      BY <1>2, BoundsAssumption DEF AssignTopology, CountersOK, Timers, ThreadsOK
    <2>2. timer' = [timer EXCEPT ![topoNo + 1].pc = "start"]
      BY <1>2 DEF AssignTopology
    <2>3. OneNetworkChange' /\ inUpdate' = NetworkLocked'
      BY <1>2, <2>1, <2>2 DEF AssignTopology, ThreadsOK, OneNetworkChange, NetworkLocked
    <2>4. \A n \in Timers : timer'[n].pc = "none" <=> n > topoNo'
      BY <1>2, <2>1, <2>2 DEF AssignTopology, ThreadsOK, Timers, CountersOK
    <2>5. timer' \in [Timers -> [pc : {"none", "start", "set", "fork", "leave", "done"},
                                 code : Codes']]
      BY <1>a, <2>2
    <2>6. UNCHANGED <<asyncore, user, compiled, forked, ignored>>
      BY <1>2 DEF AssignTopology
    <2>. QED  BY <1>a, <1>b, <2>3, <2>4, <2>5, <2>6 DEF ThreadsOK
  <1>3. ASSUME NEW n \in Timers, EnterNetworkChange(n)
        PROVE  ThreadsOK' /\ OneNetworkChange'
    <2>1. OneNetworkChange' /\ inUpdate' = NetworkLocked'
      BY <1>3 DEF EnterNetworkChange, ThreadsOK, NetworkLocked, OneNetworkChange
    <2>. QED  BY <1>a, <1>b, <1>3, <2>1 DEF EnterNetworkChange, ThreadsOK
  <1>4. ASSUME NEW n \in Timers, Recompile(n)
        PROVE  ThreadsOK' /\ OneNetworkChange'
    <2>1. OneNetworkChange' /\ inUpdate' = NetworkLocked'
      BY <1>4 DEF Recompile, ThreadsOK, NetworkLocked, OneNetworkChange
    <2>2. compiled' \in Codes'
      BY <1>1, <1>4 DEF Recompile, Compile, CountersOK, Codes
    <2>. QED  BY <1>a, <1>b, <1>4, <2>1, <2>2 DEF Recompile, Compile, ThreadsOK
  <1>5. ASSUME NEW n \in Timers, ForkUpdate(n)
        PROVE  ThreadsOK' /\ OneNetworkChange'
    <2>1. OneNetworkChange' /\ inUpdate' = NetworkLocked'
      BY <1>5 DEF ForkUpdate, ThreadsOK, NetworkLocked, OneNetworkChange
    <2>. QED  BY <1>a, <1>b, <1>5, <2>1 DEF ForkUpdate, Fork, ThreadsOK
  <1>6. ASSUME NEW n \in Timers, LeaveNetworkChange(n)
        PROVE  ThreadsOK' /\ OneNetworkChange'
    <2>1. OneNetworkChange' /\ inUpdate' = NetworkLocked'
      <3>1. timer[n].pc = "leave" /\ inUpdate' = FALSE /\ timer' = [timer EXCEPT ![n].pc = "done"]
        BY <1>6 DEF LeaveNetworkChange
      <3>2. timer'[n].pc = "done" /\ \A m \in Timers \ {n} : timer'[m] = timer[m]
        BY <1>a, <3>1
      <3>. QED  BY <3>1, <3>2 DEF NetworkLocked, OneNetworkChange
    <2>. QED  BY <1>a, <1>b, <1>6, <2>1 DEF LeaveNetworkChange, ThreadsOK
  <1>7. ASSUME NEW u \in Users, UserReassign(u) \/ UserPush(u) \/ UserStep(u)
        PROVE  ThreadsOK' /\ OneNetworkChange'
    <2>1. UNCHANGED <<inUpdate, timer, asyncore>>
      BY <1>7 DEF UserReassign, UserStep, UserNotify, UserCompile, UserFork, UserPush, UserPushed
    <2>2. compiled' \in {compiled, Current} /\ forked' \in {forked, user[u].code}
      BY <1>7 DEF UserReassign, UserStep, UserNotify, UserCompile,
         UserFork, UserPush, UserPushed, Compile, Fork, Current
    <2>4. ignored' \in BOOLEAN
      BY <1>7 DEF UserReassign, UserStep, UserNotify, UserCompile,
         UserFork, UserPush, UserPushed, Compile, ThreadsOK
    <2>3. user' \in [Users -> [pc : {"idle", "notify", "compile", "fork", "push"}, code : Codes']]
      <3>1. CASE UserCompile(u)
        BY <1>1, <1>a, <3>1, <2>2 DEF UserCompile
      <3>2. ASSUME NEW pc \in {"idle", "notify", "compile", "push"},
                   user' = [user EXCEPT ![u].pc = pc]
            PROVE  user' \in [Users -> [pc : {"idle", "notify", "compile", "fork", "push"},
                                        code : Codes']]
        BY <1>a, <3>2
      <3>3. CASE UserReassign(u)
        BY <3>2, <3>3 DEF UserReassign
      <3>4. CASE UserNotify(u)
        BY <3>2, <3>4 DEF UserNotify
      <3>5. CASE UserFork(u)
        BY <3>2, <3>5 DEF UserFork
      <3>6. CASE UserPush(u) \/ UserPushed(u)
        BY <3>2, <3>6 DEF UserPush, UserPushed
      <3>. QED  BY <1>7, <3>1, <3>3, <3>4, <3>5, <3>6 DEF UserStep
    <2>5. topoNo' = topoNo
      BY <1>7 DEF UserReassign, UserStep, UserNotify, UserCompile, UserFork, UserPush, UserPushed
    <2>. QED  BY <1>1, <1>a, <1>b, <1>c, <2>1, <2>2, <2>3, <2>4, <2>5 DEF ThreadsOK
  <1>8. CASE Read \/ Callback \/ AsyncoreStep
    <2>1. UNCHANGED <<inUpdate, timer, user>>
      BY <1>8 DEF Read, Callback, AsyncoreStep, Dispatch, Evaluate, NotifyChange,
         ForkChange, Applied, LockChannel, SendOutput
    <2>2. compiled' \in {compiled, Current} /\ forked' \in {forked, asyncore.code}
      BY <1>8 DEF Read, Callback, AsyncoreStep, Dispatch, Evaluate,
         NotifyChange, ForkChange, Applied, LockChannel, SendOutput, Compile, Fork, Current
    <2>4. ignored' \in BOOLEAN
      BY <1>8 DEF Read, Callback, AsyncoreStep, Dispatch, Evaluate,
         NotifyChange, ForkChange, Applied, LockChannel, SendOutput, Compile, ThreadsOK
    <2>3. asyncore' \in [pc : {"idle", "read", "packet", "apply", "notify", "fork", "send",
                            "push"},
                         code : Codes']
      <3>1. CASE NotifyChange
        <4>1. compiled' \in Codes'
          BY <1>1, <1>a, <2>2
        <4>2. asyncore' \in {[asyncore EXCEPT !.pc = "apply"],
                            [asyncore EXCEPT !.pc = "fork", !.code = compiled']}
          BY <3>1 DEF NotifyChange
        <4>. QED  BY <1>b, <4>1, <4>2
      <3>2. CASE \E b \in BOOLEAN : Evaluate(b)
        BY <1>1, <3>2 DEF Evaluate
      <3>. QED  BY <1>b, <1>8, <3>1, <3>2 DEF Read, Callback, AsyncoreStep,
                   Dispatch, ForkChange, Applied, LockChannel, SendOutput
    <2>5. topoNo' = topoNo
      BY <1>8 DEF Read, Callback, AsyncoreStep, Dispatch, Evaluate, NotifyChange,
         ForkChange, Applied, LockChannel, SendOutput
    <2>. QED  BY <1>1, <1>a, <1>c, <2>1, <2>2, <2>3, <2>4, <2>5 DEF ThreadsOK
  <1>9. CASE ProcessStep
    BY <1>a, <1>b, <1>c, <1>9
    DEF ProcessStep, BeginInstall, ClearAll, EndInstall, Process, ThreadsOK, threads
  <1>10. CASE UNCHANGED vars
    BY <1>a, <1>b, <1>c, <1>10 DEF vars, threads, ThreadsOK
  <1>. QED  BY <1>2, <1>3, <1>4, <1>5, <1>6, <1>7, <1>8, <1>9, <1>10
            DEF Next, TimerStep

\* The tables keep their types and switch_lock its one holder.
LEMMA TablesStep ==
    ASSUME TypeInv, [Next]_vars
    PROVE  TablesOK'
  <1>. USE DEF TypeInv, TypeOK
  <1>1. /\ Codes \subseteq Codes' /\ Processes \subseteq Processes'
        /\ 0..topoNo \subseteq 0..topoNo'
    BY CountersStep, CodesGrow
  <1>2. CASE UNCHANGED tables
    BY <1>1, <1>2 DEF tables, TablesOK
  <1>3. ASSUME NEW code \in Codes, Fork(code), UNCHANGED topoNo,
               UNCHANGED policyNo
        PROVE  TablesOK'
    <2>1. [no |-> forks + 1, code |-> code, net |-> topoNo,
           stuck |-> ChannelLocked] \in Processes'
      <3>1. ChannelLocked \in BOOLEAN
        BY DEF ChannelLocked
      <3>2. forks + 1 \in 1..forks' /\ topoNo \in 0..topoNo'
        BY <1>3 DEF Fork, CountersOK
      <3>. QED  BY <1>1, <3>1, <3>2 DEF Processes
    <2>. QED  BY <1>1, <1>3, <2>1 DEF Fork, TablesOK
  <1>4. ASSUME NEW n \in Timers, ForkUpdate(n)
        PROVE  TablesOK'
    BY <1>3, <1>4 DEF ForkUpdate, ThreadsOK
  <1>5. ASSUME NEW u \in Users, UserFork(u)
        PROVE  TablesOK'
    BY <1>3, <1>5 DEF UserFork, ThreadsOK
  <1>6. CASE ForkChange
    BY <1>3, <1>6 DEF ForkChange, ThreadsOK
  <1>7. CASE SendOutput
    <2>1. [code |-> asyncore.code, late |-> asyncore.code # Latest]
            \in [code : Codes, late : BOOLEAN]
      BY DEF ThreadsOK
    <2>2. microflows' \subseteq [code : Codes', late : BOOLEAN]
      BY <1>1, <1>7, <2>1 DEF SendOutput, TablesOK
    <2>. QED  BY <1>1, <1>7, <2>2 DEF SendOutput, TablesOK
  <1>8. CASE ProcessStep
    <2>1. ASSUME NEW p \in waiting, BeginInstall(p)
          PROVE  TablesOK'
      BY <1>1, <2>1 DEF BeginInstall, TablesOK, Process
    <2>2. ASSUME NEW p \in waiting, ClearAll(p)
          PROVE  TablesOK'
      BY <1>1, <2>2 DEF ClearAll, TablesOK, Process
    <2>3. ASSUME NEW p \in installing, EndInstall(p)
          PROVE  TablesOK'
      <3>1. p.code \in Codes /\ p.net \in 0..topoNo
        BY DEF TablesOK, Processes
      <3>. QED  BY <1>1, <2>3, <3>1 DEF EndInstall, TablesOK, Process
    <2>. QED  BY <1>8, <2>1, <2>2, <2>3 DEF ProcessStep
  <1>9. \/ UNCHANGED tables \/ ForkChange \/ SendOutput \/ ProcessStep
        \/ (\E n \in Timers : ForkUpdate(n)) \/ (\E u \in Users : UserFork(u))
    BY DEF Next, vars, AssignTopology, TimerStep, EnterNetworkChange, Recompile,
           LeaveNetworkChange, UserReassign, UserStep, UserNotify, UserCompile,
           Read, Callback, AsyncoreStep, Dispatch, Evaluate, NotifyChange, Applied,
           LockChannel, UserPush, UserPushed
  <1>. QED  BY <1>2, <1>4, <1>5, <1>6, <1>7, <1>8, <1>9

\* Types, and what goes with them: in_update_network is TRUE exactly inside
\* network_lock, and one process at a time writes the tables.
THEOREM TypeCorrect == Spec => []TypeOK
  <1>1. TypeInv /\ [Next]_vars => TypeInv'
    BY CountersStep, ThreadsStep, TablesStep DEF TypeInv, TypeOK
  <1>2. TypeInv => TypeOK
    BY DEF TypeInv
  <1>. QED  BY TypeInit, <1>1, <1>2, PTL DEF Spec

\* However the threads overlap, what is not compiled yet is on its way, or
\* handle_policy_change has returned at once.
THEOREM CompiledInvariance == Spec => []CompiledInv
  <1>1. Init => CompiledInv
    BY DEF Init, CompiledInv, Start
  <1>2. ASSUME TypeOK, CompiledInv, [Next]_vars
        PROVE  CompiledInv'
    <2>. USE DEF CompiledInv
    <2>0. CountersOK /\ ThreadsOK
      BY <1>2 DEF TypeOK
    <2>1. CASE AssignTopology
      <3>1. topoNo + 1 \in Timers
        BY <2>0, <2>1, BoundsAssumption DEF AssignTopology, CountersOK, Timers
      <3>2. timer'[topoNo + 1].pc = "start"
        BY <2>0, <2>1, <3>1 DEF AssignTopology, ThreadsOK
      <3>. QED  BY <1>2, <2>1, <3>1, <3>2 DEF AssignTopology
    <2>2. ASSUME NEW n \in Timers, EnterNetworkChange(n) PROVE CompiledInv'
      <3>1. timer' = [timer EXCEPT ![n].pc = "set"] /\ timer[n].pc = "start"
        BY <2>2 DEF EnterNetworkChange
      <3>2. \A m \in Timers : timer[m].pc \in {"start", "set"} => timer'[m].pc \in {"start", "set"}
        BY <2>0, <3>1 DEF ThreadsOK
      <3>. QED  BY <1>2, <2>2, <3>2 DEF EnterNetworkChange
    <2>3. ASSUME NEW n \in Timers, Recompile(n) PROVE CompiledInv'
      BY <1>2, <2>3 DEF Recompile, Compile
    <2>4. ASSUME NEW n \in Timers, ForkUpdate(n) \/ LeaveNetworkChange(n) PROVE CompiledInv'
      <3>1. timer[n].pc \notin {"start", "set"}
        BY <2>4 DEF ForkUpdate, LeaveNetworkChange
      <3>2. \A m \in Timers : timer[m].pc \in {"start", "set"} => timer'[m] = timer[m]
        BY <2>0, <2>4, <3>1 DEF ForkUpdate, LeaveNetworkChange, ThreadsOK
      <3>. QED  BY <1>2, <2>4, <3>2 DEF ForkUpdate, LeaveNetworkChange
    <2>5. ASSUME NEW u \in Users, UserReassign(u) PROVE CompiledInv'
      <3>1. user'[u].pc = "notify"
        BY <2>0, <2>5 DEF UserReassign, ThreadsOK
      <3>. QED  BY <1>2, <2>5, <3>1 DEF UserReassign
    <2>6. ASSUME NEW u \in Users, UserNotify(u) PROVE CompiledInv'
      <3>1. CASE inUpdate
        BY <1>2, <2>6, <3>1 DEF UserNotify
      <3>2. CASE ~inUpdate
        <4>1. \A v \in Users : user[v].pc \in {"notify", "compile"}
                                => user'[v].pc \in {"notify", "compile"}
          BY <2>0, <2>6, <3>2 DEF UserNotify, ThreadsOK
        <4>2. UNCHANGED <<policyNo, topoNo, seenNo, asyncore, timer, compiled, ignored>>
          BY <2>6, <3>2 DEF UserNotify
        <4>. QED  BY <1>2, <4>1, <4>2
      <3>. QED  BY <3>1, <3>2
    <2>7. ASSUME NEW u \in Users, UserCompile(u) PROVE CompiledInv'
      BY <1>2, <2>7 DEF UserCompile, Compile
    <2>8. ASSUME NEW u \in Users, UserFork(u) PROVE CompiledInv'
      <3>1. \A v \in Users : user[v].pc \in {"notify", "compile"} => user'[v] = user[v]
        BY <2>0, <2>8 DEF UserFork, ThreadsOK
      <3>. QED  BY <1>2, <2>8, <3>1 DEF UserFork
    <2>15. ASSUME NEW u \in Users, UserPush(u) \/ UserPushed(u) PROVE CompiledInv'
      <3>1. \A v \in Users : user[v].pc \in {"notify", "compile"} => user'[v] = user[v]
        BY <2>0, <2>15 DEF UserPush, UserPushed, ThreadsOK
      <3>2. UNCHANGED <<policyNo, topoNo, seenNo, asyncore, timer, compiled, ignored>>
        BY <2>15 DEF UserPush, UserPushed
      <3>. QED  BY <1>2, <3>1, <3>2
    <2>9. CASE Callback
      BY <1>2, <2>0, <2>9 DEF Callback, ThreadsOK
    <2>10. CASE NotifyChange
      BY <1>2, <2>10 DEF NotifyChange, Compile
    <2>11. CASE Read \/ Dispatch \/ ForkChange \/ Applied \/ LockChannel \/ SendOutput
      BY <1>2, <2>11 DEF Read, Dispatch, ForkChange, Applied, LockChannel, SendOutput
    <2>12. ASSUME NEW b \in BOOLEAN, Evaluate(b) PROVE CompiledInv'
      BY <1>2, <2>12 DEF Evaluate
    <2>13. CASE ProcessStep
      BY <1>2, <2>13 DEF ProcessStep, BeginInstall, ClearAll, EndInstall, Process, threads
    <2>14. CASE UNCHANGED vars
      BY <1>2, <2>14 DEF vars, threads
    <2>. QED  BY <1>2, <2>1, <2>2, <2>3, <2>4, <2>5, <2>6, <2>7, <2>8, <2>9, <2>10,
                 <2>11, <2>12, <2>13, <2>14, <2>15
              DEF Next, TimerStep, UserStep, AsyncoreStep
  <1>. QED  BY <1>1, <1>2, TypeCorrect, PTL DEF Spec

\* The latest policy and topology are compiled unless handle_policy_change
\* returned at once, with threads of the program that reassign policies
\* outside policy_lock and without.
THEOREM Compiled == Spec => []CompiledUnlessIgnored
  <1>1. TypeOK /\ CompiledInv => CompiledUnlessIgnored
    <2>. SUFFICES ASSUME TypeOK, CompiledInv, AllIdle, ~ignored
                  PROVE  compiled = Latest
      BY DEF CompiledUnlessIgnored
    <2>1. compiled.policy = policyNo /\ compiled.topo = topoNo
      BY DEF CompiledInv, AllIdle
    <2>2. compiled \in [policy : 0..policyNo, topo : 0..topoNo]
      BY DEF TypeOK, ThreadsOK, Codes
    <2>. QED  BY <2>1, <2>2 DEF Latest
  <1>. QED  BY <1>1, CompiledInvariance, TypeCorrect, PTL

\* If only callbacks of packets reassign policies, compiling and forking are
\* one piece: policy_lock is held from the one to the other.
THEOREM ForkedInvariance ==
    ASSUME Users = {}
    PROVE  Spec => []ForkedInv
  <1>1. Init => ForkedInv
    BY DEF Init, ForkedInv
  <1>2. ASSUME TypeOK, ForkedInv, [Next]_vars
        PROVE  ForkedInv'
    <2>. USE DEF ForkedInv
    <2>0. ThreadsOK /\ CountersOK
      BY <1>2 DEF TypeOK
    <2>1. ASSUME UNCHANGED <<compiled, forked, asyncore>>,
                 NEW n \in Timers, timer[n].pc # "fork",
                 NEW pc \in {"start", "set", "done"},
                 timer' = [timer EXCEPT ![n].pc = pc]
          PROVE  ForkedInv'
      <3>1. \A m \in Timers : (timer[m].pc = "fork" <=> timer'[m].pc = "fork")
                              /\ timer'[m].code = timer[m].code
        BY <2>0, <2>1 DEF ThreadsOK
      <3>. QED  BY <1>2, <2>1, <3>1
    <2>2. CASE AssignTopology
      <3>1. topoNo + 1 \in Timers /\ timer[topoNo + 1].pc = "none"
        BY <2>0, <2>2, BoundsAssumption DEF AssignTopology, CountersOK, Timers, ThreadsOK
      <3>. QED  BY <2>1, <2>2, <3>1 DEF AssignTopology
    <2>3. ASSUME NEW n \in Timers, EnterNetworkChange(n) \/ LeaveNetworkChange(n)
          PROVE  ForkedInv'
      BY <2>1, <2>3 DEF EnterNetworkChange, LeaveNetworkChange
    <2>4. ASSUME NEW n \in Timers, Recompile(n) PROVE ForkedInv'
      <3>1. /\ timer' = [timer EXCEPT ![n] = [pc |-> "fork", code |-> compiled']]
            /\ UNCHANGED <<asyncore, forked>> /\ ~PolicyLocked
        BY <2>4 DEF Recompile
      <3>2. /\ timer'[n] = [pc |-> "fork", code |-> compiled']
            /\ \A m \in Timers \ {n} : timer'[m] = timer[m]
        BY <2>0, <3>1 DEF ThreadsOK
      <3>. QED  BY <3>1, <3>2 DEF PolicyLocked
    <2>5. ASSUME NEW n \in Timers, ForkUpdate(n) PROVE ForkedInv'
      <3>1. /\ timer' = [timer EXCEPT ![n].pc = "leave"]
            /\ UNCHANGED <<asyncore, compiled>> /\ forked' = timer[n].code
            /\ timer[n].pc = "fork"
        BY <2>5 DEF ForkUpdate, Fork
      <3>2. timer'[n].pc = "leave" /\ \A m \in Timers \ {n} : timer'[m] = timer[m]
        BY <2>0, <3>1 DEF ThreadsOK
      <3>. QED  BY <1>2, <3>1, <3>2
    <2>6. CASE NotifyChange
      <3>1. asyncore.pc = "notify" /\ UNCHANGED <<timer, forked>>
        BY <2>6 DEF NotifyChange
      <3>2. CASE inUpdate
        BY <1>2, <2>0, <2>6, <3>1, <3>2 DEF NotifyChange, ThreadsOK
      <3>3. CASE ~inUpdate
        BY <1>2, <2>0, <2>6, <3>1, <3>3 DEF NotifyChange, ThreadsOK
      <3>. QED  BY <3>2, <3>3
    <2>7. CASE ForkChange
      BY <1>2, <2>0, <2>7 DEF ForkChange, Fork, ThreadsOK
    <2>8. CASE Read \/ Dispatch \/ Callback \/ Applied \/ LockChannel \/ SendOutput
      BY <1>2, <2>0, <2>8 DEF Read, Dispatch, Callback, Applied, LockChannel, SendOutput, ThreadsOK
    <2>9. ASSUME NEW b \in BOOLEAN, Evaluate(b) PROVE ForkedInv'
      BY <1>2, <2>9 DEF Evaluate, PolicyLocked
    <2>10. CASE ProcessStep
      BY <1>2, <2>10 DEF ProcessStep, BeginInstall, ClearAll, EndInstall, Process, threads
    <2>11. CASE UNCHANGED vars
      BY <1>2, <2>11 DEF vars, threads
    <2>. QED  BY <1>2, <2>2, <2>3, <2>4, <2>5, <2>6, <2>7, <2>8, <2>9, <2>10, <2>11
              DEF Next, TimerStep, AsyncoreStep
  <1>. QED  BY <1>1, <1>2, TypeCorrect, PTL DEF Spec

\* Then the latest policy and topology are handed to a process, too.
THEOREM Forked ==
    ASSUME Users = {}
    PROVE  Spec => []ForkedUnlessIgnored
  <1>1. CompiledUnlessIgnored /\ ForkedInv => ForkedUnlessIgnored
    BY DEF CompiledUnlessIgnored, ForkedInv, ForkedUnlessIgnored, AllIdle
  <1>. QED  BY <1>1, Compiled, ForkedInvariance, PTL

-----------------------------------------------------------------------------
(* Reactive mode.  A microflow that is out of date is cleared: a process that
   clears is waiting, or the thread that made the change has yet to fork it. *)
ClearDue ==
    \/ ignored
    \/ waiting # {}
    \/ asyncore.pc \in {"notify", "fork"}
    \/ \E n \in Timers : timer[n].pc \in {"start", "set", "fork"}
    \/ \E u \in Users : user[u].pc \in {"notify", "compile", "fork"}

MicroflowsInv ==
    /\ Mode = "proactive0" => microflows = {}
    /\ \A f \in microflows : f.late \/ f.code = Latest \/ ClearDue

\* Who forks has made a clear due.
LEMMA ForkClears ==
    ASSUME NEW code, Fork(code)
    PROVE  waiting' # {} /\ microflows' = microflows
BY DEF Fork

\* A clear that is due is forked before it is forgotten.
LEMMA ClearStaysDue ==
    ASSUME ThreadsOK, CountersOK, Next, ~ProcessStep, ClearDue
    PROVE  ClearDue'
<1> USE DEF ClearDue, ThreadsOK
<1>1. CASE AssignTopology
  <2>1. topoNo + 1 \in Timers
    BY <1>1, BoundsAssumption DEF AssignTopology, CountersOK, Timers
  <2>2. timer'[topoNo + 1].pc = "start"
    BY <1>1, <2>1 DEF AssignTopology
  <2> QED
    BY <2>1, <2>2
<1>2. ASSUME NEW n \in Timers, EnterNetworkChange(n) PROVE ClearDue'
  <2>1. timer'[n].pc = "set"
    BY <1>2 DEF EnterNetworkChange
  <2> QED
    BY <2>1
<1>3. ASSUME NEW n \in Timers, Recompile(n) PROVE ClearDue'
  <2>1. timer'[n].pc = "fork"
    BY <1>3 DEF Recompile
  <2> QED
    BY <2>1
<1>4. ASSUME NEW n \in Timers, ForkUpdate(n) PROVE ClearDue'
  <2>1. waiting' # {}
    BY <1>4, ForkClears DEF ForkUpdate
  <2> QED
    BY <2>1
<1>5. ASSUME NEW n \in Timers, LeaveNetworkChange(n) PROVE ClearDue'
  <2>1. \A m \in Timers : timer[m].pc \in {"start", "set", "fork"} => timer'[m] = timer[m]
    BY <1>5 DEF LeaveNetworkChange
  <2>2. UNCHANGED <<ignored, waiting, asyncore, user>>
    BY <1>5 DEF LeaveNetworkChange, tables
  <2> QED
    BY <2>1, <2>2
<1>6. ASSUME NEW u \in Users, UserReassign(u) PROVE ClearDue'
  <2>1. user'[u].pc = "notify"
    BY <1>6 DEF UserReassign
  <2> QED
    BY <2>1
<1>7. ASSUME NEW u \in Users, UserNotify(u) PROVE ClearDue'
  <2>1. ignored' \/ user'[u].pc = "compile"
    BY <1>7 DEF UserNotify
  <2> QED
    BY <2>1
<1>8. ASSUME NEW u \in Users, UserCompile(u) PROVE ClearDue'
  <2>1. user'[u].pc = "fork"
    BY <1>8 DEF UserCompile
  <2> QED
    BY <2>1
<1>9. ASSUME NEW u \in Users, UserFork(u) PROVE ClearDue'
  <2>1. waiting' # {}
    BY <1>9, ForkClears DEF UserFork
  <2> QED
    BY <2>1
<1>13. ASSUME NEW u \in Users, UserPush(u) \/ UserPushed(u) PROVE ClearDue'
  <2>1. \A v \in Users : user[v].pc \in {"notify", "compile", "fork"} => user'[v] = user[v]
    BY <1>13 DEF UserPush, UserPushed
  <2>2. UNCHANGED <<ignored, waiting, asyncore, timer>>
    BY <1>13 DEF UserPush, UserPushed, tables
  <2> QED
    BY <2>1, <2>2
<1>10. CASE NotifyChange
  <2>1. ignored' \/ asyncore'.pc = "fork"
    BY <1>10 DEF NotifyChange
  <2> QED
    BY <2>1
<1>11. CASE ForkChange
  <2>1. waiting' # {}
    BY <1>11, ForkClears DEF ForkChange
  <2> QED
    BY <2>1
<1>12. CASE Read \/ Callback \/ Dispatch \/ (\E b \in BOOLEAN : Evaluate(b)) \/ Applied
            \/ LockChannel \/ SendOutput
  <2>1. asyncore.pc \notin {"notify", "fork"} /\ UNCHANGED <<ignored, waiting, timer, user>>
    BY <1>12 DEF Read, Callback, Dispatch, Evaluate, Applied, LockChannel, SendOutput, tables
  <2> QED
    BY <2>1
<1> QED
  BY <1>1, <1>2, <1>3, <1>4, <1>5, <1>6, <1>7, <1>8, <1>9, <1>10, <1>11, <1>12,
     <1>13 DEF Next, TimerStep, UserStep, AsyncoreStep

\* Whoever replaces a policy or the topology makes a clear due.
LEMMA ChangesAreCleared ==
    ASSUME ThreadsOK, CountersOK, Next, Latest' # Latest
    PROVE  ClearDue'
<1> USE DEF ClearDue, ThreadsOK
<1>1. CASE AssignTopology
  <2>1. topoNo + 1 \in Timers
    BY <1>1, BoundsAssumption DEF AssignTopology, CountersOK, Timers
  <2>2. timer'[topoNo + 1].pc = "start"
    BY <1>1, <2>1 DEF AssignTopology
  <2> QED
    BY <2>1, <2>2
<1>2. ASSUME NEW u \in Users, UserReassign(u) PROVE ClearDue'
  <2>1. user'[u].pc = "notify"
    BY <1>2 DEF UserReassign
  <2> QED
    BY <2>1
<1>3. CASE Callback
  <2>1. asyncore'.pc = "notify"
    BY <1>3 DEF Callback
  <2> QED
    BY <2>1
<1>4. UNCHANGED <<policyNo, topoNo>> => Latest' = Latest
  BY DEF Latest
<1>5. CASE \E n \in Timers : TimerStep(n)
  BY <1>4, <1>5
     DEF TimerStep, EnterNetworkChange, Recompile, ForkUpdate, LeaveNetworkChange
<1>6. CASE \E u \in Users : UserPush(u) \/ UserStep(u)
  BY <1>4, <1>6 DEF UserPush, UserStep, UserNotify, UserCompile, UserFork, UserPushed
<1>7. CASE Read \/ AsyncoreStep \/ ProcessStep
  BY <1>4, <1>7
     DEF Read, AsyncoreStep, Dispatch, Evaluate, NotifyChange, ForkChange, Applied, LockChannel, SendOutput,
         ProcessStep, BeginInstall, ClearAll, EndInstall, Process
<1> QED
  BY <1>1, <1>2, <1>3, <1>5, <1>6, <1>7 DEF Next

\* Microflows come from the packet handler, and go all at once.
LEMMA MicroflowsMove ==
    ASSUME Next
    PROVE  \/ microflows' = microflows
           \/ microflows' = {}
           \/ SendOutput
<1>1. CASE AssignTopology \/ Read \/ Callback
  BY <1>1 DEF AssignTopology, Read, Callback, tables
<1>2. CASE \E n \in Timers : TimerStep(n)
  BY <1>2, ForkClears
     DEF TimerStep, EnterNetworkChange, Recompile, ForkUpdate, LeaveNetworkChange, tables
<1>3. CASE \E u \in Users : UserReassign(u) \/ UserPush(u) \/ UserStep(u)
  BY <1>3, ForkClears DEF UserStep, UserReassign, UserNotify, UserCompile, UserFork, UserPush,
                              UserPushed, tables
<1>4. CASE AsyncoreStep
  BY <1>4, ForkClears
     DEF AsyncoreStep, Dispatch, Evaluate, NotifyChange, ForkChange, Applied, LockChannel, tables
<1>5. CASE ProcessStep
  BY <1>5 DEF ProcessStep, BeginInstall, ClearAll, EndInstall
<1> QED
  BY <1>1, <1>2, <1>3, <1>4, <1>5 DEF Next

LEMMA MicroflowsNext ==
    ASSUME TypeOK, MicroflowsInv, [Next]_vars
    PROVE  MicroflowsInv'
<1> USE DEF MicroflowsInv
<1>1. ThreadsOK /\ CountersOK
  BY DEF TypeOK
<1>2. CASE UNCHANGED vars
  BY <1>2 DEF vars, threads, tables, ClearDue, Latest
<1>3. CASE Next /\ microflows' = {}
  BY <1>3
<1>4. CASE ProcessStep /\ microflows' # {}
  <2>1. ASSUME NEW p \in waiting, BeginInstall(p)
        PROVE  MicroflowsInv'
    <3>1. microflows' = microflows /\ Mode = "proactive0"
      BY <2>1 DEF BeginInstall
    <3> QED
      BY <3>1
  <2>2. ASSUME NEW p \in installing, EndInstall(p)
        PROVE  MicroflowsInv'
    <3>1. UNCHANGED <<microflows, waiting>> /\ Process
      BY <2>2 DEF EndInstall
    <3>2. (ClearDue => ClearDue') /\ Latest' = Latest
      BY <3>1 DEF Process, threads, ClearDue, Latest
    <3> QED
      BY <3>1, <3>2
  <2> QED
    BY <1>4, <2>1, <2>2 DEF ProcessStep, ClearAll
<1>5. CASE Next /\ ~ProcessStep /\ microflows' = microflows
  BY <1>1, <1>5, ClearStaysDue, ChangesAreCleared
<1>6. CASE SendOutput /\ microflows' # microflows
  <2>1. /\ Mode = "reactive0"
        /\ microflows' = microflows \cup
                {[code |-> asyncore.code, late |-> asyncore.code # Latest]}
    BY <1>6 DEF SendOutput
  <2>2. Latest' = Latest
    BY <1>6 DEF SendOutput, Latest
  <2>3. ClearDue => ClearDue'
    BY <1>1, <1>6 DEF SendOutput, ClearDue
  <2> DEFINE new == [code |-> asyncore.code, late |-> asyncore.code # Latest]
  <2>4. new.late \/ new.code = Latest'
    BY <2>2
  <2> HIDE DEF new
  <2>5. \A f \in microflows' : f \in microflows \/ f = new
    BY <2>1 DEF new
  <2>6. \A f \in microflows' : f.late \/ f.code = Latest' \/ ClearDue'
    BY <2>2, <2>3, <2>4, <2>5
  <2> QED
    BY <2>1, <2>6
<1> QED
  BY <1>2, <1>3, <1>4, <1>5, <1>6, MicroflowsMove

\* In reactive mode, once every table is cleared that had to be, no microflow
\* is of an older policy or topology, unless it was out of date already when it
\* was installed; whoever changes them, and however the clears overlap.
THEOREM MicroflowsStayCurrent == Spec => []MicroflowsCurrent
<1>1. Init => MicroflowsInv
  BY DEF Init, MicroflowsInv
<1>2. MicroflowsInv => MicroflowsCurrent
  BY DEF MicroflowsInv, MicroflowsCurrent, ClearDue, AllIdle
<1>3. TypeOK /\ MicroflowsInv /\ [Next]_vars => MicroflowsInv'
  BY MicroflowsNext
<1> QED
  BY <1>1, <1>2, <1>3, TypeCorrect, PTL DEF Spec
=============================================================================
