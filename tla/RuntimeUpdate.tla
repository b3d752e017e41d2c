--------------------------- MODULE RuntimeUpdate ---------------------------
(***************************************************************************)
(* How a change reaches the switches: the dynamics of class Runtime in     *)
(* core/runtime.py (handle_policy_change, handle_network_change,           *)
(* handle_packet_in and the processes of install_classifier and clear_all).*)
(*                                                                         *)
(* A policy is reassigned by a callback of a query, inside policy_lock on  *)
(* the asyncore thread, or by a thread of the program (a command line);    *)
(* the topology is assigned by a timer of ConcreteNetwork.  Each of them   *)
(* recompiles and forks a process, and the processes write the tables.     *)
(*                                                                         *)
(* The policy and the topology are abstracted to numbers: how many times   *)
(* each has been replaced.  A classifier is the pair it was compiled from. *)
(* The tables of all switches are one: they are written in the same order. *)
(***************************************************************************)
EXTENDS Naturals

CONSTANTS
    Mode,           \* "proactive0", which stands for "proactive1", or "reactive0"
    Users,          \* threads of the program that reassign policies or send messages
    FifoLock,       \* TRUE: processes get switch_lock in the order of their forks
    MaxChanges,     \* bound: reassignments of a policy
    MaxTopos,       \* bound: topologies assigned
    MaxPackets      \* bound: packets handled

ASSUME ModeAssumption == Mode \in {"proactive0", "reactive0"}
ASSUME SchedulingAssumption == FifoLock \in BOOLEAN
ASSUME BoundsAssumption ==
    MaxChanges \in Nat /\ MaxTopos \in Nat /\ MaxPackets \in Nat

Timers == 1..MaxTopos       \* each topology is assigned by its own timer thread

VARIABLES
    policyNo,       \* the policy, with the changes of its dynamic sub-policies
    topoNo,         \* network.topology
    seenNo,         \* the topology the sub-policies were last handed
    inUpdate,       \* in_update_network
    asyncore, timer, user,      \* the threads: where they are, what they compiled
    waiting,        \* processes forked that do not have switch_lock
    installing,     \* the process with switch_lock, in a set
    installed,      \* what the tables hold
    microflows,     \* reactive0: what microflows were evaluated with, and
                    \* whether it was out of date when they were installed
    forks, packets, \* counters
    \* history: the last state compiled, the last handed to a process, and
    \* whether handle_policy_change returned at once since the last compilation
    compiled, forked, ignored

threads == <<asyncore, timer, user>>
tables == <<waiting, installing, installed, microflows, forks>>
vars == <<policyNo, topoNo, seenNo, inUpdate, threads, tables, packets,
          compiled, forked, ignored>>

Current == [policy |-> policyNo, topo |-> seenNo]
Latest == [policy |-> policyNo, topo |-> topoNo]
Start == [policy |-> 0, topo |-> 0]

\* Mutant: the queries are applied after policy_lock was released.
PolicyLockedBriefly == \E n \in Timers : timer[n].pc = "fork"

PolicyLocked ==
    asyncore.pc \in {"apply", "notify", "fork"} \/ \E n \in Timers : timer[n].pc = "fork"
NetworkLocked == \E n \in Timers : timer[n].pc \in {"set", "fork", "leave"}
ChannelLocked ==
    asyncore.pc \in {"read", "push"} \/ \E u \in Users : user[u].pc = "push"

Init ==
    /\ policyNo = 0 /\ topoNo = 0 /\ seenNo = 0
    /\ inUpdate = FALSE
    /\ asyncore = [pc |-> "idle", code |-> Start]
    /\ timer = [n \in Timers |-> [pc |-> "none", code |-> Start]]
    /\ user = [u \in Users |-> [pc |-> "idle", code |-> Start]]
    /\ waiting = {} /\ installing = {}
    /\ installed = [code |-> Start, net |-> 0]
    /\ microflows = {}
    /\ forks = 0 /\ packets = 0
    /\ compiled = Start /\ forked = Start /\ ignored = FALSE

----------------------------------------------------------------------------
(* What several threads do.                                                *)

\* update_dynamic_sub_pols and compile, inside policy_lock.
Compile(topo) ==
    /\ compiled' = [policy |-> policyNo, topo |-> topo]
    /\ ignored' = FALSE

Reassign ==
    /\ policyNo < MaxChanges
    /\ policyNo' = policyNo + 1

\* The process inherits the classifier, the topology, and the state of
\* channel_lock: if another thread holds it at the fork, nobody ever releases
\* the copy of the child.
Fork(code) ==
    /\ forks' = forks + 1
    /\ waiting' = waiting \cup
            {[no |-> forks + 1, code |-> code, net |-> topoNo,
              stuck |-> ChannelLocked]}
    /\ forked' = code
    /\ UNCHANGED <<installing, installed, microflows>>

----------------------------------------------------------------------------
(* handle_network_change, on a timer thread.                               *)

\* queue_update's f, up to the call.
AssignTopology ==
    /\ topoNo < MaxTopos
    /\ topoNo' = topoNo + 1
    /\ timer' = [timer EXCEPT ![topoNo'].pc = "start"]
    /\ UNCHANGED <<policyNo, seenNo, inUpdate, asyncore, user, tables, packets,
                   compiled, forked, ignored>>

EnterNetworkChange(n) ==
    /\ timer[n].pc = "start"
    /\ ~NetworkLocked
    /\ inUpdate' = TRUE
    /\ timer' = [timer EXCEPT ![n].pc = "set"]
    /\ UNCHANGED <<policyNo, topoNo, seenNo, asyncore, user, tables, packets,
                   compiled, forked, ignored>>

\* Mutant: the network is not handed to the sub-policies known so far.
RecompileUnset(n) ==
    /\ timer[n].pc = "set"
    /\ ~PolicyLocked
    /\ Compile(seenNo)
    /\ timer' = [timer EXCEPT ![n] = [pc |-> "fork", code |-> compiled']]
    /\ UNCHANGED <<policyNo, topoNo, seenNo, inUpdate, asyncore, user, tables,
                   packets, forked>>

\* A sub-policy that reassigns its policy in set_network calls
\* handle_policy_change, which returns because of in_update_network.
Recompile(n) ==
    /\ timer[n].pc = "set"
    /\ ~PolicyLocked
    /\ seenNo' = topoNo
    /\ Compile(topoNo)
    /\ timer' = [timer EXCEPT ![n] = [pc |-> "fork", code |-> compiled']]
    /\ UNCHANGED <<policyNo, topoNo, inUpdate, asyncore, user, tables, packets,
                   forked>>

\* Mutant: update_switches clears nothing in reactive mode.
ForkUpdateProactive(n) ==
    /\ timer[n].pc = "fork"
    /\ IF Mode = "proactive0" THEN Fork(timer[n].code)
       ELSE forked' = timer[n].code /\ UNCHANGED tables
    /\ timer' = [timer EXCEPT ![n].pc = "leave"]
    /\ UNCHANGED <<policyNo, topoNo, seenNo, inUpdate, asyncore, user, packets,
                   compiled, ignored>>

\* The last step inside policy_lock.
ForkUpdate(n) ==
    /\ timer[n].pc = "fork"
    /\ Fork(timer[n].code)
    /\ timer' = [timer EXCEPT ![n].pc = "leave"]
    /\ UNCHANGED <<policyNo, topoNo, seenNo, inUpdate, asyncore, user, packets,
                   compiled, ignored>>

LeaveNetworkChange(n) ==
    /\ timer[n].pc = "leave"
    /\ inUpdate' = FALSE
    /\ timer' = [timer EXCEPT ![n].pc = "done"]
    /\ UNCHANGED <<policyNo, topoNo, seenNo, asyncore, user, tables, packets,
                   compiled, forked, ignored>>

----------------------------------------------------------------------------
(* A thread of the program.  It holds no lock when it reassigns a policy,  *)
(* and handle_policy_change forks after it has released policy_lock.       *)

UserReassign(u) ==
    /\ user[u].pc = "idle"
    /\ Reassign
    /\ user' = [user EXCEPT ![u].pc = "notify"]
    /\ UNCHANGED <<topoNo, seenNo, inUpdate, asyncore, timer, tables, packets,
                   compiled, forked, ignored>>

UserNotify(u) ==
    /\ user[u].pc = "notify"
    /\ user' = [user EXCEPT ![u].pc = IF inUpdate THEN "idle" ELSE "compile"]
    /\ ignored' = IF inUpdate THEN TRUE ELSE ignored
    /\ UNCHANGED <<policyNo, topoNo, seenNo, inUpdate, asyncore, timer, tables,
                   packets, compiled, forked>>

UserCompile(u) ==
    /\ user[u].pc = "compile"
    /\ ~PolicyLocked
    /\ Compile(seenNo)
    /\ user' = [user EXCEPT ![u] = [pc |-> "fork", code |-> compiled']]
    /\ UNCHANGED <<policyNo, topoNo, seenNo, inUpdate, asyncore, timer, tables,
                   packets, forked>>

UserFork(u) ==
    /\ user[u].pc = "fork"
    /\ Fork(user[u].code)
    /\ user' = [user EXCEPT ![u].pc = "idle"]
    /\ UNCHANGED <<policyNo, topoNo, seenNo, inUpdate, asyncore, timer, packets,
                   compiled, ignored>>

----------------------------------------------------------------------------
(* send_to_OF_client, on a thread of the program that pulls statistics.     *)

UserPush(u) ==
    /\ user[u].pc = "idle"
    /\ ~ChannelLocked
    /\ user' = [user EXCEPT ![u].pc = "push"]
    /\ UNCHANGED <<policyNo, topoNo, seenNo, inUpdate, asyncore, timer, tables,
                   packets, compiled, forked, ignored>>

UserPushed(u) ==
    /\ user[u].pc = "push"
    /\ user' = [user EXCEPT ![u].pc = "idle"]
    /\ UNCHANGED <<policyNo, topoNo, seenNo, inUpdate, asyncore, timer, tables,
                   packets, compiled, forked, ignored>>

----------------------------------------------------------------------------
(* The asyncore thread: it reads a message inside channel_lock, handles a  *)
(* packet inside policy_lock and sends messages inside channel_lock.       *)

Read ==
    /\ asyncore.pc = "idle"
    /\ ~ChannelLocked
    /\ packets < MaxPackets
    /\ packets' = packets + 1
    /\ asyncore' = [asyncore EXCEPT !.pc = "read"]
    /\ UNCHANGED <<policyNo, topoNo, seenNo, inUpdate, timer, user, tables,
                   compiled, forked, ignored>>

Dispatch ==
    /\ asyncore.pc = "read"
    /\ asyncore' = [asyncore EXCEPT !.pc = "packet"]
    /\ UNCHANGED <<policyNo, topoNo, seenNo, inUpdate, timer, user, tables,
                   packets, compiled, forked, ignored>>

\* The packet is evaluated; it went into buckets, or into none.
Evaluate(intoBuckets) ==
    /\ asyncore.pc = "packet"
    /\ ~PolicyLocked
    /\ asyncore' = [pc |-> IF intoBuckets THEN "apply" ELSE "send", code |-> Current]
    /\ UNCHANGED <<policyNo, topoNo, seenNo, inUpdate, timer, user, tables,
                   packets, compiled, forked, ignored>>

\* A callback of a bucket reassigns a policy.
Callback ==
    /\ asyncore.pc = "apply"
    /\ Reassign
    /\ asyncore' = [asyncore EXCEPT !.pc = "notify"]
    /\ UNCHANGED <<topoNo, seenNo, inUpdate, timer, user, tables, packets,
                   compiled, forked, ignored>>

\* handle_policy_change inside policy_lock, which is reentrant.
NotifyChange ==
    /\ asyncore.pc = "notify"
    /\ IF inUpdate
       THEN /\ asyncore' = [asyncore EXCEPT !.pc = "apply"]
            /\ ignored' = TRUE
            /\ UNCHANGED compiled
       ELSE /\ Compile(seenNo)
            /\ asyncore' = [asyncore EXCEPT !.pc = "fork", !.code = compiled']
    /\ UNCHANGED <<policyNo, topoNo, seenNo, inUpdate, timer, user, tables,
                   packets, forked>>

ForkChange ==
    /\ asyncore.pc = "fork"
    /\ Fork(asyncore.code)
    /\ asyncore' = [asyncore EXCEPT !.pc = "apply"]
    /\ UNCHANGED <<policyNo, topoNo, seenNo, inUpdate, timer, user, packets,
                   compiled, ignored>>

Applied ==
    /\ asyncore.pc = "apply"
    /\ asyncore' = [asyncore EXCEPT !.pc = "idle"]
    /\ UNCHANGED <<policyNo, topoNo, seenNo, inUpdate, timer, user, tables,
                   packets, compiled, forked, ignored>>

\* policy_lock was released before.
LockChannel ==
    /\ asyncore.pc = "send"
    /\ ~ChannelLocked
    /\ asyncore' = [asyncore EXCEPT !.pc = "push"]
    /\ UNCHANGED <<policyNo, topoNo, seenNo, inUpdate, timer, user, tables,
                   packets, compiled, forked, ignored>>

\* The packets it evaluated to, and reactive0_install of them.
SendOutput ==
    /\ asyncore.pc = "push"
    /\ asyncore' = [asyncore EXCEPT !.pc = "idle"]
    /\ microflows' =
        IF Mode = "reactive0"
        THEN microflows \cup {[code |-> asyncore.code, late |-> asyncore.code # Latest]}
        ELSE microflows
    /\ UNCHANGED <<policyNo, topoNo, seenNo, inUpdate, timer, user, waiting,
                   installing, installed, forks, packets, compiled, forked, ignored>>

----------------------------------------------------------------------------
(* The processes: install_classifier's f, and clear_all's.                 *)

Process == UNCHANGED <<policyNo, topoNo, seenNo, inUpdate, threads, forks,
                       packets, compiled, forked, ignored>>

\* Mutant: switch_lock is not waited for.
BeginUnlocked(p) ==
    /\ Mode = "proactive0"
    /\ p \in waiting
    /\ FifoLock => \A q \in waiting : p.no <= q.no
    /\ waiting' = waiting \ {p}
    /\ installing' = installing \cup {p}
    /\ UNCHANGED <<installed, microflows>>
    /\ Process

BeginInstall(p) ==
    /\ Mode = "proactive0"
    /\ p \in waiting
    /\ installing = {}
    /\ FifoLock => \A q \in waiting : p.no <= q.no
    /\ waiting' = waiting \ {p}
    /\ installing' = {p}
    /\ UNCHANGED <<installed, microflows>>
    /\ Process

EndInstall(p) ==
    /\ p \in installing
    /\ ~p.stuck
    /\ installing' = {}
    /\ installed' = [code |-> p.code, net |-> p.net]
    /\ UNCHANGED <<waiting, microflows>>
    /\ Process

\* No switch_lock here.
ClearAll(p) ==
    /\ Mode = "reactive0"
    /\ p \in waiting
    /\ ~p.stuck
    /\ waiting' = waiting \ {p}
    /\ microflows' = {}
    /\ UNCHANGED <<installing, installed>>
    /\ Process

----------------------------------------------------------------------------
TimerStep(n) ==
    \/ EnterNetworkChange(n)
    \/ Recompile(n)
    \/ ForkUpdate(n)
    \/ LeaveNetworkChange(n)

UserStep(u) ==
    \/ UserNotify(u)
    \/ UserCompile(u)
    \/ UserFork(u)
    \/ UserPushed(u)

AsyncoreStep ==
    \/ Dispatch
    \/ \E intoBuckets \in BOOLEAN : Evaluate(intoBuckets)
    \/ NotifyChange
    \/ ForkChange
    \/ Applied
    \/ LockChannel
    \/ SendOutput

ProcessStep ==
    \/ \E p \in waiting : BeginInstall(p) \/ ClearAll(p)
    \/ \E p \in installing : EndInstall(p)

Next ==
    \/ AssignTopology
    \/ \E n \in Timers : TimerStep(n)
    \/ \E u \in Users : UserReassign(u) \/ UserPush(u) \/ UserStep(u)
    \/ Read \/ Callback \/ AsyncoreStep
    \/ ProcessStep

Spec == Init /\ [][Next]_vars

\* Every thread and process that can run does; packets, callbacks that
\* reassign, users and new topologies need not come.
Fairness ==
    /\ \A n \in Timers : WF_vars(TimerStep(n))
    /\ \A u \in Users : WF_vars(UserStep(u))
    /\ WF_vars(AsyncoreStep)
    /\ WF_vars(ProcessStep)

FairSpec == Spec /\ Fairness

----------------------------------------------------------------------------
(* Properties.                                                             *)

Codes == [policy : 0..policyNo, topo : 0..topoNo]
Processes ==
    [no : 1..forks, code : Codes, net : 0..topoNo, stuck : BOOLEAN]

CountersOK ==
    /\ policyNo \in 0..MaxChanges /\ topoNo \in 0..MaxTopos /\ seenNo \in 0..topoNo
    /\ forks \in Nat /\ packets \in 0..MaxPackets
ThreadsOK ==
    /\ inUpdate = NetworkLocked
    /\ asyncore \in [pc : {"idle", "read", "packet", "apply", "notify", "fork", "send",
                            "push"},
                     code : Codes]
    /\ timer \in [Timers -> [pc : {"none", "start", "set", "fork", "leave", "done"},
                             code : Codes]]
    /\ \A n \in Timers : timer[n].pc = "none" <=> n > topoNo
    /\ user \in [Users -> [pc : {"idle", "notify", "compile", "fork", "push"},
                           code : Codes]]
    /\ compiled \in Codes /\ forked \in Codes /\ ignored \in BOOLEAN
TablesOK ==
    /\ waiting \subseteq Processes
    /\ installing \subseteq Processes
    /\ \A p, q \in installing : p = q
    /\ installed \in [code : Codes, net : 0..topoNo]
    /\ microflows \subseteq [code : Codes, late : BOOLEAN]

\* Every variable has its type; in_update_network is TRUE exactly inside
\* network_lock, one process at a time has switch_lock, and no number names
\* a policy or a topology of the future.
TypeOK == CountersOK /\ ThreadsOK /\ TablesOK

AllIdle ==
    /\ asyncore.pc = "idle"
    /\ \A n \in Timers : timer[n].pc \in {"none", "done"}
    /\ \A u \in Users : user[u].pc = "idle"

\* However the threads overlap, with all of them done the policy and the
\* topology last compiled are the latest, unless handle_policy_change
\* returned at once since.
CompiledUnlessIgnored == AllIdle /\ ~ignored => compiled = Latest

\* The same of the classifier last handed to a process: it holds as long as
\* only callbacks of packets reassign policies.
ForkedUnlessIgnored == AllIdle /\ ~ignored => forked = Latest

\* Why: the policies saw the topology last compiled, a timer is on its way
\* if there is a newer one, and a thread that reassigned a policy since the
\* last compilation has yet to call handle_policy_change or to compile.
CompiledInv ==
    /\ compiled.topo = seenNo
    /\ seenNo = topoNo \/ \E n \in Timers : timer[n].pc \in {"start", "set"}
    /\ \/ ignored
       \/ compiled.policy = policyNo
       \/ asyncore.pc = "notify"
       \/ \E u \in Users : user[u].pc \in {"notify", "compile"}

\* Why: what was compiled last has been forked, or its thread is still inside
\* policy_lock and about to fork it.
ForkedInv ==
    /\ forked = compiled \/ asyncore.pc = "fork" \/ \E n \in Timers : timer[n].pc = "fork"
    /\ asyncore.pc = "fork" => asyncore.code = compiled
    /\ \A n \in Timers : timer[n].pc = "fork" => timer[n].code = compiled
    /\ asyncore.pc \in {"apply", "notify", "fork"} => \A n \in Timers : timer[n].pc # "fork"
    /\ \A m, n \in Timers : timer[m].pc = "fork" /\ timer[n].pc = "fork" => m = n

\* Reactive mode: once every table is cleared that had to be, a microflow is
\* of the latest policy and topology, unless it was out of date already when
\* it was installed: policy_lock is released between the evaluation and that.
MicroflowsCurrent ==
    AllIdle /\ waiting = {} /\ ~ignored =>
        \A f \in microflows : f.late \/ f.code = Latest

\* In the end the tables hold what was compiled last, for the switches of the
\* latest topology, and that is the latest policy unless a change was ignored:
\* or a process has switch_lock that was forked while another thread sent or
\* read a message, and none after it installs anything.
EventuallyInstalled ==
    <>[](\/ \E p \in installing : p.stuck
         \/ /\ installed = [code |-> compiled, net |-> topoNo]
            /\ ignored \/ compiled = Latest)

=============================================================================
