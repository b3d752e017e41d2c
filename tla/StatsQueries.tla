---------------------------- MODULE StatsQueries ----------------------------
(***************************************************************************)
(* Counting queries: class CountBucket of core/language.py and the query   *)
(* half of core/runtime.py (pull_stats_for_bucket, handle_flow_stats_reply *)
(* and the bucket bookkeeping of install_classifier).                      *)
(*                                                                         *)
(* User threads call pull_stats, the asyncore thread handles the replies   *)
(* of the switches, and a thread that installs a new classifier rewrites   *)
(* the buckets it names.  They meet at the condition variable of each      *)
(* bucket (in_update_cv) and at global_outstanding_queries_lock.  A step   *)
(* runs from one place a thread can block to the next; a lock that is      *)
(* taken and released within a step is only a guard of the step.           *)
(*                                                                         *)
(* packet_count and byte_count are abstracted to the set of switches whose *)
(* counters went into them.                                                *)
(***************************************************************************)
EXTENDS Naturals, Sequences, FiniteSets, SequencesExt

CONSTANTS
    Switches, Buckets,
    Users,          \* threads that pull statistics
    BucketOf,       \* the bucket a user pulls
    Matches,        \* matches of rules that count into buckets
    SwitchOf,       \* the switch a match names, or AnySwitch
    AnySwitch,
    Initial,        \* the classifier at the start: buckets it names -> their matches
    Classifiers,    \* what may be installed after it
    NoOne,          \* no thread
    MaxPulls,       \* bound: calls of pull_stats
    MaxUpdates,     \* bound: classifiers installed
    MaxLoss         \* bound: switches that never answer a request

ASSUME SwitchOfAssumption == SwitchOf \in [Matches -> Switches \cup {AnySwitch}]
ASSUME BucketOfAssumption == BucketOf \in [Users -> Buckets]
ASSUME AnyAssumption == AnySwitch \notin Switches
ASSUME ClassifiersAssumption ==
    \A c \in Classifiers \cup {Initial} :
        /\ DOMAIN c \subseteq Buckets
        /\ \A b \in DOMAIN c : c[b] \subseteq Matches /\ c[b] # {}
ASSUME ThreadAssumption ==
    /\ NoOne \notin Users \cup {"asyncore", "installer"}
    /\ Users \cap {"asyncore", "installer"} = {}
ASSUME BoundsAssumption ==
    MaxPulls \in Nat /\ MaxUpdates \in Nat /\ MaxLoss \in Nat

VARIABLES
    \* CountBucket
    cv,             \* cv[b]: user in the middle of pull_stats with in_update_cv
    waitSet,        \* waitSet[b]: threads in in_update_cv.wait()
    inUpdate, matches,
    pullFun,        \* runtime_stats_query_fun is not None
    outstanding,    \* outstanding_switches, a list
    counted,        \* the switches whose counters are in packet_count
    \* Runtime
    globalLocked,   \* the asyncore thread holds global_outstanding_queries_lock
    globalQueries,  \* global_outstanding_queries[s], empty if there is none
    \* threads
    user, asyncore, installer,
    \* switches (external): requests not answered yet
    requests,
    \* bounds
    pulls, updates,
    lost            \* switches whose request was lost

bucketVars == <<cv, waitSet, inUpdate, matches, pullFun, outstanding, counted>>
globalVars == <<globalLocked, globalQueries, requests>>
bounds == <<pulls, updates, lost>>
vars == <<bucketVars, globalVars, user, asyncore, installer, bounds>>

Init ==
    /\ cv = [b \in Buckets |-> NoOne]
    /\ waitSet = [b \in Buckets |-> {}]
    /\ inUpdate = [b \in Buckets |-> FALSE]
    /\ matches = [b \in Buckets |-> IF b \in DOMAIN Initial THEN Initial[b] ELSE {}]
    /\ pullFun = [b \in Buckets |-> b \in DOMAIN Initial]
    /\ outstanding = [b \in Buckets |-> <<>>]
    /\ counted = [b \in Buckets |-> {}]
    /\ globalLocked = FALSE
    /\ globalQueries = [s \in Switches |-> <<>>]
    /\ user = [u \in Users |-> [pc |-> "idle", bucket |-> BucketOf[u], todo |-> {}]]
    /\ asyncore = [pc |-> "idle"]
    /\ installer = [pc |-> "idle"]
    /\ requests = {}
    /\ pulls = 0 /\ updates = 0 /\ lost = {}

----------------------------------------------------------------------------
(* pull_stats, called by user u on its bucket, for a callback or again       *)
(* before one came.                                                        *)

PullStats(u) ==
    /\ pulls < MaxPulls
    /\ user[u].pc \in {"idle", "await"}
    /\ pulls' = pulls + 1
    /\ user' = [user EXCEPT ![u].pc = "cv"]
    /\ UNCHANGED <<bucketVars, globalVars, asyncore, installer, updates, lost>>

\* "with in_update_cv: while in_update: wait()"
CanEnter(t, b) == cv[b] = NoOne /\ t \notin waitSet[b]
NeverWait(b) == FALSE       \* Mutant: in_update is not looked at.
MustWait(b) == inUpdate[b]

\* Mutant: a thread sleeps without giving back the lock of in_update_cv.
WaitHolding(t, b) ==
    /\ MustWait(b)
    /\ waitSet' = [waitSet EXCEPT ![b] = @ \cup {t}]
    /\ cv' = [cv EXCEPT ![b] = t]
    /\ UNCHANGED <<inUpdate, matches, pullFun, outstanding, counted,
                   globalVars, user, asyncore, installer, bounds>>

Wait(t, b) ==
    /\ MustWait(b)
    /\ waitSet' = [waitSet EXCEPT ![b] = @ \cup {t}]
    /\ UNCHANGED <<cv, inUpdate, matches, pullFun, outstanding, counted,
                   globalVars, user, asyncore, installer, bounds>>

\* One query per match, or one per switch if a match names no switch.
SwitchList(b) ==
    IF \E m \in matches[b] : SwitchOf[m] = AnySwitch
    THEN {<<AnySwitch, s>> : s \in Switches}
    ELSE {<<m, SwitchOf[m]>> : m \in matches[b]}

EnterPull(u) ==
    LET b == user[u].bucket IN
    /\ user[u].pc = "cv"
    /\ CanEnter(u, b)
    /\ \/ Wait(u, b)
       \/ /\ ~MustWait(b)
          /\ pullFun[b]
          /\ cv' = [cv EXCEPT ![b] = u]
          /\ outstanding' = [outstanding EXCEPT ![b] = <<>>]
          /\ user' = [user EXCEPT ![u].pc = "issue", ![u].todo = SwitchList(b)]
          /\ UNCHANGED <<waitSet, inUpdate, matches, pullFun, counted, globalVars,
                         asyncore, installer, bounds>>
       \/ /\ ~MustWait(b)           \* no matches
          /\ ~pullFun[b]
          /\ user' = [user EXCEPT ![u].pc = "report"]
          /\ UNCHANGED <<bucketVars, globalVars, asyncore, installer, bounds>>

\* The callbacks of bucket b: the users that wait for them go on.
Called(b) ==
    [u \in Users |-> IF user[u].bucket = b /\ user[u].pc = "await"
                     THEN [user[u] EXCEPT !.pc = "idle"] ELSE user[u]]

\* No query was issued: report what is at hand, outside in_update_cv.
Report(u) ==
    LET b == user[u].bucket IN
    /\ user[u].pc = "report"
    /\ counted' = [counted EXCEPT ![b] = {}]
    /\ user' = [Called(b) EXCEPT ![u].pc = "idle"]
    /\ UNCHANGED <<cv, waitSet, inUpdate, matches, pullFun, outstanding,
                   globalVars, asyncore, installer, bounds>>

\* pull_bucket_stats, still inside in_update_cv.
Issue(u) ==
    /\ user[u].pc = "issue"
    /\ \E q \in user[u].todo :
        /\ outstanding' = [outstanding EXCEPT ![user[u].bucket] = Append(@, q[2])]
        /\ user' = [user EXCEPT ![u].pc = "global", ![u].todo = @ \ {q}]
    /\ UNCHANGED <<cv, waitSet, inUpdate, matches, pullFun, counted, globalVars,
                   asyncore, installer, bounds>>

\* Mutant: the lock is not taken.
AddUnlocked(u) ==
    LET b == user[u].bucket
        s == Last(outstanding[b])
    IN  /\ user[u].pc = "global"
        /\ globalQueries' = [globalQueries EXCEPT ![s] = Append(@, b)]
        /\ user' = [user EXCEPT ![u].pc =
                        IF globalQueries[s] = <<>> THEN "request" ELSE "issue"]
        /\ UNCHANGED <<bucketVars, globalLocked, requests, asyncore, installer, bounds>>

\* add_global_outstanding_query: whether the switch is being asked already.
AddGlobalQuery(u) ==
    LET b == user[u].bucket
        s == Last(outstanding[b])
    IN  /\ user[u].pc = "global"
        /\ ~globalLocked
        /\ globalQueries' = [globalQueries EXCEPT ![s] = Append(@, b)]
        /\ user' = [user EXCEPT ![u].pc =
                        IF globalQueries[s] = <<>> THEN "request" ELSE "issue"]
        /\ UNCHANGED <<bucketVars, globalLocked, requests, asyncore, installer, bounds>>

\* request_flow_stats, with global_outstanding_queries_lock free again.
Request(u) ==
    /\ user[u].pc = "request"
    /\ requests' = requests \cup {Last(outstanding[user[u].bucket])}
    /\ user' = [user EXCEPT ![u].pc = "issue"]
    /\ UNCHANGED <<bucketVars, globalLocked, globalQueries, asyncore, installer, bounds>>

LeavePull(u) ==
    /\ user[u].pc = "issue"
    /\ user[u].todo = {}
    /\ cv' = [cv EXCEPT ![user[u].bucket] = NoOne]
    /\ user' = [user EXCEPT ![u].pc = "await"]
    /\ UNCHANGED <<waitSet, inUpdate, matches, pullFun, outstanding, counted,
                   globalVars, asyncore, installer, bounds>>

----------------------------------------------------------------------------
(* handle_flow_stats_reply in the asyncore thread: the runtime's takes     *)
(* global_outstanding_queries_lock and calls the bucket's for each bucket  *)
(* on the switch's list.                                                   *)

Reply(s) ==
    /\ asyncore.pc = "idle"
    /\ s \in requests
    /\ requests' = requests \ {s}
    /\ IF globalQueries[s] = <<>>
       THEN UNCHANGED <<globalLocked, asyncore>>
       ELSE /\ globalLocked' = TRUE
            /\ asyncore' = [pc |-> "cv", switch |-> s, todo |-> globalQueries[s]]
    /\ UNCHANGED <<bucketVars, globalQueries, user, installer, bounds>>

\* The switch leaves before it answers.
LoseRequest(s) ==
    /\ s \in requests
    /\ Cardinality(lost) < MaxLoss
    /\ lost' = lost \cup {s}
    /\ requests' = requests \ {s}
    /\ UNCHANGED <<bucketVars, globalLocked, globalQueries, user, asyncore, installer,
                   pulls, updates>>

\* stat_in_bucket for the rules of switch s.
Relevant(b, s) == \E m \in matches[b] : SwitchOf[m] \in {s, AnySwitch}

\* list.remove; the first place, where there is one.
Place(list, s) ==
    CHOOSE i \in DOMAIN list : list[i] = s /\ \A j \in DOMAIN list : list[j] = s => i <= j
Removed(list, s) == IF s \in Range(list) THEN RemoveAt(list, Place(list, s)) ELSE list

HandleReply ==
    LET b == Head(asyncore.todo)
        s == asyncore.switch
    IN  /\ asyncore.pc = "cv"
        /\ asyncore.todo # <<>>
        /\ CanEnter("asyncore", b)
        /\ \/ Wait("asyncore", b)
           \/ /\ ~MustWait(b)
              /\ counted' = [counted EXCEPT ![b] =
                    IF s \in Range(outstanding[b]) /\ Relevant(b, s) THEN {s} ELSE {}]
              /\ outstanding' = [outstanding EXCEPT ![b] = Removed(@, s)]
              /\ asyncore' = [asyncore EXCEPT !.pc = "callback"]
              /\ UNCHANGED <<cv, waitSet, inUpdate, matches, pullFun, globalVars,
                             user, installer, bounds>>

\* Outside in_update_cv.
Callback ==
    LET b == Head(asyncore.todo) IN
    /\ asyncore.pc = "callback"
    /\ asyncore' = [asyncore EXCEPT !.pc = "cv", !.todo = Tail(@)]
    /\ user' = IF outstanding[b] = <<>> THEN Called(b) ELSE user
    /\ UNCHANGED <<bucketVars, globalVars, installer, bounds>>

\* Mutant: the list of the switch is not deleted.
FinishReplyKeepList ==
    /\ asyncore.pc = "cv"
    /\ asyncore.todo = <<>>
    /\ globalLocked' = FALSE
    /\ asyncore' = [pc |-> "idle"]
    /\ UNCHANGED <<bucketVars, requests, globalQueries, user, installer, bounds>>

FinishReply ==
    /\ asyncore.pc = "cv"
    /\ asyncore.todo = <<>>
    /\ globalQueries' = [globalQueries EXCEPT ![asyncore.switch] = <<>>]
    /\ globalLocked' = FALSE
    /\ asyncore' = [pc |-> "idle"]
    /\ UNCHANGED <<bucketVars, requests, user, installer, bounds>>

----------------------------------------------------------------------------
(* bookkeep_buckets of install_classifier, under update_buckets_lock.  A   *)
(* bucket the classifier does not name keeps what it has.                  *)

Install(c) ==
    /\ installer.pc = "idle"
    /\ updates < MaxUpdates
    /\ updates' = updates + 1
    /\ installer' = [pc |-> "start", new |-> c, todo |-> DOMAIN c]
    /\ UNCHANGED <<bucketVars, globalVars, user, asyncore, pulls, lost>>

StartUpdate(b) ==
    /\ installer.pc = "start"
    /\ b \in installer.todo
    /\ cv[b] = NoOne
    /\ inUpdate' = [inUpdate EXCEPT ![b] = TRUE]
    /\ matches' = [matches EXCEPT ![b] = {}]
    /\ pullFun' = [pullFun EXCEPT ![b] = FALSE]
    /\ outstanding' = [outstanding EXCEPT ![b] = <<>>]
    /\ installer' = [installer EXCEPT !.todo = @ \ {b}]
    /\ UNCHANGED <<cv, waitSet, counted, globalVars, user, asyncore, bounds>>

\* add_match and add_pull_stats take no lock: in_update keeps readers away.
HookBuckets ==
    LET new == installer.new IN
    /\ installer.pc = "start"
    /\ installer.todo = {}
    /\ matches' = [b \in Buckets |-> IF b \in DOMAIN new THEN new[b] ELSE matches[b]]
    /\ pullFun' = [b \in Buckets |-> b \in DOMAIN new \/ pullFun[b]]
    /\ installer' = [installer EXCEPT !.pc = "finish", !.todo = DOMAIN new]
    /\ UNCHANGED <<cv, waitSet, inUpdate, outstanding, counted, globalVars, user,
                   asyncore, bounds>>

\* Mutant: no notify_all.
FinishUpdateSilently(b) ==
    /\ installer.pc = "finish"
    /\ b \in installer.todo
    /\ cv[b] = NoOne
    /\ inUpdate' = [inUpdate EXCEPT ![b] = FALSE]
    /\ installer' = IF installer.todo = {b} THEN [pc |-> "idle"]
                    ELSE [installer EXCEPT !.todo = @ \ {b}]
    /\ UNCHANGED <<cv, waitSet, matches, pullFun, outstanding, counted, globalVars,
                   user, asyncore, bounds>>

FinishUpdate(b) ==
    /\ installer.pc = "finish"
    /\ b \in installer.todo
    /\ cv[b] = NoOne
    /\ inUpdate' = [inUpdate EXCEPT ![b] = FALSE]
    /\ waitSet' = [waitSet EXCEPT ![b] = {}]
    /\ installer' = IF installer.todo = {b} THEN [pc |-> "idle"]
                    ELSE [installer EXCEPT !.todo = @ \ {b}]
    /\ UNCHANGED <<cv, matches, pullFun, outstanding, counted, globalVars, user,
                   asyncore, bounds>>

----------------------------------------------------------------------------
UserStep(u) ==
    \/ EnterPull(u) \/ Report(u) \/ LeavePull(u)
    \/ Issue(u) \/ AddGlobalQuery(u) \/ Request(u)
AsyncoreStep == (\E s \in Switches : Reply(s)) \/ HandleReply \/ Callback \/ FinishReply
InstallerStep ==
    (\E b \in Buckets : StartUpdate(b) \/ FinishUpdate(b)) \/ HookBuckets

Next ==
    \/ \E u \in Users : PullStats(u) \/ UserStep(u)
    \/ AsyncoreStep
    \/ \E s \in Switches : LoseRequest(s)
    \/ \E c \in Classifiers : Install(c)
    \/ InstallerStep

Spec == Init /\ [][Next]_vars

\* Threads run, and a switch that is asked answers unless it is lost.
FairSpec ==
    /\ Spec
    /\ \A u \in Users : WF_vars(UserStep(u))
    /\ WF_vars(AsyncoreStep)
    /\ WF_vars(InstallerStep)

----------------------------------------------------------------------------
(* Properties.                                                             *)

UserType == [pc : {"idle", "cv", "report", "issue", "global", "request", "await"},
             bucket : Buckets,
             todo : SUBSET ((Matches \cup {AnySwitch}) \X Switches)]
AsyncoreType ==
    [pc : {"idle"}]
    \cup [pc : {"cv"}, switch : Switches, todo : Seq(Buckets)]
    \cup [pc : {"callback"}, switch : Switches, todo : Seq(Buckets) \ {<<>>}]
InstallerType ==
    [pc : {"idle"}] \cup [pc : {"start", "finish"}, new : Classifiers, todo : SUBSET Buckets]

\* Every variable has its type.
TypeOK ==
    /\ cv \in [Buckets -> Users \cup {NoOne}]
    /\ waitSet \in [Buckets -> SUBSET (Users \cup {"asyncore"})]
    /\ inUpdate \in [Buckets -> BOOLEAN] /\ pullFun \in [Buckets -> BOOLEAN]
    /\ matches \in [Buckets -> SUBSET Matches]
    /\ outstanding \in [Buckets -> Seq(Switches)]
    /\ counted \in [Buckets -> SUBSET Switches]
    /\ globalLocked \in BOOLEAN
    /\ globalQueries \in [Switches -> Seq(Buckets)]
    /\ user \in [Users -> UserType]
    /\ asyncore \in AsyncoreType
    /\ installer \in InstallerType
    /\ requests \in SUBSET Switches
    /\ pulls \in 0 .. MaxPulls /\ updates \in 0 .. MaxUpdates /\ lost \in SUBSET Switches

\* An answer a bucket waits for will be brought to it: the bucket stands on
\* the runtime's list of the switch as often as it waits for that switch,
\* but for the one query a user is about to add.
Times(x, seq) == Cardinality({i \in DOMAIN seq : seq[i] = x})
Adding(b, s) ==
    {u \in Users : /\ user[u].pc = "global"
                   /\ user[u].bucket = b
                   /\ s = Last(outstanding[b])}
AnswersWillCome ==
    \A b \in Buckets, s \in Switches :
        Times(s, outstanding[b]) <= Times(b, globalQueries[s]) + Cardinality(Adding(b, s))

\* A switch has buckets on its list when a user is about to ask it, when it is
\* being asked, when its answer is being handled, and for ever after it was
\* asked in vain: only then is "already_queried" wrong.
Asking(s) ==
    {u \in Users : user[u].pc = "request" /\ s = Last(outstanding[user[u].bucket])}
ListedIffAsked ==
    \A s \in Switches :
        globalQueries[s] # <<>>
            <=> \/ Asking(s) # {}
                \/ s \in requests
                \/ globalLocked /\ asyncore.switch = s
                \/ s \in lost

\* The threads that must move before t can, NoOne if it need not wait.
WaitsFor(t) ==
    CASE t = "installer" ->
            IF installer.pc # "idle" /\ installer.todo # {}
               /\ \A b \in installer.todo : cv[b] # NoOne
            THEN {cv[b] : b \in installer.todo} ELSE {NoOne}
      [] t = "asyncore" ->
            IF asyncore.pc = "cv" /\ asyncore.todo # <<>>
            THEN LET b == Head(asyncore.todo) IN
                 IF t \in waitSet[b] THEN {"installer"} ELSE {cv[b]}
            ELSE {NoOne}
      [] t \in Users ->
            IF user[t].pc = "cv" THEN
                 IF t \in waitSet[user[t].bucket] THEN {"installer"}
                 ELSE {cv[user[t].bucket]}
            ELSE IF user[t].pc = "global" /\ globalLocked THEN {"asyncore"}
            ELSE {NoOne}
Circles ==
    {S \in SUBSET (Users \cup {"asyncore", "installer"}) :
        S # {} /\ \A t \in S : WaitsFor(t) \subseteq S}

\* No threads wait for each other in a circle.
NoCircularWait == Circles = {}

\* Threads wait in a circle only where a pull and a reply take the two locks in
\* opposite orders: a user inside in_update_cv of its bucket wants
\* global_outstanding_queries_lock, which the asyncore thread holds while it
\* waits for a bucket that such a user is in or that is in an update.
CirclesCrossLocks ==
    \A S \in Circles :
        /\ "asyncore" \in S /\ globalLocked
        /\ \E u \in S \cap Users : user[u].pc = "global" /\ cv[user[u].bucket] = u
        /\ \/ cv[Head(asyncore.todo)] \in S
           \/ "installer" \in S /\ inUpdate[Head(asyncore.todo)]

\* While an update is under way no query of the bucket is issued and no answer
\* counted: its counters are only reset, by a pull that found no query function
\* before the update and reports after leaving in_update_cv.
QuietInUpdate ==
    [][\A b \in Buckets : inUpdate[b] /\ inUpdate'[b] =>
            /\ outstanding'[b] = outstanding[b]
            /\ counted'[b] # counted[b] =>
                    /\ counted'[b] = {}
                    /\ \E u \in Users : user[u].bucket = b /\ user[u].pc = "report"]_vars

\* A user that pulled gets its callback, pulls of others, answers to earlier
\* ones and updates in between, unless a request was lost or threads wait in a
\* circle.
CallbackComes ==
    \A u \in Users :
        user[u].pc # "idle" ~> user[u].pc = "idle" \/ lost # {} \/ Circles # {}

=============================================================================
