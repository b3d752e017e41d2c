------------------------- MODULE StatsQueriesProofs -------------------------
(***************************************************************************)
(* Proofs about StatsQueries, for any number of users, buckets, switches,  *)
(* pulls, updates and lost requests.                                       *)
(***************************************************************************)
EXTENDS StatsQueries, SequenceTheorems, FiniteSetTheorems, TLAPS

\* A set of natural numbers has a least element.
LEMMA LeastNatural ==
    ASSUME NEW S \in SUBSET Nat, S # {}
    PROVE  \E x \in S : \A y \in S : x <= y
<1>1. \E x \in S : \A y \in S : ~(<<y, x>> \in OpToRel(<, Nat))
  BY NatLessThanWellFounded, WFMin
<1>2. PICK x \in S : \A y \in S : ~(<<y, x>> \in OpToRel(<, Nat))
  BY <1>1
<1>3. \A y \in S : y \in Nat /\ x \in Nat
  OBVIOUS
<1>4. \A y \in S : ~(y < x)
  BY <1>2, <1>3 DEF OpToRel
<1> QED
  BY <1>3, <1>4

\* list.remove takes out one element, or none.
LEMMA RemovedType ==
    ASSUME NEW S, NEW s \in Seq(S), NEW e
    PROVE  Removed(s, e) \in Seq(S) /\ Len(Removed(s, e)) <= Len(s)
<1>1. Len(s) \in Nat /\ DOMAIN s = 1 .. Len(s) /\ \A i \in 1 .. Len(s) : s[i] \in S
  BY LenProperties, ElementOfSeq
<1>2. CASE e \notin Range(s)
  BY <1>1, <1>2 DEF Removed
<1>3. CASE e \in Range(s)
  <2> DEFINE k == Place(s, e)
  <2>1. \E i \in DOMAIN s : s[i] = e
    BY <1>3 DEF Range
  <2>2. \E i \in DOMAIN s : s[i] = e /\ \A j \in DOMAIN s : s[j] = e => i <= j
    <3>1. {i \in DOMAIN s : s[i] = e} \in SUBSET Nat /\ {i \in DOMAIN s : s[i] = e} # {}
      BY <1>1, <2>1
    <3> QED
      BY <3>1, LeastNatural
  <2>3. k \in 1 .. Len(s)
    BY <1>1, <2>2 DEF Place
  <2>4. Removed(s, e) = SubSeq(s, 1, k - 1) \o SubSeq(s, k + 1, Len(s))
    BY <1>3 DEF Removed, RemoveAt
  <2> HIDE DEF k
  <2>5. SubSeq(s, 1, k - 1) \in Seq(S) /\ Len(SubSeq(s, 1, k - 1)) = k - 1
    BY <1>1, <2>3, SubSeqProperties
  <2>6. /\ SubSeq(s, k + 1, Len(s)) \in Seq(S)
        /\ Len(SubSeq(s, k + 1, Len(s))) = IF k + 1 <= Len(s) THEN Len(s) - k ELSE 0
    BY <1>1, <2>3, SubSeqProperties
  <2>7. /\ Removed(s, e) \in Seq(S)
        /\ Len(Removed(s, e)) = Len(SubSeq(s, 1, k - 1)) + Len(SubSeq(s, k + 1, Len(s)))
    BY <2>4, <2>5, <2>6, ConcatProperties
  <2>8. Len(s) \in Nat /\ k \in Nat /\ 1 <= k /\ k <= Len(s)
    BY <1>1, <2>3
  <2> HIDE DEF k
  <2>9. CASE k + 1 <= Len(s)
    BY <2>5, <2>6, <2>7, <2>8, <2>9
  <2>10. CASE ~(k + 1 <= Len(s))
    BY <2>5, <2>6, <2>7, <2>8, <2>10
  <2> QED
    BY <2>9, <2>10
<1> QED
  BY <1>2, <1>3
-----------------------------------------------------------------------------
(* Types.  A user inside pull_stats holds in_update_cv of its bucket, and a
   bucket in an update is held by nobody. *)
Inside ==
    /\ \A u \in Users : user[u].pc \in {"issue", "global", "request"} => cv[user[u].bucket] = u
    /\ \A u \in Users : user[u].pc \in {"global", "request"} => outstanding[user[u].bucket] # <<>>
    /\ \A b \in Buckets : inUpdate[b] => cv[b] = NoOne

Inv == TypeOK /\ Inside

\* The queries of a pull name switches.
LEMMA SwitchListType ==
    ASSUME TypeOK, NEW b \in Buckets
    PROVE  SwitchList(b) \subseteq (Matches \cup {AnySwitch}) \X Switches
<1>1. matches[b] \subseteq Matches
  BY DEF TypeOK
<1>2. CASE \E m \in matches[b] : SwitchOf[m] = AnySwitch
  BY <1>2 DEF SwitchList
<1>3. CASE ~\E m \in matches[b] : SwitchOf[m] = AnySwitch
  BY <1>1, <1>3, SwitchOfAssumption DEF SwitchList
<1> QED
  BY <1>2, <1>3

\* A user is a record of a place, a bucket and the queries to do.
LEMMA UserFields ==
    ASSUME NEW r \in UserType
    PROVE  /\ r.pc \in {"idle", "cv", "report", "issue", "global", "request", "await"}
           /\ r.bucket \in Buckets
           /\ r.todo \subseteq (Matches \cup {AnySwitch}) \X Switches
BY DEF UserType

LEMMA UserMoves ==
    ASSUME NEW r \in UserType,
           NEW p \in {"idle", "cv", "report", "issue", "global", "request", "await"}
    PROVE  /\ [r EXCEPT !.pc = p] \in UserType
           /\ [r EXCEPT !.pc = p].pc = p
           /\ [r EXCEPT !.pc = p].bucket = r.bucket
BY DEF UserType

\* A user goes to the place p.
LEMMA UserGoes ==
    ASSUME user \in [Users -> UserType], NEW u \in Users,
           NEW p \in {"idle", "cv", "report", "issue", "global", "request", "await"},
           user' = [user EXCEPT ![u].pc = p]
    PROVE  /\ user' \in [Users -> UserType]
           /\ user'[u].pc = p /\ user'[u].bucket = user[u].bucket
           /\ \A v \in Users \ {u} : user'[v] = user[v]
<1> DEFINE r == [user[u] EXCEPT !.pc = p]
<1>1. user' = [user EXCEPT ![u] = r]
  OBVIOUS
<1>2. r \in UserType /\ r.pc = p /\ r.bucket = user[u].bucket
  BY UserMoves
<1> HIDE DEF r
<1> QED
  BY <1>1, <1>2

\* The callbacks of a bucket let users go that wait for them.
LEMMA CalledType ==
    ASSUME user \in [Users -> UserType], NEW b
    PROVE  /\ Called(b) \in [Users -> UserType]
           /\ \A v \in Users :
                /\ Called(b)[v].bucket = user[v].bucket
                /\ Called(b)[v] = user[v] \/ (user[v].pc = "await" /\ Called(b)[v].pc = "idle")
                /\ Called(b)[v].pc \in {user[v].pc, "idle"}
<1>1. \A v \in Users : /\ [user[v] EXCEPT !.pc = "idle"] \in UserType
                       /\ [user[v] EXCEPT !.pc = "idle"].pc = "idle"
                       /\ [user[v] EXCEPT !.pc = "idle"].bucket = user[v].bucket
  BY UserMoves
<1> QED
  BY <1>1 DEF Called

\* The threads that are at work have a record with all the fields.
LEMMA AsyncoreFields ==
    ASSUME asyncore \in AsyncoreType, asyncore.pc # "idle"
    PROVE  /\ asyncore \in [pc : {"cv", "callback"}, switch : Switches, todo : Seq(Buckets)]
           /\ asyncore.switch \in Switches /\ asyncore.todo \in Seq(Buckets)
           /\ asyncore.pc = "callback" => asyncore.todo # <<>>
BY DEF AsyncoreType

LEMMA InstallerFields ==
    ASSUME installer \in InstallerType, installer.pc # "idle"
    PROVE  /\ installer \in [pc : {"start", "finish"}, new : Classifiers, todo : SUBSET Buckets]
           /\ installer.new \in Classifiers /\ installer.todo \subseteq Buckets
BY DEF InstallerType

LEMMA InvInit == Init => Inv
<1> SUFFICES ASSUME Init PROVE Inv
  OBVIOUS
<1>1. matches \in [Buckets -> SUBSET Matches]
  BY ClassifiersAssumption DEF Init
<1>2. user \in [Users -> UserType]
  BY BucketOfAssumption DEF Init, UserType
<1>3. outstanding \in [Buckets -> Seq(Switches)] /\ globalQueries \in [Switches -> Seq(Buckets)]
  BY EmptySeq DEF Init
<1>4. asyncore \in AsyncoreType /\ installer \in InstallerType
  BY DEF Init, AsyncoreType, InstallerType
<1>5. pulls \in 0 .. MaxPulls /\ updates \in 0 .. MaxUpdates /\ lost \in SUBSET Switches
  BY BoundsAssumption DEF Init
<1>6. cv \in [Buckets -> Users \cup {NoOne}]
      /\ waitSet \in [Buckets -> SUBSET (Users \cup {"asyncore"})]
  BY DEF Init
<1>7. inUpdate \in [Buckets -> BOOLEAN] /\ pullFun \in [Buckets -> BOOLEAN]
  BY DEF Init
<1>8. counted \in [Buckets -> SUBSET Switches] /\ globalLocked \in BOOLEAN
      /\ requests \in SUBSET Switches
  BY DEF Init
<1>9. TypeOK
  BY <1>1, <1>2, <1>3, <1>4, <1>5, <1>6, <1>7, <1>8 DEF TypeOK
<1>10. Inside
  BY DEF Init, Inside
<1> QED
  BY <1>9, <1>10 DEF Inv

\* pull_stats
LEMMA UserInv ==
    ASSUME Inv, NEW u \in Users, PullStats(u) \/ UserStep(u)
    PROVE  Inv'
<1> DEFINE b == user[u].bucket
<1>1. TypeOK /\ Inside /\ user \in [Users -> UserType] /\ user[u] \in UserType
  BY DEF Inv, TypeOK
<1>2. b \in Buckets /\ u # NoOne /\ outstanding[b] \in Seq(Switches)
  BY <1>1, ThreadAssumption, UserFields DEF TypeOK
<1>3. CASE PullStats(u)
  <2>1. user' = [user EXCEPT ![u] = [user[u] EXCEPT !.pc = "cv"]]
    BY <1>3 DEF PullStats
  <2>2. user' \in [Users -> UserType] /\ user'[u].pc = "cv"
    BY <1>1, <2>1, UserMoves
  <2>3. pulls' \in 0 .. MaxPulls
    BY <1>1, <1>3, BoundsAssumption DEF PullStats, TypeOK
  <2>4. TypeOK'
    BY <1>1, <1>3, <2>2, <2>3 DEF PullStats, TypeOK, bucketVars, globalVars
  <2>5. \A v \in Users \ {u} : user'[v] = user[v]
    BY <1>1, <2>1
  <2>6. Inside'
    BY <1>1, <1>3, <2>2, <2>5 DEF PullStats, Inside, bucketVars
  <2> QED
    BY <2>4, <2>6 DEF Inv
<1>4. CASE EnterPull(u)
  <2>1. CASE Wait(u, b)
    <3>1. waitSet' \in [Buckets -> SUBSET (Users \cup {"asyncore"})]
      BY <1>1, <1>2, <2>1 DEF Wait, TypeOK
    <3>2. TypeOK'
      BY <1>1, <2>1, <3>1 DEF Wait, TypeOK, globalVars, bounds
    <3>3. Inside'
      BY <1>1, <2>1 DEF Wait, Inside
    <3> QED
      BY <3>2, <3>3 DEF Inv
  <2>2. CASE /\ ~MustWait(b) /\ cv[b] = NoOne
             /\ cv' = [cv EXCEPT ![b] = u]
             /\ outstanding' = [outstanding EXCEPT ![b] = <<>>]
             /\ user' = [user EXCEPT ![u].pc = "issue", ![u].todo = SwitchList(b)]
             /\ UNCHANGED <<waitSet, inUpdate, matches, pullFun, counted, globalVars,
                            asyncore, installer, bounds>>
    <3>1. SwitchList(b) \subseteq (Matches \cup {AnySwitch}) \X Switches
      BY <1>1, <1>2, SwitchListType
    <3> DEFINE r == [user[u] EXCEPT !.pc = "issue", !.todo = SwitchList(b)]
    <3>2. user' = [user EXCEPT ![u] = r] /\ r \in UserType /\ r.pc = "issue" /\ r.bucket = b
      <4>1. user' = [user EXCEPT ![u] = r]
        BY <1>1, <2>2
      <4>2. r \in UserType /\ r.pc = "issue" /\ r.bucket = b
        BY <1>1, <3>1 DEF UserType
      <4> QED
        BY <4>1, <4>2
    <3> HIDE DEF r
    <3>3. user' \in [Users -> UserType] /\ user'[u].pc = "issue" /\ user'[u].bucket = b
      BY <1>1, <3>2
    <3>4. outstanding' \in [Buckets -> Seq(Switches)]
      BY <1>1, <2>2, EmptySeq DEF TypeOK
    <3>5. cv' \in [Buckets -> Users \cup {NoOne}] /\ cv'[b] = u
          /\ \A c \in Buckets \ {b} : cv'[c] = cv[c] /\ outstanding'[c] = outstanding[c]
      BY <1>1, <1>2, <2>2 DEF TypeOK
    <3>6. TypeOK'
      BY <1>1, <2>2, <3>3, <3>4, <3>5 DEF TypeOK, globalVars, bounds
    <3>7. \A v \in Users \ {u} : user'[v] = user[v] /\ user[v].bucket \in Buckets
      BY <1>1, <3>2, UserFields
    <3>8. \A v \in Users \ {u} : user[v].pc \in {"issue", "global", "request"} => user[v].bucket # b
      BY <1>1, <2>2, ThreadAssumption DEF Inside
    <3>9. ~inUpdate[b] /\ inUpdate' = inUpdate
      BY <2>2 DEF MustWait
    <3>10. Inside'
      BY <1>1, <3>3, <3>5, <3>7, <3>8, <3>9 DEF Inside
    <3> QED
      BY <3>6, <3>10 DEF Inv
  <2>3. CASE /\ user' = [user EXCEPT ![u].pc = "report"]
             /\ UNCHANGED <<bucketVars, globalVars, asyncore, installer, bounds>>
    <3>1. user' = [user EXCEPT ![u] = [user[u] EXCEPT !.pc = "report"]]
      BY <2>3
    <3>2. user' \in [Users -> UserType] /\ user'[u].pc = "report"
      BY <1>1, <3>1, UserMoves
    <3>3. TypeOK'
      BY <1>1, <2>3, <3>2 DEF TypeOK, bucketVars, globalVars, bounds
    <3>4. \A v \in Users \ {u} : user'[v] = user[v]
      BY <1>1, <3>1
    <3>5. Inside'
      BY <1>1, <2>3, <3>2, <3>4 DEF Inside, bucketVars
    <3> QED
      BY <3>3, <3>5 DEF Inv
  <2> QED
    BY <1>4, <2>1, <2>2, <2>3 DEF EnterPull, CanEnter
<1>5. CASE Issue(u)
  <2>1. PICK q \in user[u].todo :
          /\ outstanding' = [outstanding EXCEPT ![b] = Append(@, q[2])]
          /\ user' = [user EXCEPT ![u].pc = "global", ![u].todo = @ \ {q}]
    BY <1>5 DEF Issue
  <2>2. q[2] \in Switches
    BY <1>1, <2>1, UserFields
  <2>3. Append(outstanding[b], q[2]) \in Seq(Switches) /\ Append(outstanding[b], q[2]) # <<>>
    BY <1>2, <2>2, AppendProperties
  <2>4. /\ outstanding' \in [Buckets -> Seq(Switches)] /\ outstanding'[b] # <<>>
        /\ \A c \in Buckets \ {b} : outstanding'[c] = outstanding[c]
    BY <1>1, <1>2, <2>1, <2>3 DEF TypeOK
  <2> DEFINE r == [user[u] EXCEPT !.pc = "global", !.todo = user[u].todo \ {q}]
  <2>5. user' = [user EXCEPT ![u] = r]
    BY <1>1, <2>1
  <2>6. r \in UserType /\ r.pc = "global" /\ r.bucket = b
    <3>1. user[u].todo \ {q} \subseteq (Matches \cup {AnySwitch}) \X Switches
      BY <1>1, UserFields
    <3> QED
      BY <1>1, <3>1 DEF UserType
  <2> HIDE DEF r
  <2>7. user' \in [Users -> UserType] /\ user'[u].pc = "global" /\ user'[u].bucket = b
    BY <1>1, <2>5, <2>6
  <2>8. TypeOK'
    BY <1>1, <1>5, <2>4, <2>7 DEF Issue, TypeOK, globalVars, bounds
  <2>9. \A v \in Users \ {u} : user'[v] = user[v] /\ user[v].bucket \in Buckets
    BY <1>1, <2>5, UserFields
  <2>10. cv[b] = u /\ cv' = cv /\ inUpdate' = inUpdate
    BY <1>1, <1>5 DEF Issue, Inside
  <2>11. Inside'
    BY <1>1, <2>4, <2>7, <2>9, <2>10 DEF Inside
  <2> QED
    BY <2>8, <2>11 DEF Inv
<1>6. CASE AddGlobalQuery(u)
  <2> DEFINE s == Last(outstanding[b])
             p == IF globalQueries[s] = <<>> THEN "request" ELSE "issue"
  <2>1. outstanding[b] # <<>>
    BY <1>1, <1>6 DEF AddGlobalQuery, Inside
  <2>2. s \in Switches
    BY <1>2, <2>1, LenProperties, EmptySeq, ElementOfSeq DEF Last
  <2>3. /\ globalQueries' = [globalQueries EXCEPT ![s] = Append(@, b)]
        /\ user' = [user EXCEPT ![u] = [user[u] EXCEPT !.pc = p]]
        /\ UNCHANGED <<bucketVars, globalLocked, requests, asyncore, installer, bounds>>
    BY <1>6 DEF AddGlobalQuery
  <2> HIDE DEF s
  <2>4. globalQueries' \in [Switches -> Seq(Buckets)]
    BY <1>1, <1>2, <2>2, <2>3, AppendProperties DEF TypeOK
  <2>5. p \in {"issue", "request"}
    OBVIOUS
  <2> HIDE DEF p
  <2>6. user' \in [Users -> UserType] /\ user'[u].pc = p /\ user'[u].bucket = b
    <3>1. user' = [user EXCEPT ![u].pc = p]
      BY <2>3
    <3> QED
      BY <1>1, <2>5, <3>1, UserGoes
  <2>7. TypeOK'
    BY <1>1, <2>3, <2>4, <2>6 DEF TypeOK, bucketVars, bounds
  <2>8. \A v \in Users \ {u} : user'[v] = user[v]
    BY <1>1, <2>3
  <2>9. cv[b] = u
    BY <1>1, <1>6 DEF AddGlobalQuery, Inside
  <2>10. Inside'
    BY <1>1, <2>1, <2>3, <2>5, <2>6, <2>8, <2>9 DEF Inside, bucketVars
  <2> QED
    BY <2>7, <2>10 DEF Inv
<1>8. CASE Request(u)
  <2> DEFINE s == Last(outstanding[b])
  <2>1. outstanding[b] # <<>>
    BY <1>1, <1>8 DEF Request, Inside
  <2>2. s \in Switches
    BY <1>2, <2>1, LenProperties, EmptySeq, ElementOfSeq DEF Last
  <2>3. /\ requests' = requests \cup {s}
        /\ user' = [user EXCEPT ![u] = [user[u] EXCEPT !.pc = "issue"]]
        /\ UNCHANGED <<bucketVars, globalLocked, globalQueries, asyncore, installer, bounds>>
    BY <1>8 DEF Request
  <2> HIDE DEF s
  <2>4. requests' \in SUBSET Switches
    BY <1>1, <2>2, <2>3 DEF TypeOK
  <2>5. user' \in [Users -> UserType] /\ user'[u].pc = "issue" /\ user'[u].bucket = b
    BY <1>1, <2>3, UserMoves
  <2>6. TypeOK'
    BY <1>1, <2>3, <2>4, <2>5 DEF TypeOK, bucketVars, bounds
  <2>7. \A v \in Users \ {u} : user'[v] = user[v]
    BY <1>1, <2>3
  <2>8. cv[b] = u
    BY <1>1, <1>8 DEF Request, Inside
  <2>9. Inside'
    BY <1>1, <2>3, <2>5, <2>7, <2>8 DEF Inside, bucketVars
  <2> QED
    BY <2>6, <2>9 DEF Inv
<1>9. CASE Report(u)
  <2>1. /\ Called(b) \in [Users -> UserType]
        /\ \A v \in Users : /\ Called(b)[v].bucket = user[v].bucket
                            /\ Called(b)[v].pc \in {user[v].pc, "idle"}
    BY <1>1, CalledType
  <2>2. /\ user' = [Called(b) EXCEPT ![u] = [Called(b)[u] EXCEPT !.pc = "idle"]]
        /\ counted' = [counted EXCEPT ![b] = {}]
        /\ UNCHANGED <<cv, waitSet, inUpdate, matches, pullFun, outstanding,
                       globalVars, asyncore, installer, bounds>>
    BY <1>9, <2>1 DEF Report
  <2>3. user' \in [Users -> UserType] /\ user'[u].pc = "idle"
    BY <2>1, <2>2, UserMoves
  <2>4. \A v \in Users \ {u} : user'[v] = Called(b)[v]
    BY <2>1, <2>2
  <2>5. counted' \in [Buckets -> SUBSET Switches]
    BY <1>1, <2>2 DEF TypeOK
  <2>6. TypeOK'
    BY <1>1, <2>2, <2>3, <2>5 DEF TypeOK, globalVars, bounds
  <2>7. Inside'
    BY <1>1, <2>1, <2>2, <2>3, <2>4 DEF Inside
  <2> QED
    BY <2>6, <2>7 DEF Inv
<1>7. CASE LeavePull(u)
  <2>1. user' = [user EXCEPT ![u] = [user[u] EXCEPT !.pc = "await"]]
    BY <1>7 DEF LeavePull
  <2>2. user' \in [Users -> UserType] /\ user'[u].pc = "await"
    BY <1>1, <2>1, UserMoves
  <2>3. /\ cv' \in [Buckets -> Users \cup {NoOne}] /\ cv'[b] = NoOne
        /\ \A c \in Buckets \ {b} : cv'[c] = cv[c]
    BY <1>1, <1>2, <1>7 DEF LeavePull, TypeOK
  <2>4. TypeOK'
    BY <1>1, <1>7, <2>2, <2>3 DEF LeavePull, TypeOK, globalVars, bounds
  <2>5. \A v \in Users \ {u} : user'[v] = user[v] /\ user[v].bucket \in Buckets
    BY <1>1, <2>1, UserFields
  <2>6. cv[b] = u
    BY <1>1, <1>7 DEF LeavePull, Inside
  <2>7. Inside'
    BY <1>1, <1>7, <2>2, <2>3, <2>5, <2>6 DEF LeavePull, Inside
  <2> QED
    BY <2>4, <2>7 DEF Inv
<1> QED
  BY <1>3, <1>4, <1>5, <1>6, <1>7, <1>8, <1>9 DEF UserStep

\* handle_flow_stats_reply
LEMMA AsyncoreInv ==
    ASSUME Inv, AsyncoreStep
    PROVE  Inv'
<1>1. TypeOK /\ Inside /\ asyncore \in AsyncoreType
  BY DEF Inv, TypeOK
<1>2. CASE \E s \in Switches : Reply(s)
  <2>1. PICK s \in Switches : Reply(s)
    BY <1>2
  <2>2. requests' \in SUBSET Switches
    BY <1>1, <2>1 DEF Reply, TypeOK
  <2>3. asyncore' \in AsyncoreType /\ globalLocked' \in BOOLEAN
    <3>1. globalQueries[s] \in Seq(Buckets) /\ globalLocked \in BOOLEAN
      BY <1>1 DEF TypeOK
    <3>2. [pc |-> "cv", switch |-> s, todo |-> globalQueries[s]] \in AsyncoreType
      BY <3>1 DEF AsyncoreType
    <3>3. asyncore' \in {asyncore, [pc |-> "cv", switch |-> s, todo |-> globalQueries[s]]}
          /\ globalLocked' \in {globalLocked, TRUE}
      BY <2>1 DEF Reply
    <3> QED
      BY <1>1, <3>1, <3>2, <3>3
  <2>4. TypeOK'
    BY <1>1, <2>1, <2>2, <2>3 DEF Reply, TypeOK, bucketVars, bounds
  <2>5. Inside'
    BY <1>1, <2>1 DEF Reply, Inside, bucketVars
  <2> QED
    BY <2>4, <2>5 DEF Inv
<1>3. CASE HandleReply
  <2> DEFINE b == Head(asyncore.todo)
             s == asyncore.switch
  <2>1. asyncore.todo \in Seq(Buckets) /\ s \in Switches
    BY <1>1, <1>3, AsyncoreFields DEF HandleReply
  <2>2. b \in Buckets
    BY <1>3, <2>1, HeadTailProperties DEF HandleReply
  <2>3. CASE Wait("asyncore", b)
    <3>1. waitSet' \in [Buckets -> SUBSET (Users \cup {"asyncore"})]
      BY <1>1, <2>2, <2>3 DEF Wait, TypeOK
    <3>2. TypeOK'
      BY <1>1, <2>3, <3>1 DEF Wait, TypeOK, globalVars, bounds
    <3>3. Inside'
      BY <1>1, <2>3 DEF Wait, Inside
    <3> QED
      BY <3>2, <3>3 DEF Inv
  <2>4. CASE /\ counted' = [counted EXCEPT ![b] =
                    IF s \in Range(outstanding[b]) /\ Relevant(b, s) THEN {s} ELSE {}]
             /\ outstanding' = [outstanding EXCEPT ![b] = Removed(@, s)]
             /\ asyncore' = [asyncore EXCEPT !.pc = "callback"]
             /\ UNCHANGED <<cv, waitSet, inUpdate, matches, pullFun, globalVars,
                            user, installer, bounds>>
    <3>1. counted' \in [Buckets -> SUBSET Switches]
      BY <1>1, <2>1, <2>2, <2>4 DEF TypeOK
    <3>2. Removed(outstanding[b], s) \in Seq(Switches)
      BY <1>1, <2>2, RemovedType DEF TypeOK
    <3>3. /\ outstanding' \in [Buckets -> Seq(Switches)]
          /\ \A c \in Buckets \ {b} : outstanding'[c] = outstanding[c]
      BY <1>1, <2>2, <2>4, <3>2 DEF TypeOK
    <3>4. asyncore' \in AsyncoreType
      <4>1. /\ asyncore \in [pc : {"cv", "callback"}, switch : Switches, todo : Seq(Buckets)]
            /\ asyncore.todo # <<>>
        BY <1>1, <1>3, AsyncoreFields DEF HandleReply
      <4> QED
        BY <2>4, <4>1 DEF AsyncoreType
    <3>5. TypeOK'
      BY <1>1, <2>4, <3>1, <3>3, <3>4 DEF TypeOK, globalVars, bounds
    <3>6. \A u \in Users : user[u].bucket \in Buckets
      BY <1>1, UserFields DEF TypeOK
    <3>7. \A u \in Users : user[u].pc \in {"global", "request"} => user[u].bucket # b
      BY <1>1, <1>3, ThreadAssumption DEF HandleReply, CanEnter, Inside
    <3>8. Inside'
      BY <1>1, <2>4, <3>3, <3>6, <3>7 DEF Inside
    <3> QED
      BY <3>5, <3>8 DEF Inv
  <2> QED
    BY <1>3, <2>3, <2>4 DEF HandleReply
<1>4. CASE Callback
  <2>1. /\ asyncore \in [pc : {"cv", "callback"}, switch : Switches, todo : Seq(Buckets)]
        /\ asyncore.todo \in Seq(Buckets) /\ asyncore.todo # <<>>
    BY <1>1, <1>4, AsyncoreFields DEF Callback
  <2>2. Tail(asyncore.todo) \in Seq(Buckets)
    BY <2>1, HeadTailProperties
  <2>3. asyncore' \in AsyncoreType
    BY <1>4, <2>1, <2>2 DEF Callback, AsyncoreType
  <2>4. /\ user' \in {user, Called(Head(asyncore.todo))} /\ user \in [Users -> UserType]
    BY <1>1, <1>4 DEF Callback, TypeOK
  <2>5. /\ user' \in [Users -> UserType]
        /\ \A u \in Users : user'[u] = user[u] \/ user'[u].pc = "idle"
    BY <2>4, CalledType
  <2>6. TypeOK'
    BY <1>1, <1>4, <2>3, <2>5 DEF Callback, TypeOK, bucketVars, globalVars, bounds
  <2>7. Inside'
    BY <1>1, <1>4, <2>5 DEF Callback, Inside, bucketVars
  <2> QED
    BY <2>6, <2>7 DEF Inv
<1>5. CASE FinishReply
  <2>1. globalQueries' \in [Switches -> Seq(Buckets)]
    BY <1>1, <1>5, EmptySeq DEF FinishReply, TypeOK
  <2>2. asyncore' \in AsyncoreType
    BY <1>5 DEF FinishReply, AsyncoreType
  <2>3. TypeOK'
    BY <1>1, <1>5, <2>1, <2>2 DEF FinishReply, TypeOK, bucketVars, bounds
  <2>4. Inside'
    BY <1>1, <1>5 DEF FinishReply, Inside, bucketVars
  <2> QED
    BY <2>3, <2>4 DEF Inv
<1> QED
  BY <1>2, <1>3, <1>4, <1>5 DEF AsyncoreStep

\* bookkeep_buckets
LEMMA InstallInv ==
    ASSUME Inv, NEW c \in Classifiers, Install(c)
    PROVE  Inv'
<1>1. TypeOK /\ Inside
  BY DEF Inv
<1>2. installer' \in InstallerType
  BY ClassifiersAssumption DEF Install, InstallerType
<1>3. updates' \in 0 .. MaxUpdates
  BY <1>1, BoundsAssumption DEF Install, TypeOK
<1>4. TypeOK'
  BY <1>1, <1>2, <1>3 DEF Install, TypeOK, bucketVars, globalVars
<1>5. Inside'
  BY <1>1 DEF Install, Inside, bucketVars
<1> QED
  BY <1>4, <1>5 DEF Inv

LEMMA InstallerInv ==
    ASSUME Inv, InstallerStep
    PROVE  Inv'
<1>1. TypeOK /\ Inside /\ installer \in InstallerType
  BY DEF Inv, TypeOK
<1>2. \A u \in Users : user[u].bucket \in Buckets
  BY <1>1, UserFields DEF TypeOK
<1>3. ASSUME NEW b \in Buckets, StartUpdate(b)
      PROVE  Inv'
  <2>1. installer \in [pc : {"start", "finish"}, new : Classifiers, todo : SUBSET Buckets]
    BY <1>1, <1>3, InstallerFields DEF StartUpdate
  <2>2. installer' \in InstallerType
    BY <1>3, <2>1 DEF StartUpdate, InstallerType
  <2>3. /\ inUpdate' \in [Buckets -> BOOLEAN] /\ matches' \in [Buckets -> SUBSET Matches]
        /\ pullFun' \in [Buckets -> BOOLEAN] /\ outstanding' \in [Buckets -> Seq(Switches)]
    BY <1>1, <1>3, EmptySeq DEF StartUpdate, TypeOK
  <2>4. TypeOK'
    BY <1>1, <1>3, <2>2, <2>3 DEF StartUpdate, TypeOK, globalVars, bounds
  <2>5. \A d \in Buckets \ {b} : outstanding'[d] = outstanding[d] /\ inUpdate'[d] = inUpdate[d]
    BY <1>1, <1>3 DEF StartUpdate, TypeOK
  <2>6. cv' = cv /\ user' = user /\ cv[b] = NoOne
    BY <1>3 DEF StartUpdate
  <2>7. \A u \in Users : user[u].pc \in {"global", "request"} => user[u].bucket # b
    BY <1>1, <2>6, ThreadAssumption DEF Inside
  <2>8. Inside'
    BY <1>1, <1>2, <2>5, <2>6, <2>7 DEF Inside
  <2> QED
    BY <2>4, <2>8 DEF Inv
<1>4. ASSUME NEW b \in Buckets, FinishUpdate(b)
      PROVE  Inv'
  <2>1. installer \in [pc : {"start", "finish"}, new : Classifiers, todo : SUBSET Buckets]
    BY <1>1, <1>4, InstallerFields DEF FinishUpdate
  <2>2. installer' \in InstallerType
    BY <1>4, <2>1 DEF FinishUpdate, InstallerType
  <2>3. /\ inUpdate' \in [Buckets -> BOOLEAN]
        /\ waitSet' \in [Buckets -> SUBSET (Users \cup {"asyncore"})]
    BY <1>1, <1>4 DEF FinishUpdate, TypeOK
  <2>4. TypeOK'
    BY <1>1, <1>4, <2>2, <2>3 DEF FinishUpdate, TypeOK, globalVars, bounds
  <2>5. \A d \in Buckets : inUpdate'[d] => inUpdate[d]
    BY <1>1, <1>4 DEF FinishUpdate, TypeOK
  <2>6. Inside'
    BY <1>1, <1>4, <2>5 DEF FinishUpdate, Inside
  <2> QED
    BY <2>4, <2>6 DEF Inv
<1>5. CASE HookBuckets
  <2>1. installer \in [pc : {"start", "finish"}, new : Classifiers, todo : SUBSET Buckets]
    BY <1>1, <1>5, InstallerFields DEF HookBuckets
  <2>2. /\ DOMAIN installer.new \subseteq Buckets
        /\ \A b \in DOMAIN installer.new : installer.new[b] \subseteq Matches
    BY <2>1, ClassifiersAssumption
  <2>3. installer' \in InstallerType
    BY <1>5, <2>1, <2>2 DEF HookBuckets, InstallerType
  <2>4. matches' \in [Buckets -> SUBSET Matches]
    BY <1>1, <1>5, <2>2 DEF HookBuckets, TypeOK
  <2>5. pullFun' \in [Buckets -> BOOLEAN]
    BY <1>1, <1>5 DEF HookBuckets, TypeOK
  <2>6. TypeOK'
    BY <1>1, <1>5, <2>3, <2>4, <2>5 DEF HookBuckets, TypeOK, globalVars, bounds
  <2>7. Inside'
    BY <1>1, <1>5 DEF HookBuckets, Inside
  <2> QED
    BY <2>6, <2>7 DEF Inv
<1> QED
  BY <1>3, <1>4, <1>5 DEF InstallerStep

LEMMA InvNext == Inv /\ [Next]_vars => Inv'
<1> SUFFICES ASSUME Inv, [Next]_vars PROVE Inv'
  OBVIOUS
<1>1. CASE \E u \in Users : PullStats(u) \/ UserStep(u)
  BY <1>1, UserInv
<1>2. CASE AsyncoreStep
  BY <1>2, AsyncoreInv
<1>3. CASE \E s \in Switches : LoseRequest(s)
  <2>1. PICK s \in Switches : LoseRequest(s)
    BY <1>3
  <2>2. lost' \in SUBSET Switches /\ requests' \in SUBSET Switches
    BY <2>1 DEF LoseRequest, Inv, TypeOK
  <2>3. TypeOK'
    BY <2>1, <2>2 DEF LoseRequest, Inv, TypeOK, bucketVars
  <2>4. Inside'
    BY <2>1 DEF LoseRequest, Inv, Inside, bucketVars
  <2> QED
    BY <2>3, <2>4 DEF Inv
<1>4. CASE \E c \in Classifiers : Install(c)
  BY <1>4, InstallInv
<1>5. CASE InstallerStep
  BY <1>5, InstallerInv
<1>6. CASE UNCHANGED vars
  BY <1>6 DEF vars, bucketVars, globalVars, bounds, Inv, TypeOK, Inside
<1> QED
  BY <1>1, <1>2, <1>3, <1>4, <1>5, <1>6 DEF Next

\* Every variable has its type.
THEOREM TypeCorrect == Spec => []TypeOK
<1>1. Inv => TypeOK
  BY DEF Inv
<1> QED
  BY <1>1, InvInit, InvNext, PTL DEF Spec
-----------------------------------------------------------------------------
(* The runtime's list of a switch and the request to it.  The lock of the
   lists is held exactly while an answer is handled, and a switch is asked by
   one user, or has one request on the way, or one answer being handled, or
   will never answer. *)
Apart(s) ==
    /\ \A u, v \in Asking(s) : u = v
    /\ s \in requests \cup lost => Asking(s) = {}
    /\ s \in requests => s \notin lost
    /\ globalLocked /\ asyncore.switch = s => s \notin requests \cup lost /\ Asking(s) = {}
Asked ==
    /\ globalLocked <=> asyncore.pc # "idle"
    /\ ListedIffAsked
    /\ \A s \in Switches : Apart(s)

AskedVars == <<globalLocked, asyncore, globalQueries, requests, lost>>

\* A step that leaves the users that are about to ask, and their queries.
SameUsers ==
    \A u \in Users :
        /\ user'[u].pc = "request" <=> user[u].pc = "request"
        /\ user[u].pc = "request" =>
                /\ user'[u].bucket = user[u].bucket
                /\ outstanding'[user[u].bucket] = outstanding[user[u].bucket]

LEMMA AskingStays == SameUsers => \A s \in Switches : Asking(s)' = Asking(s)
BY DEF Asking, SameUsers, Last

LEMMA AskedStays ==
    Asked /\ SameUsers /\ UNCHANGED AskedVars => Asked'
BY AskingStays DEF Asked, AskedVars, ListedIffAsked, Apart

LEMMA AskedInit == Init => Asked
BY DEF Init, Asked, ListedIffAsked, Apart, Asking

\* A bucket that nobody is in is no bucket of a user about to ask.
LEMMA OthersAsk ==
    ASSUME Inv, NEW b \in Buckets, user' = user,
           cv[b] = NoOne, \A c \in Buckets \ {b} : outstanding'[c] = outstanding[c]
    PROVE  SameUsers
<1>1. \A u \in Users : user[u].bucket \in Buckets /\ u # NoOne
  BY UserFields, ThreadAssumption DEF Inv, TypeOK
<1>2. \A u \in Users : user[u].pc = "request" => user[u].bucket # b
  BY <1>1 DEF Inv, Inside
<1> QED
  BY <1>1, <1>2 DEF SameUsers

LEMMA AskedNext == Inv /\ Asked /\ [Next]_vars => Asked'
<1> SUFFICES ASSUME Inv, Asked, [Next]_vars PROVE Asked'
  OBVIOUS
<1>1. TypeOK /\ Inside /\ user \in [Users -> UserType]
  BY DEF Inv, TypeOK
<1>2. \A u \in Users : user[u].bucket \in Buckets
  BY <1>1, UserFields
<1>3. ASSUME NEW u \in Users,
             PullStats(u) \/ EnterPull(u) \/ Report(u) \/ Issue(u) \/ LeavePull(u)
      PROVE  Asked'
  <2> DEFINE b == user[u].bucket
  <2>1. UNCHANGED AskedVars
    BY <1>3 DEF AskedVars, PullStats, EnterPull, Report, Wait, Issue, LeavePull,
                globalVars, bounds
  <2>2. ASSUME PullStats(u) PROVE SameUsers
    <3>1. /\ user[u].pc \in {"idle", "await"} /\ outstanding' = outstanding
          /\ user' = [user EXCEPT ![u].pc = "cv"]
      BY <2>2 DEF PullStats, bucketVars
    <3> QED
      BY <1>1, <3>1, UserGoes DEF SameUsers
  <2>3. ASSUME EnterPull(u) PROVE SameUsers
    <3>1. /\ \A v \in Users \ {u} : user'[v] = user[v]
          /\ user[u].pc = "cv" /\ user'[u].pc # "request"
      <4>1. CASE user' = user
        BY <2>3, <4>1 DEF EnterPull
      <4>2. CASE user' = [user EXCEPT ![u].pc = "report"]
        BY <1>1, <2>3, <4>2, UserGoes DEF EnterPull
      <4>3. CASE user' = [user EXCEPT ![u].pc = "issue", ![u].todo = SwitchList(b)]
        BY <1>1, <2>3, <4>3 DEF EnterPull, UserType
      <4> QED
        BY <2>3, <4>1, <4>2, <4>3 DEF EnterPull, Wait
    <3>2. cv[b] = NoOne /\ \A c \in Buckets \ {b} : outstanding'[c] = outstanding[c]
      BY <1>1, <2>3 DEF EnterPull, CanEnter, Wait, TypeOK, bucketVars
    <3>3. \A v \in Users : user[v].pc = "request" => user[v].bucket # b
      BY <1>1, <1>2, <3>2, ThreadAssumption DEF Inside
    <3> QED
      BY <1>2, <3>1, <3>2, <3>3 DEF SameUsers
  <2>4. ASSUME Report(u) PROVE SameUsers
    <3>1. \A v \in Users : /\ Called(b)[v].pc \in {user[v].pc, "idle"}
                           /\ Called(b)[v] = user[v] \/ user[v].pc = "await"
      BY <1>1, CalledType
    <3>2. /\ user[u].pc = "report" /\ user' = [Called(b) EXCEPT ![u].pc = "idle"]
          /\ outstanding' = outstanding
      BY <2>4 DEF Report
    <3>3. \A v \in Users \ {u} : user'[v] = Called(b)[v]
      BY <3>2
    <3>4. user'[u].pc # "request"
      <4>1. Called(b) \in [Users -> UserType]
        BY <1>1, CalledType
      <4>2. user' = [Called(b) EXCEPT ![u] = [Called(b)[u] EXCEPT !.pc = "idle"]]
        BY <3>2
      <4> QED
        BY <4>1, <4>2, UserMoves
    <3> QED
      BY <3>1, <3>2, <3>3, <3>4 DEF SameUsers
  <2>5. ASSUME Issue(u) PROVE SameUsers
    <3>1. /\ \A v \in Users \ {u} : user'[v] = user[v]
          /\ user[u].pc = "issue" /\ user'[u].pc # "request"
          /\ \A c \in Buckets \ {b} : outstanding'[c] = outstanding[c]
      BY <1>1, <2>5 DEF Issue, TypeOK, UserType
    <3>2. \A v \in Users \ {u} : user[v].pc = "request" => user[v].bucket # b
      BY <1>1, <3>1 DEF Inside
    <3> QED
      BY <1>2, <3>1, <3>2 DEF SameUsers
  <2>6. ASSUME LeavePull(u) PROVE SameUsers
    <3>1. /\ user[u].pc = "issue" /\ outstanding' = outstanding
          /\ user' = [user EXCEPT ![u].pc = "await"]
      BY <2>6 DEF LeavePull
    <3> QED
      BY <1>1, <3>1, UserGoes DEF SameUsers
  <2> QED
    BY <1>3, <2>1, <2>2, <2>3, <2>4, <2>5, <2>6, AskedStays
<1>4. ASSUME NEW u \in Users, AddGlobalQuery(u) \/ Request(u)
      PROVE  Asked'
  <2> DEFINE b == user[u].bucket
  <2>1. b \in Buckets /\ outstanding[b] \in Seq(Switches) /\ outstanding[b] # <<>>
    BY <1>1, <1>2, <1>4 DEF AddGlobalQuery, Request, TypeOK, Inside
  <2>2. PICK s \in Switches : s = Last(outstanding[b])
    BY <2>1, LenProperties, EmptySeq, ElementOfSeq DEF Last
  <2>3. /\ asyncore' = asyncore /\ globalLocked' = globalLocked /\ lost' = lost
        /\ outstanding' = outstanding
    BY <1>4 DEF AddGlobalQuery, Request, bucketVars, bounds
  <2>4. \A v \in Users \ {u} : user'[v] = user[v]
    BY <1>1, <1>4 DEF AddGlobalQuery, Request
  <2>5. user'[u].bucket = b
    <3>1. \/ user' = [user EXCEPT ![u].pc = "issue"]
          \/ user' = [user EXCEPT ![u].pc = "request"]
      BY <1>4 DEF AddGlobalQuery, Request
    <3> QED
      BY <1>1, <3>1, UserGoes
  <2>6. \A x \in Switches \ {s} : Asking(x)' = Asking(x)
    <3>1. ASSUME NEW x \in Switches \ {s}, NEW v \in Users
          PROVE  v \in Asking(x)' <=> v \in Asking(x)
      <4>1. CASE v = u
        BY <2>2, <2>3, <2>5, <4>1 DEF Asking, Last
      <4>2. CASE v # u
        BY <2>3, <2>4, <4>2 DEF Asking, Last
      <4> QED
        BY <4>1, <4>2
    <3> QED
      BY <3>1 DEF Asking
  <2>7. CASE AddGlobalQuery(u) /\ globalQueries[s] = <<>>
    <3>1. /\ ~globalLocked /\ requests' = requests
          /\ globalQueries' = [globalQueries EXCEPT ![s] = Append(@, b)]
          /\ user' = [user EXCEPT ![u].pc = "request"]
      BY <2>2, <2>7 DEF AddGlobalQuery
    <3>2. Asking(s) = {} /\ s \notin requests /\ s \notin lost
      BY <2>2, <2>7 DEF Asked, ListedIffAsked
    <3>3. user'[u].pc = "request"
      BY <1>1, <3>1, UserGoes
    <3>4. Asking(s)' = {u}
      <4>1. ASSUME NEW v \in Users PROVE v \in Asking(s)' <=> v = u
        BY <2>2, <2>3, <2>4, <2>5, <3>2, <3>3 DEF Asking, Last
      <4> QED
        BY <4>1 DEF Asking
    <3>5. /\ globalQueries'[s] # <<>>
          /\ \A x \in Switches \ {s} : globalQueries'[x] = globalQueries[x]
      <4>1. globalQueries[s] \in Seq(Buckets) /\ globalQueries \in [Switches -> Seq(Buckets)]
        BY <1>1, <2>2 DEF TypeOK
      <4>2. Append(globalQueries[s], b) # <<>>
        BY <2>1, <4>1, AppendProperties
      <4> HIDE DEF b
      <4> QED
        BY <2>2, <3>1, <4>1, <4>2
    <3> QED
      BY <2>2, <2>3, <2>6, <3>1, <3>2, <3>4, <3>5 DEF Asked, ListedIffAsked, Apart
  <2>8. CASE AddGlobalQuery(u) /\ globalQueries[s] # <<>>
    <3>1. /\ requests' = requests
          /\ globalQueries' = [globalQueries EXCEPT ![s] = Append(@, b)]
          /\ user' = [user EXCEPT ![u].pc = "issue"]
          /\ user[u].pc = "global"
      BY <2>2, <2>8 DEF AddGlobalQuery
    <3>2. user'[u].pc = "issue"
      BY <1>1, <3>1, UserGoes
    <3>3. Asking(s)' = Asking(s)
      <4>1. ASSUME NEW v \in Users PROVE v \in Asking(s)' <=> v \in Asking(s)
        BY <2>2, <2>3, <2>4, <3>1, <3>2 DEF Asking, Last
      <4> QED
        BY <4>1 DEF Asking
    <3>4. /\ globalQueries'[s] # <<>>
          /\ \A x \in Switches \ {s} : globalQueries'[x] = globalQueries[x]
      <4>1. globalQueries[s] \in Seq(Buckets) /\ globalQueries \in [Switches -> Seq(Buckets)]
        BY <1>1, <2>2 DEF TypeOK
      <4>2. Append(globalQueries[s], b) # <<>>
        BY <2>1, <4>1, AppendProperties
      <4> HIDE DEF b
      <4> QED
        BY <2>2, <3>1, <4>1, <4>2
    <3> QED
      BY <2>2, <2>3, <2>6, <2>8, <3>1, <3>3, <3>4 DEF Asked, ListedIffAsked, Apart
  <2>9. CASE Request(u)
    <3>1. /\ globalQueries' = globalQueries /\ requests' = requests \cup {s}
          /\ user' = [user EXCEPT ![u].pc = "issue"]
          /\ user[u].pc = "request"
      BY <2>2, <2>9 DEF Request
    <3>2. u \in Asking(s)
      BY <2>2, <3>1 DEF Asking
    <3>3. /\ \A v \in Asking(s) : v = u
          /\ s \notin requests /\ s \notin lost /\ ~(globalLocked /\ asyncore.switch = s)
      BY <2>2, <3>2 DEF Asked, Apart
    <3>4. user'[u].pc = "issue"
      BY <1>1, <3>1, UserGoes
    <3>5. Asking(s)' = {}
      <4>1. ASSUME NEW v \in Users PROVE v \notin Asking(s)'
        BY <2>2, <2>3, <2>4, <3>3, <3>4 DEF Asking, Last
      <4> QED
        BY <4>1 DEF Asking
    <3>6. globalQueries[s] # <<>>
      BY <2>2, <3>2 DEF Asked, ListedIffAsked
    <3> QED
      BY <2>2, <2>3, <2>6, <3>1, <3>3, <3>5, <3>6 DEF Asked, ListedIffAsked, Apart
  <2> QED
    BY <1>4, <2>7, <2>8, <2>9
<1>5. ASSUME NEW s \in Switches, Reply(s)
      PROVE  Asked'
  <2>1. /\ asyncore.pc = "idle" /\ s \in requests /\ requests' = requests \ {s}
        /\ UNCHANGED <<globalQueries, lost>> /\ ~globalLocked
        /\ UNCHANGED <<user, outstanding>>
    BY <1>5 DEF Reply, bounds, bucketVars, Asked
  <2>2. globalQueries[s] # <<>>
    BY <2>1 DEF Asked, ListedIffAsked
  <2>3. globalLocked' /\ asyncore' = [pc |-> "cv", switch |-> s, todo |-> globalQueries[s]]
    BY <1>5, <2>2 DEF Reply
  <2>4. asyncore'.pc = "cv" /\ asyncore'.switch = s
    BY <2>3
  <2>5. \A x \in Switches : Asking(x)' = Asking(x)
    BY <2>1, AskingStays DEF SameUsers
  <2>6. Asking(s) = {} /\ s \notin lost
    BY <2>1 DEF Asked, Apart
  <2> QED
    BY <2>1, <2>2, <2>3, <2>4, <2>5, <2>6 DEF Asked, ListedIffAsked, Apart
<1>6. CASE HandleReply \/ Callback
  <2>1. asyncore \in [pc : {"cv", "callback"}, switch : Switches, todo : Seq(Buckets)]
    BY <1>1, <1>6, AsyncoreFields DEF HandleReply, Callback, TypeOK
  <2>2. UNCHANGED <<globalLocked, globalQueries, requests, lost>>
    BY <1>6 DEF HandleReply, Wait, Callback, globalVars, bounds
  <2>3. asyncore'.pc # "idle" /\ asyncore'.switch = asyncore.switch
    BY <1>6, <2>1 DEF HandleReply, Wait, Callback
  <2>4. SameUsers
    <3>1. CASE HandleReply
      <4> DEFINE b == Head(asyncore.todo)
      <4>1. b \in Buckets /\ cv[b] = NoOne
        BY <2>1, <3>1, HeadTailProperties DEF HandleReply, CanEnter
      <4>2. user' = user /\ \A c \in Buckets \ {b} : outstanding'[c] = outstanding[c]
        BY <1>1, <3>1 DEF HandleReply, Wait, TypeOK
      <4> QED
        BY <4>1, <4>2, OthersAsk
    <3>2. CASE Callback
      <4> DEFINE b == Head(asyncore.todo)
      <4>1. user' \in {user, Called(b)} /\ outstanding' = outstanding
        BY <3>2 DEF Callback, bucketVars
      <4> QED
        BY <1>1, <4>1, CalledType DEF SameUsers
    <3> QED
      BY <1>6, <3>1, <3>2
  <2>5. \A x \in Switches : Asking(x)' = Asking(x)
    BY <2>4, AskingStays
  <2> QED
    BY <2>1, <2>2, <2>3, <2>5 DEF Asked, ListedIffAsked, Apart
<1>7. CASE FinishReply
  <2>1. asyncore.switch \in Switches /\ globalLocked
    BY <1>1, <1>7, AsyncoreFields DEF FinishReply, TypeOK, Asked
  <2>2. /\ ~globalLocked' /\ asyncore'.pc = "idle" /\ UNCHANGED <<requests, lost>>
        /\ globalQueries' = [globalQueries EXCEPT ![asyncore.switch] = <<>>]
        /\ UNCHANGED <<user, outstanding>>
    BY <1>7 DEF FinishReply, bounds, bucketVars
  <2>3. /\ globalQueries'[asyncore.switch] = <<>>
        /\ \A x \in Switches \ {asyncore.switch} : globalQueries'[x] = globalQueries[x]
    BY <1>1, <2>1, <2>2 DEF TypeOK
  <2>4. \A x \in Switches : Asking(x)' = Asking(x)
    BY <2>2, AskingStays DEF SameUsers
  <2> QED
    BY <2>1, <2>2, <2>3, <2>4 DEF Asked, ListedIffAsked, Apart
<1>8. ASSUME NEW s \in Switches, LoseRequest(s)
      PROVE  Asked'
  <2>1. /\ s \in requests /\ requests' = requests \ {s} /\ lost' = lost \cup {s}
        /\ UNCHANGED <<globalLocked, globalQueries, asyncore, user, outstanding>>
    BY <1>8 DEF LoseRequest, bucketVars
  <2>2. \A x \in Switches : Asking(x)' = Asking(x)
    BY <2>1, AskingStays DEF SameUsers
  <2> QED
    BY <2>1, <2>2 DEF Asked, ListedIffAsked, Apart
<1>9. CASE (\E c \in Classifiers : Install(c)) \/ HookBuckets
           \/ (\E b \in Buckets : FinishUpdate(b)) \/ UNCHANGED vars
  <2>1. UNCHANGED AskedVars /\ SameUsers
    BY <1>9 DEF AskedVars, Install, HookBuckets, FinishUpdate,
                vars, globalVars, bucketVars, bounds, SameUsers
  <2> QED
    BY <2>1, AskedStays
<1>10. ASSUME NEW b \in Buckets, StartUpdate(b)
       PROVE  Asked'
  <2>1. /\ UNCHANGED AskedVars /\ user' = user /\ cv[b] = NoOne
        /\ \A c \in Buckets \ {b} : outstanding'[c] = outstanding[c]
    BY <1>1, <1>10 DEF StartUpdate, TypeOK, AskedVars, globalVars, bounds
  <2> QED
    BY <2>1, AskedStays, OthersAsk
<1> QED
  BY <1>3, <1>4, <1>5, <1>6, <1>7, <1>8, <1>9, <1>10
     DEF Next, UserStep, AsyncoreStep, InstallerStep

\* A switch has buckets on its list exactly when a user is about to ask it, it
\* is being asked, its answer is being handled, or its request was lost.
THEOREM ListsAreAsked == Spec => []ListedIffAsked
<1>1. Asked => ListedIffAsked
  BY DEF Asked
<1> QED
  BY <1>1, InvInit, InvNext, AskedInit, AskedNext, PTL DEF Spec
-----------------------------------------------------------------------------
(* How often something stands in a list. *)
Places(x, seq) == {i \in DOMAIN seq : seq[i] = x}

LEMMA PlacesFinite ==
    ASSUME NEW S, NEW seq \in Seq(S), NEW x
    PROVE  /\ IsFiniteSet(Places(x, seq)) /\ Places(x, seq) \subseteq 1 .. Len(seq)
           /\ Times(x, seq) = Cardinality(Places(x, seq)) /\ Times(x, seq) \in Nat
<1>1. DOMAIN seq = 1 .. Len(seq) /\ Len(seq) \in Nat
  BY LenProperties
<1>2. IsFiniteSet(1 .. Len(seq))
  BY <1>1, FS_Interval
<1>3. Places(x, seq) \subseteq 1 .. Len(seq)
  BY <1>1 DEF Places
<1>4. IsFiniteSet(Places(x, seq))
  BY <1>2, <1>3, FS_Subset
<1> QED
  BY <1>3, <1>4, FS_CardinalityType DEF Times, Places

LEMMA TimesEmpty == ASSUME NEW x PROVE Times(x, <<>>) = 0
<1>1. {i \in DOMAIN (<<>>) : (<<>>)[i] = x} = {}
  OBVIOUS
<1> QED
  BY <1>1, FS_EmptySet DEF Times

LEMMA TimesAppend ==
    ASSUME NEW S, NEW seq \in Seq(S), NEW e \in S, NEW x
    PROVE  Times(x, Append(seq, e)) = Times(x, seq) + (IF e = x THEN 1 ELSE 0)
<1> DEFINE app == Append(seq, e)
           n == Len(seq) + 1
<1>1. app \in Seq(S) /\ Len(app) = n /\ app[n] = e /\ \A i \in 1 .. Len(seq) : app[i] = seq[i]
  BY AppendProperties, LenProperties
<1>2. Len(seq) \in Nat /\ DOMAIN seq = 1 .. Len(seq) /\ DOMAIN app = 1 .. n
  BY <1>1, LenProperties
<1>3. Places(x, seq) \subseteq 1 .. Len(seq) /\ IsFiniteSet(Places(x, seq))
  BY PlacesFinite
<1>4. Times(x, app) = Cardinality(Places(x, app)) /\ Times(x, seq) = Cardinality(Places(x, seq))
  BY <1>1, PlacesFinite
<1> HIDE DEF app
<1>5. CASE e = x
  <2>1. Places(x, app) = Places(x, seq) \cup {n}
    BY <1>1, <1>2, <1>5 DEF Places
  <2>2. n \notin Places(x, seq)
    BY <1>2, <1>3
  <2> QED
    <3>1. Cardinality(Places(x, seq) \cup {n}) = Cardinality(Places(x, seq)) + 1
      BY <1>3, <2>2, FS_AddElement
    <3>2. Times(x, app) = Times(x, seq) + 1
      BY <1>4, <2>1, <3>1
    <3> QED
      BY <1>5, <3>2 DEF app
<1>6. CASE e # x
  <2>1. Places(x, app) = Places(x, seq)
    BY <1>1, <1>2, <1>6 DEF Places
  <2>2. Times(x, seq) \in Nat
    BY PlacesFinite
  <2> QED
    BY <1>4, <1>6, <2>1, <2>2 DEF app
<1> QED
  BY <1>5, <1>6

\* A list without its k-th element.
LEMMA TimesWithout ==
    ASSUME NEW S, NEW seq \in Seq(S), NEW k \in 1 .. Len(seq), NEW rest \in Seq(S),
           Len(rest) = Len(seq) - 1,
           \A i \in 1 .. Len(rest) : rest[i] = IF i < k THEN seq[i] ELSE seq[i + 1],
           NEW x
    PROVE  Times(x, rest) = Times(x, seq) - (IF seq[k] = x THEN 1 ELSE 0)
<1> DEFINE P == Places(x, seq) \ {k}
           Q == Places(x, rest)
           f == [i \in P |-> IF i < k THEN i ELSE i - 1]
<1>1. Len(seq) \in Nat /\ DOMAIN seq = 1 .. Len(seq) /\ DOMAIN rest = 1 .. Len(rest) /\ k \in Nat
  BY LenProperties
<1>2. /\ \A i \in P : i \in 1 .. Len(seq) /\ i # k /\ seq[i] = x
      /\ \A j \in Q : j \in 1 .. Len(rest) /\ rest[j] = x
  BY <1>1 DEF Places
<1>3. ASSUME NEW i \in P
      PROVE  f[i] \in Q
  <2>1. i \in 1 .. Len(seq) /\ i # k /\ seq[i] = x /\ i \in Nat
    BY <1>1, <1>2
  <2>2. CASE i < k
    <3>1. i \in 1 .. Len(rest) /\ rest[i] = seq[i]
      BY <1>1, <2>1, <2>2
    <3> QED
      BY <1>1, <2>1, <2>2, <3>1 DEF Places
  <2>3. CASE ~(i < k)
    <3>1. i - 1 \in 1 .. Len(rest) /\ ~(i - 1 < k) /\ (i - 1) + 1 = i
      BY <1>1, <2>1, <2>3
    <3>2. rest[i - 1] = seq[i]
      BY <3>1
    <3> QED
      BY <1>1, <2>1, <2>3, <3>1, <3>2 DEF Places
  <2> QED
    BY <2>2, <2>3
<1>4. ASSUME NEW i \in P, NEW j \in P, f[i] = f[j]
      PROVE  i = j
  <2>1. i \in Nat /\ j \in Nat /\ i # k /\ j # k
    BY <1>1, <1>2
  <2>2. f[i] = (IF i < k THEN i ELSE i - 1) /\ f[j] = (IF j < k THEN j ELSE j - 1)
    OBVIOUS
  <2> QED
    BY <1>1, <1>4, <2>1, <2>2
<1>5. ASSUME NEW j \in Q
      PROVE  \E i \in P : f[i] = j
  <2>1. j \in 1 .. Len(rest) /\ rest[j] = x /\ j \in Nat
    BY <1>1, <1>2
  <2>2. CASE j < k
    <3>1. j \in P
      BY <1>1, <2>1, <2>2 DEF Places
    <3> QED
      BY <2>2, <3>1
  <2>3. CASE ~(j < k)
    <3>1. j + 1 \in P /\ ~(j + 1 < k) /\ (j + 1) - 1 = j
      BY <1>1, <2>1, <2>3 DEF Places
    <3> QED
      BY <3>1
  <2> QED
    BY <2>2, <2>3
<1> HIDE DEF P, Q
<1>6. f \in Bijection(P, Q)
  <2>1. f \in [P -> Q]
    BY <1>3
  <2> HIDE DEF f
  <2> QED
    BY <1>4, <1>5, <2>1 DEF Bijection, Injection, Surjection, IsInjective
<1>7. IsFiniteSet(Places(x, seq)) /\ Times(x, seq) = Cardinality(Places(x, seq))
      /\ Times(x, rest) = Cardinality(Q) /\ Times(x, seq) \in Nat
  BY PlacesFinite DEF Q
<1>8. IsFiniteSet(P) /\ Cardinality(P) = Times(x, seq) - (IF seq[k] = x THEN 1 ELSE 0)
  <2>1. k \in Places(x, seq) <=> seq[k] = x
    BY <1>1 DEF Places
  <2> QED
    BY <1>7, <2>1, FS_RemoveElement DEF P
<1>9. Cardinality(Q) = Cardinality(P)
  BY <1>6, <1>8, FS_Bijection DEF ExistsBijection
<1> QED
  BY <1>7, <1>8, <1>9

LEMMA TimesTail ==
    ASSUME NEW S, NEW seq \in Seq(S), seq # <<>>, NEW x
    PROVE  Times(x, Tail(seq)) = Times(x, seq) - (IF Head(seq) = x THEN 1 ELSE 0)
<1> DEFINE rest == Tail(seq)
<1>1. /\ rest \in Seq(S) /\ Len(rest) = Len(seq) - 1
      /\ \A i \in 1 .. Len(rest) : rest[i] = seq[i + 1]
      /\ Head(seq) = seq[1]
  BY HeadTailProperties
<1>2. 1 \in 1 .. Len(seq) /\ Len(seq) \in Nat
  BY LenProperties, EmptySeq
<1> HIDE DEF rest
<1>3. \A i \in 1 .. Len(rest) : rest[i] = IF i < 1 THEN seq[i] ELSE seq[i + 1]
  BY <1>1, <1>2
<1>4. Times(x, rest) = Times(x, seq) - (IF seq[1] = x THEN 1 ELSE 0)
  BY <1>1, <1>2, <1>3, TimesWithout
<1> QED
  BY <1>1, <1>4 DEF rest

\* list.remove takes one of e away, if there is one.
LEMMA TimesRemoved ==
    ASSUME NEW S, NEW seq \in Seq(S), NEW e, NEW x
    PROVE  /\ e \in Range(seq) <=> Times(e, seq) # 0
           /\ Times(x, Removed(seq, e)) =
                Times(x, seq) - (IF e \in Range(seq) /\ e = x THEN 1 ELSE 0)
<1>1. Len(seq) \in Nat /\ DOMAIN seq = 1 .. Len(seq) /\ \A i \in 1 .. Len(seq) : seq[i] \in S
  BY LenProperties, ElementOfSeq
<1>2. Times(x, seq) \in Nat
  BY PlacesFinite
<1>3. e \in Range(seq) <=> Times(e, seq) # 0
  <2>1. e \in Range(seq) <=> Places(e, seq) # {}
    BY DEF Range, Places
  <2> QED
    BY <2>1, PlacesFinite, FS_EmptySet
<1>4. CASE e \notin Range(seq)
  BY <1>2, <1>3, <1>4 DEF Removed
<1>5. CASE e \in Range(seq)
  <2> DEFINE k == Place(seq, e)
             rest == Removed(seq, e)
             front == SubSeq(seq, 1, k - 1)
             back == SubSeq(seq, k + 1, Len(seq))
  <2>1. k \in 1 .. Len(seq) /\ seq[k] = e
    <3>1. {i \in DOMAIN seq : seq[i] = e} \in SUBSET Nat /\ {i \in DOMAIN seq : seq[i] = e} # {}
      BY <1>1, <1>5 DEF Range
    <3>2. \E i \in DOMAIN seq : seq[i] = e /\ \A j \in DOMAIN seq : seq[j] = e => i <= j
      BY <3>1, LeastNatural
    <3> QED
      BY <1>1, <3>2 DEF Place
  <2>2. rest = front \o back
    BY <1>5 DEF Removed, RemoveAt
  <2> HIDE DEF k, rest
  <2>3. /\ front \in Seq(S) /\ Len(front) = k - 1
        /\ \A i \in 1 .. k - 1 : front[i] = seq[i]
    <3>1. /\ front \in Seq(S) /\ Len(front) = k - 1
          /\ \A i \in 1 .. (k - 1) - 1 + 1 : front[i] = seq[1 + i - 1]
      BY <1>1, <2>1, SubSeqProperties
    <3> HIDE DEF front
    <3> QED
      BY <1>1, <2>1, <3>1
  <2>4. /\ back \in Seq(S) /\ Len(back) = Len(seq) - k
        /\ \A i \in 1 .. Len(seq) - k : back[i] = seq[k + i]
    <3>1. /\ back \in Seq(S) /\ Len(back) = IF k + 1 <= Len(seq) THEN Len(seq) - (k + 1) + 1 ELSE 0
          /\ \A i \in 1 .. Len(seq) - (k + 1) + 1 : back[i] = seq[(k + 1) + i - 1]
      BY <1>1, <2>1, SubSeqProperties
    <3> HIDE DEF back
    <3>2. Len(back) = Len(seq) - k
      <4>1. k \in Nat /\ 1 <= k /\ k <= Len(seq) /\ Len(seq) \in Nat
        BY <1>1, <2>1
      <4>2. CASE k + 1 <= Len(seq)
        <5>1. Len(back) = Len(seq) - (k + 1) + 1
          BY <3>1, <4>2
        <5> QED
          BY <4>1, <5>1
      <4>3. CASE ~(k + 1 <= Len(seq))
        <5>1. Len(back) = 0
          BY <3>1, <4>3
        <5> QED
          BY <4>1, <4>3, <5>1
      <4> QED
        BY <4>2, <4>3
    <3>3. ASSUME NEW i \in 1 .. Len(seq) - k
          PROVE  back[i] = seq[k + i]
      <4>1. i \in 1 .. Len(seq) - (k + 1) + 1 /\ (k + 1) + i - 1 = k + i
        BY <1>1, <2>1
      <4> QED
        BY <3>1, <4>1
    <3> QED
      BY <3>1, <3>2, <3>3
  <2> HIDE DEF front, back
  <2>5. /\ rest \in Seq(S) /\ Len(rest) = Len(front) + Len(back)
        /\ \A i \in 1 .. Len(front) + Len(back) :
             rest[i] = IF i <= Len(front) THEN front[i] ELSE back[i - Len(front)]
    BY <2>2, <2>3, <2>4, ConcatProperties
  <2>6. Len(rest) = Len(seq) - 1
    BY <1>1, <2>1, <2>3, <2>4, <2>5
  <2>7. \A i \in 1 .. Len(rest) : rest[i] = IF i < k THEN seq[i] ELSE seq[i + 1]
    <3> SUFFICES ASSUME NEW i \in 1 .. Len(rest)
                 PROVE  rest[i] = IF i < k THEN seq[i] ELSE seq[i + 1]
      OBVIOUS
    <3>1. CASE i < k
      BY <1>1, <2>1, <2>3, <2>4, <2>5, <2>6, <3>1
    <3>2. CASE ~(i < k)
      <4>1. i - (k - 1) \in 1 .. Len(seq) - k /\ k + (i - (k - 1)) = i + 1
        BY <1>1, <2>1, <2>6, <3>2
      <4>2. back[i - (k - 1)] = seq[i + 1]
        BY <2>4, <4>1
      <4> QED
        BY <1>1, <2>1, <2>3, <2>4, <2>5, <2>6, <3>2, <4>2
    <3> QED
      BY <3>1, <3>2
  <2>8. Times(x, rest) = Times(x, seq) - (IF seq[k] = x THEN 1 ELSE 0)
    <3>1. rest \in Seq(S) /\ k \in 1 .. Len(seq)
      BY <2>1, <2>5
    <3> QED
      BY <1>1, <2>6, <2>7, <3>1, TimesWithout
  <2> QED
    BY <1>3, <1>5, <2>1, <2>8 DEF rest
<1> QED
  BY <1>3, <1>4, <1>5
-----------------------------------------------------------------------------
(* Answers that come.  While the answer of a switch is handled its list stays
   whole, and what is still due to a bucket is what is left to do of it. *)
Left == IF asyncore.pc = "callback" THEN Tail(asyncore.todo) ELSE asyncore.todo
Due(b, s) ==
    IF globalLocked /\ asyncore.switch = s THEN Times(b, Left) ELSE Times(b, globalQueries[s])

Expected ==
    \A b \in Buckets, s \in Switches :
        /\ Times(s, outstanding[b]) <= Due(b, s) + Cardinality(Adding(b, s))
        /\ Due(b, s) <= Times(b, globalQueries[s])

\* All that Expected speaks of is a number.
LEMMA TimesTypes ==
    ASSUME TypeOK, NEW b \in Buckets, NEW s \in Switches
    PROVE  /\ outstanding[b] \in Seq(Switches) /\ globalQueries[s] \in Seq(Buckets)
           /\ Times(s, outstanding[b]) \in Nat /\ Times(b, globalQueries[s]) \in Nat
BY PlacesFinite DEF TypeOK

LEMMA DueType ==
    ASSUME TypeOK, Asked, NEW b \in Buckets, NEW s \in Switches
    PROVE  Due(b, s) \in Nat
<1>1. CASE globalLocked /\ asyncore.switch = s
  <2>1. asyncore.todo \in Seq(Buckets) /\ (asyncore.pc = "callback" => asyncore.todo # <<>>)
    BY <1>1, AsyncoreFields DEF TypeOK, Asked
  <2>2. Left \in Seq(Buckets)
    BY <2>1, HeadTailProperties DEF Left
  <2> QED
    BY <1>1, <2>2, PlacesFinite DEF Due
<1>2. CASE ~(globalLocked /\ asyncore.switch = s)
  BY <1>2, TimesTypes DEF Due
<1> QED
  BY <1>1, <1>2

\* The same after a step.
LEMMA DueTypeNext ==
    ASSUME TypeOK', Asked', NEW b \in Buckets, NEW s \in Switches
    PROVE  Due(b, s)' \in Nat
<1>1. CASE globalLocked' /\ asyncore'.switch = s
  <2>1. asyncore'.todo \in Seq(Buckets) /\ (asyncore'.pc = "callback" => asyncore'.todo # <<>>)
    BY <1>1 DEF TypeOK, Asked, AsyncoreType
  <2>2. Left' \in Seq(Buckets)
    BY <2>1, HeadTailProperties DEF Left
  <2> QED
    BY <1>1, <2>2, PlacesFinite DEF Due
<1>2. CASE ~(globalLocked' /\ asyncore'.switch = s)
  <2>1. globalQueries'[s] \in Seq(Buckets)
    BY DEF TypeOK
  <2>2. Times(b, globalQueries'[s]) \in Nat
    BY <2>1, PlacesFinite
  <2> QED
    BY <1>2, <2>2 DEF Due
<1> QED
  BY <1>1, <1>2

\* What a step does to what is due: a query adds to it, an answer takes off it,
\* and nothing else changes it.
LEMMA DueAtQuery ==
    ASSUME Inv, Asked, NEW u \in Users, AddGlobalQuery(u), NEW c \in Buckets, NEW s \in Switches
    PROVE  /\ Last(outstanding[user[u].bucket]) \in Switches
           /\ Due(c, s) = Times(c, globalQueries[s])
           /\ Due(c, s)' = Times(c, globalQueries[s])'
           /\ Due(c, s)' = Due(c, s) +
                (IF c = user[u].bucket /\ s = Last(outstanding[c]) THEN 1 ELSE 0)
<1> DEFINE b == user[u].bucket
           d == Last(outstanding[b])
<1>1. TypeOK /\ b \in Buckets /\ outstanding[b] \in Seq(Switches) /\ outstanding[b] # <<>>
  BY UserFields DEF Inv, TypeOK, AddGlobalQuery, Inside
<1>2. d \in Switches
  BY <1>1, LenProperties, EmptySeq, ElementOfSeq DEF Last
<1>3. /\ globalQueries' = [globalQueries EXCEPT ![d] = Append(@, b)]
      /\ ~globalLocked /\ UNCHANGED globalLocked
  BY DEF AddGlobalQuery
<1> HIDE DEF d
<1>4. globalQueries'[s] = IF s = d THEN Append(globalQueries[s], b) ELSE globalQueries[s]
  BY <1>1, <1>2, <1>3 DEF TypeOK
<1>5. globalQueries[s] \in Seq(Buckets) /\ Times(c, globalQueries[s]) \in Nat
  BY <1>1, TimesTypes
<1>6. Times(c, globalQueries[s])' =
        Times(c, globalQueries[s]) + (IF s = d /\ c = b THEN 1 ELSE 0)
  <2>1. CASE s = d
    <3>1. Times(c, Append(globalQueries[s], b)) =
            Times(c, globalQueries[s]) + (IF b = c THEN 1 ELSE 0)
      BY <1>1, <1>5, TimesAppend
    <3> QED
      BY <1>4, <2>1, <3>1
  <2>2. CASE s # d
    BY <1>4, <1>5, <2>2
  <2> QED
    BY <2>1, <2>2
<1>7. Due(c, s) = Times(c, globalQueries[s]) /\ Due(c, s)' = Times(c, globalQueries[s])'
  BY <1>3 DEF Due
<1> QED
  BY <1>2, <1>6, <1>7 DEF d

\* handle_flow_stats_reply of a bucket, past in_update_cv.
Answers == HandleReply /\ asyncore'.pc = "callback"

LEMMA AnswerEffect ==
    ASSUME Inv, Asked, Answers
    PROVE  LET b == Head(asyncore.todo)
               r == asyncore.switch IN
           /\ b \in Buckets /\ cv[b] = NoOne /\ r \in Switches /\ globalLocked
           /\ asyncore.pc = "cv" /\ asyncore.todo \in Seq(Buckets) /\ asyncore.todo # <<>>
           /\ outstanding' = [outstanding EXCEPT ![b] = Removed(@, r)]
           /\ asyncore'.switch = r /\ asyncore'.todo = asyncore.todo
           /\ UNCHANGED <<cv, globalVars, user>>
<1> DEFINE b == Head(asyncore.todo)
<1>1. asyncore.pc = "cv" /\ asyncore.todo # <<>> /\ cv[b] = NoOne
  BY DEF Answers, HandleReply, CanEnter
<1>2. /\ asyncore \in [pc : {"cv", "callback"}, switch : Switches, todo : Seq(Buckets)]
      /\ asyncore.switch \in Switches /\ asyncore.todo \in Seq(Buckets)
  BY <1>1, AsyncoreFields DEF Inv, TypeOK
<1>3. b \in Buckets /\ globalLocked
  BY <1>1, <1>2, HeadTailProperties DEF Asked
<1>4. /\ outstanding' = [outstanding EXCEPT ![b] = Removed(@, asyncore.switch)]
      /\ asyncore' = [asyncore EXCEPT !.pc = "callback"]
      /\ UNCHANGED <<cv, globalVars, user>>
  BY <1>1 DEF Answers, HandleReply, Wait
<1> QED
  BY <1>1, <1>2, <1>3, <1>4

LEMMA DueAtAnswer ==
    ASSUME Inv, Asked, Answers, NEW c \in Buckets, NEW s \in Switches
    PROVE  /\ Due(c, s)' \in Nat
           /\ Due(c, s)' = Due(c, s) -
                (IF c = Head(asyncore.todo) /\ s = asyncore.switch THEN 1 ELSE 0)
<1> DEFINE b == Head(asyncore.todo)
           r == asyncore.switch
<1>1. /\ b \in Buckets /\ r \in Switches /\ globalLocked
      /\ asyncore.pc = "cv" /\ asyncore.todo \in Seq(Buckets) /\ asyncore.todo # <<>>
      /\ asyncore'.pc = "callback" /\ asyncore'.switch = r /\ asyncore'.todo = asyncore.todo
      /\ UNCHANGED <<globalQueries, globalLocked>>
  BY AnswerEffect DEF globalVars, Answers
<1>2. Left = asyncore.todo /\ Left' = Tail(asyncore.todo)
  BY <1>1 DEF Left
<1>3. Due(c, s)' \in Nat
  <2>1. [Next]_vars
    BY DEF Answers, Next, AsyncoreStep
  <2>2. TypeOK' /\ Asked'
    BY <2>1, InvNext, AskedNext DEF Inv
  <2> QED
    BY <2>2, DueTypeNext
<1>4. CASE s = r
  <2>1. Due(c, s) = Times(c, asyncore.todo) /\ Due(c, s)' = Times(c, Tail(asyncore.todo))
    BY <1>1, <1>2, <1>4 DEF Due
  <2>2. Times(c, Tail(asyncore.todo)) = Times(c, asyncore.todo) - (IF b = c THEN 1 ELSE 0)
    BY <1>1, TimesTail
  <2> QED
    BY <1>3, <1>4, <2>1, <2>2
<1>5. CASE s # r
  <2>1. Due(c, s)' = Due(c, s) /\ Due(c, s) \in Nat
    BY <1>1, <1>5, DueType DEF Due, Inv
  <2> QED
    BY <1>3, <1>5, <2>1
<1> QED
  BY <1>4, <1>5

LEMMA DueStays ==
    ASSUME Inv, Asked, [Next]_vars, ~Answers, \A u \in Users : ~AddGlobalQuery(u),
           NEW c \in Buckets, NEW s \in Switches
    PROVE  Due(c, s)' = Due(c, s)
<1>1. CASE UNCHANGED <<globalQueries, globalLocked, asyncore>>
  BY <1>1 DEF Due, Left
<1>2. ASSUME NEW u \in Users, \/ PullStats(u) \/ EnterPull(u) \/ Report(u)
                              \/ Issue(u) \/ Request(u) \/ LeavePull(u)
      PROVE  Due(c, s)' = Due(c, s)
  BY <1>1, <1>2
     DEF PullStats, EnterPull, Report, Wait, Issue, Request, LeavePull, globalVars
<1>3. ASSUME NEW r \in Switches, Reply(r)
      PROVE  Due(c, s)' = Due(c, s)
  <2>1. ~globalLocked /\ UNCHANGED globalQueries
    BY <1>3 DEF Reply, Asked
  <2>2. CASE globalQueries[r] = <<>>
    BY <1>1, <1>3, <2>1, <2>2 DEF Reply
  <2>3. CASE globalQueries[r] # <<>>
    <3>1. asyncore' = [pc |-> "cv", switch |-> r, todo |-> globalQueries[r]] /\ globalLocked'
      BY <1>3, <2>3 DEF Reply
    <3>2. asyncore'.pc = "cv" /\ asyncore'.switch = r /\ asyncore'.todo = globalQueries[r]
      BY <3>1
    <3>3. Left' = globalQueries[r]
      BY <3>2 DEF Left
    <3> QED
      BY <2>1, <3>1, <3>2, <3>3 DEF Due
  <2> QED
    BY <2>2, <2>3
<1>4. CASE HandleReply
  BY <1>1, <1>4 DEF Answers, HandleReply, Wait, globalVars, Inv, TypeOK, AsyncoreType
<1>5. CASE Callback
  <2>1. asyncore \in [pc : {"cv", "callback"}, switch : Switches, todo : Seq(Buckets)]
    BY <1>5, AsyncoreFields DEF Callback, Inv, TypeOK
  <2>2. /\ asyncore.pc = "callback" /\ UNCHANGED <<globalQueries, globalLocked>>
        /\ asyncore' = [asyncore EXCEPT !.pc = "cv", !.todo = Tail(@)]
    BY <1>5 DEF Callback, globalVars
  <2>3. asyncore'.pc = "cv" /\ asyncore'.switch = asyncore.switch
        /\ asyncore'.todo = Tail(asyncore.todo)
    BY <2>1, <2>2
  <2>4. Left' = Left
    BY <2>2, <2>3 DEF Left
  <2> QED
    BY <2>2, <2>3, <2>4 DEF Due
<1>6. CASE FinishReply
  <2> DEFINE r == asyncore.switch
  <2>1. asyncore.pc = "cv" /\ asyncore.todo = <<>> /\ globalLocked /\ Left = <<>>
    BY <1>6 DEF FinishReply, Asked, Left
  <2>2. r \in Switches
    BY <2>1, AsyncoreFields DEF Inv, TypeOK
  <2>3. globalQueries' = [globalQueries EXCEPT ![r] = <<>>] /\ ~globalLocked'
    BY <1>6 DEF FinishReply
  <2>4. Due(c, s)' = Times(c, globalQueries[s])'
    BY <2>3 DEF Due
  <2>5. CASE s = r
    <3>1. globalQueries'[s] = <<>> /\ Due(c, s) = Times(c, <<>>)
      BY <2>1, <2>2, <2>3, <2>5 DEF Due, Inv, TypeOK
    <3> QED
      BY <2>4, <3>1
  <2>6. CASE s # r
    <3>1. globalQueries'[s] = globalQueries[s] /\ Due(c, s) = Times(c, globalQueries[s])
      BY <2>2, <2>3, <2>6 DEF Due, Inv, TypeOK
    <3> QED
      BY <2>4, <3>1
  <2> QED
    BY <2>5, <2>6
<1>7. CASE \/ \E r \in Switches : LoseRequest(r)
           \/ (\E x \in Classifiers : Install(x)) \/ InstallerStep \/ UNCHANGED vars
  BY <1>1, <1>7
     DEF LoseRequest, Install, InstallerStep, StartUpdate, HookBuckets, FinishUpdate, vars, globalVars
<1> QED
  BY <1>2, <1>3, <1>4, <1>5, <1>6, <1>7 DEF Next, UserStep, AsyncoreStep

\* Whoever adds a query of a bucket holds its in_update_cv.
LEMMA NoAdder ==
    ASSUME Inside, NEW b \in Buckets, cv[b] = NoOne, NEW s
    PROVE  Adding(b, s) = {} /\ Cardinality(Adding(b, s)) = 0
<1>1. Adding(b, s) = {}
  BY ThreadAssumption DEF Inside, Adding
<1> QED
  BY <1>1, FS_EmptySet

LEMMA OneAdder ==
    ASSUME Inside, NEW u \in Users, NEW b \in Buckets, cv[b] = u, NEW s
    PROVE  /\ Adding(b, s) \in {{}, {u}}
           /\ Cardinality(Adding(b, s)) = IF u \in Adding(b, s) THEN 1 ELSE 0
<1>1. Adding(b, s) \in {{}, {u}}
  BY DEF Inside, Adding
<1> QED
  BY <1>1, FS_EmptySet, FS_Singleton

LEMMA AddersCounted ==
    ASSUME TypeOK, Inside, NEW b \in Buckets, NEW s
    PROVE  Cardinality(Adding(b, s)) \in {0, 1}
<1>1. cv[b] = NoOne \/ cv[b] \in Users
  BY DEF TypeOK
<1> QED
  BY <1>1, NoAdder, OneAdder

\* A step that does not touch a bucket's list, its adders or what is due.
LEMMA SameAdding ==
    ASSUME NEW b \in Buckets, NEW s, outstanding'[b] = outstanding[b],
           \A u \in Users : /\ user'[u].pc = "global" <=> user[u].pc = "global"
                            /\ user'[u].bucket = user[u].bucket
    PROVE  Adding(b, s)' = Adding(b, s)
BY DEF Adding

LEMMA ExpectedInit == Init => Expected
<1> SUFFICES ASSUME Init, NEW b \in Buckets, NEW s \in Switches
             PROVE  /\ Times(s, outstanding[b]) <= Due(b, s) + Cardinality(Adding(b, s))
                    /\ Due(b, s) <= Times(b, globalQueries[s])
  BY DEF Expected
<1>1. outstanding[b] = <<>> /\ globalQueries[s] = <<>> /\ ~globalLocked
  BY DEF Init
<1>2. Times(s, outstanding[b]) = 0 /\ Times(b, globalQueries[s]) = 0 /\ Due(b, s) = 0
  BY <1>1, TimesEmpty DEF Due
<1>3. Adding(b, s) = {}
  BY DEF Init, Adding
<1> QED
  BY <1>2, <1>3, FS_EmptySet

\* The steps that leave the lists alone.
LEMMA ExpectedStays ==
    ASSUME Expected, UNCHANGED <<outstanding, globalQueries, globalLocked, asyncore>>,
           \A u \in Users : /\ user'[u].pc = "global" <=> user[u].pc = "global"
                            /\ user'[u].bucket = user[u].bucket
    PROVE  Expected'
<1> SUFFICES ASSUME NEW b \in Buckets, NEW s \in Switches
             PROVE  (/\ Times(s, outstanding[b]) <= Due(b, s) + Cardinality(Adding(b, s))
                     /\ Due(b, s) <= Times(b, globalQueries[s]))'
  BY DEF Expected
<1>1. Adding(b, s)' = Adding(b, s)
  BY SameAdding
<1>2. Due(b, s)' = Due(b, s)
  BY DEF Due, Left
<1>3. Cardinality(Adding(b, s))' = Cardinality(Adding(b, s))
  BY <1>1
<1>4. Times(s, outstanding[b])' = Times(s, outstanding[b])
      /\ Times(b, globalQueries[s])' = Times(b, globalQueries[s])
  OBVIOUS
<1> QED
  BY <1>2, <1>3, <1>4 DEF Expected

\* pull_stats empties outstanding_switches, then puts a switch on it before
\* the bucket goes on the list of the switch.
LEMMA ExpectedUser ==
    ASSUME Inv, Asked, Expected, NEW u \in Users, PullStats(u) \/ UserStep(u)
    PROVE  Expected'
<1> DEFINE b == user[u].bucket
<1>1. TypeOK /\ Inside /\ user \in [Users -> UserType] /\ user[u] \in UserType
  BY DEF Inv, TypeOK
<1>2. /\ b \in Buckets /\ u # NoOne /\ outstanding \in [Buckets -> Seq(Switches)]
      /\ outstanding[b] \in Seq(Switches)
  BY <1>1, ThreadAssumption, UserFields DEF TypeOK
<1>3. CASE PullStats(u) \/ LeavePull(u) \/ Request(u)
  <2>1. PICK p \in {"cv", "await", "issue"} : user' = [user EXCEPT ![u] = [user[u] EXCEPT !.pc = p]]
    BY <1>3 DEF PullStats, LeavePull, Request
  <2>2. user[u].pc # "global"
    BY <1>3 DEF PullStats, LeavePull, Request
  <2>3. \A v \in Users : /\ user'[v].pc = "global" <=> user[v].pc = "global"
                         /\ user'[v].bucket = user[v].bucket
    BY <1>1, <2>1, <2>2, UserMoves
  <2>4. UNCHANGED <<outstanding, globalQueries, globalLocked, asyncore>>
    BY <1>3 DEF PullStats, LeavePull, Request, bucketVars, globalVars
  <2> QED
    BY <2>3, <2>4, ExpectedStays
<1>4. CASE EnterPull(u)
  <2>1. CASE UNCHANGED <<outstanding, user>>
    <3>1. UNCHANGED <<globalQueries, globalLocked, asyncore>>
      BY <1>4 DEF EnterPull, Wait, globalVars
    <3> QED
      BY <2>1, <3>1, ExpectedStays
  <2>2. CASE /\ outstanding' = outstanding
             /\ user' = [user EXCEPT ![u].pc = "report"]
    <3>1. user' = [user EXCEPT ![u] = [user[u] EXCEPT !.pc = "report"]] /\ user[u].pc = "cv"
      BY <1>4, <2>2 DEF EnterPull
    <3>2. \A v \in Users : /\ user'[v].pc = "global" <=> user[v].pc = "global"
                           /\ user'[v].bucket = user[v].bucket
      BY <1>1, <3>1, UserMoves
    <3>3. UNCHANGED <<globalQueries, globalLocked, asyncore>>
      BY <1>4 DEF EnterPull, Wait, globalVars
    <3> QED
      BY <2>2, <3>2, <3>3, ExpectedStays
  <2>3. CASE /\ cv[b] = NoOne
             /\ outstanding' = [outstanding EXCEPT ![b] = <<>>]
             /\ user' = [user EXCEPT ![u].pc = "issue", ![u].todo = SwitchList(b)]
    <3>1. UNCHANGED <<globalQueries, globalLocked, asyncore>> /\ user[u].pc = "cv"
      BY <1>4 DEF EnterPull, Wait, globalVars
    <3>2. \A v \in Users : /\ user'[v].pc = "global" <=> user[v].pc = "global"
                           /\ user'[v].bucket = user[v].bucket
      <4>1. user'[u].pc = "issue" /\ user'[u].bucket = b
        BY <1>1, <2>3 DEF UserType
      <4>2. \A v \in Users \ {u} : user'[v] = user[v]
        BY <1>1, <2>3
      <4> QED
        BY <3>1, <4>1, <4>2
    <3> SUFFICES ASSUME NEW c \in Buckets, NEW s \in Switches
                 PROVE  (/\ Times(s, outstanding[c]) <= Due(c, s) + Cardinality(Adding(c, s))
                         /\ Due(c, s) <= Times(c, globalQueries[s]))'
      BY DEF Expected
    <3>3. Due(c, s)' = Due(c, s) /\ Due(c, s) \in Nat
          /\ Times(c, globalQueries[s])' = Times(c, globalQueries[s])
      BY <1>1, <3>1, DueType DEF Due, Left
    <3>4. CASE c = b
      <4>1. outstanding'[c] = <<>> /\ Times(s, outstanding[c])' = 0
        BY <1>2, <2>3, <3>4, TimesEmpty
      <4>2. \A v \in Users : user'[v].pc = "global" => user'[v].bucket # c
        BY <1>1, <2>3, <3>2, <3>4, ThreadAssumption DEF Inside
      <4>3. Adding(c, s)' = {}
        BY <4>2 DEF Adding
      <4>4. Cardinality(Adding(c, s))' = 0
        BY <4>3, FS_EmptySet
      <4> QED
        BY <3>3, <4>1, <4>4 DEF Expected
    <3>5. CASE c # b
      <4>1. outstanding'[c] = outstanding[c]
        BY <1>2, <2>3, <3>5
      <4>2. Adding(c, s)' = Adding(c, s)
        BY <3>2, <4>1, SameAdding
      <4>3. Cardinality(Adding(c, s))' = Cardinality(Adding(c, s))
            /\ Times(s, outstanding[c])' = Times(s, outstanding[c])
        BY <4>1, <4>2
      <4> QED
        BY <3>3, <4>3 DEF Expected
    <3> QED
      BY <3>4, <3>5
  <2> QED
    BY <1>4, <2>1, <2>2, <2>3 DEF EnterPull, Wait, CanEnter, bucketVars
<1>5. CASE Issue(u)
  <2>1. PICK q \in user[u].todo :
          /\ outstanding' = [outstanding EXCEPT ![b] = Append(@, q[2])]
          /\ user' = [user EXCEPT ![u].pc = "global", ![u].todo = @ \ {q}]
    BY <1>5 DEF Issue
  <2>2. q[2] \in Switches
    BY <1>1, <2>1, UserFields
  <2>3. UNCHANGED <<globalQueries, globalLocked, asyncore>> /\ user[u].pc = "issue" /\ cv[b] = u
    BY <1>1, <1>5 DEF Issue, globalVars, Inside
  <2>4. /\ user'[u].pc = "global" /\ user'[u].bucket = b
        /\ \A v \in Users \ {u} : user'[v] = user[v]
    BY <1>1, <2>1 DEF UserType
  <2>5. \A v \in Users \ {u} : user[v].pc = "global" => user[v].bucket # b
    BY <1>1, <2>3 DEF Inside
  <2> SUFFICES ASSUME NEW c \in Buckets, NEW s \in Switches
               PROVE  (/\ Times(s, outstanding[c]) <= Due(c, s) + Cardinality(Adding(c, s))
                       /\ Due(c, s) <= Times(c, globalQueries[s]))'
    BY DEF Expected
  <2>6. Due(c, s)' = Due(c, s) /\ Due(c, s) \in Nat
        /\ Times(c, globalQueries[s])' = Times(c, globalQueries[s])
    BY <1>1, <2>3, DueType DEF Due, Left
  <2>7. CASE c = b
    <3>1. outstanding'[c] = Append(outstanding[c], q[2])
      BY <1>2, <2>1, <2>7
    <3>2. Times(s, outstanding[c])' = Times(s, outstanding[c]) + (IF q[2] = s THEN 1 ELSE 0)
      BY <1>2, <2>2, <2>7, <3>1, TimesAppend
    <3>3. Last(outstanding'[c]) = q[2]
      BY <1>2, <2>2, <2>7, <3>1, AppendProperties, LenProperties DEF Last
    <3>4. Adding(c, s)' = IF q[2] = s THEN {u} ELSE {}
      BY <2>4, <2>5, <2>7, <3>3 DEF Adding
    <3>5. Cardinality(Adding(c, s))' = IF q[2] = s THEN 1 ELSE 0
      BY <3>4, FS_EmptySet, FS_Singleton
    <3>6. Cardinality(Adding(c, s)) = 0
      <4>1. Adding(c, s) = {}
        BY <2>3, <2>5, <2>7 DEF Adding
      <4> QED
        BY <4>1, FS_EmptySet
    <3>7. Times(s, outstanding[c]) \in Nat /\ Times(s, outstanding[c]) <= Due(c, s)
      BY <1>1, <2>6, <3>6, TimesTypes DEF Expected
    <3> QED
      BY <2>6, <3>2, <3>5, <3>7 DEF Expected
  <2>8. CASE c # b
    <3>1. outstanding'[c] = outstanding[c]
      BY <1>2, <2>1, <2>8
    <3>2. Adding(c, s)' = Adding(c, s)
      BY <2>3, <2>4, <2>8, <3>1 DEF Adding
    <3>3. Cardinality(Adding(c, s))' = Cardinality(Adding(c, s))
          /\ Times(s, outstanding[c])' = Times(s, outstanding[c])
      BY <3>1, <3>2
    <3> QED
      BY <2>6, <3>3 DEF Expected
  <2> QED
    BY <2>7, <2>8
<1>6. CASE AddGlobalQuery(u)
  <2> DEFINE d == Last(outstanding[b])
  <2>1. outstanding[b] # <<>> /\ cv[b] = u
    BY <1>1, <1>6 DEF AddGlobalQuery, Inside
  <2>2. d \in Switches
    BY <1>2, <2>1, LenProperties, EmptySeq, ElementOfSeq DEF Last
  <2>3. /\ globalQueries' = [globalQueries EXCEPT ![d] = Append(@, b)]
        /\ user[u].pc = "global"
        /\ \/ user' = [user EXCEPT ![u].pc = "issue"]
           \/ user' = [user EXCEPT ![u].pc = "request"]
        /\ ~globalLocked /\ UNCHANGED <<globalLocked, asyncore, outstanding>>
    BY <1>6 DEF AddGlobalQuery, bucketVars
  <2>4. /\ user'[u].pc \in {"issue", "request"} /\ user'[u].bucket = b
        /\ \A v \in Users \ {u} : user'[v] = user[v]
    BY <1>1, <2>3, UserGoes
  <2>5. \A v \in Users \ {u} : user[v].pc = "global" => user[v].bucket # b
    BY <1>1, <2>1 DEF Inside
  <2>6. \A s \in Switches : u \in Adding(b, s) <=> s = d
    BY <2>3 DEF Adding
  <2> SUFFICES ASSUME NEW c \in Buckets, NEW s \in Switches
               PROVE  (/\ Times(s, outstanding[c]) <= Due(c, s) + Cardinality(Adding(c, s))
                       /\ Due(c, s) <= Times(c, globalQueries[s]))'
    BY DEF Expected
  <2>7. Due(c, s) \in Nat /\ Times(s, outstanding[c]) \in Nat
        /\ Times(s, outstanding[c])' = Times(s, outstanding[c])
    BY <1>1, <2>3, DueType, TimesTypes
  <2>8. /\ Due(c, s)' = Times(c, globalQueries[s])'
        /\ Due(c, s)' = Due(c, s) + (IF c = b /\ s = d THEN 1 ELSE 0)
    BY <1>6, DueAtQuery DEF d
  <2> HIDE DEF d
  <2>9. Due(c, s)' \in Nat
    BY <2>7, <2>8
  <2>10. CASE c = b
    <3>1. Cardinality(Adding(c, s)) = IF s = d THEN 1 ELSE 0
      BY <1>1, <2>1, <2>6, <2>10, OneAdder
    <3>2. Adding(c, s)' = {}
      BY <2>4, <2>5, <2>10 DEF Adding
    <3>3. Cardinality(Adding(c, s))' = 0
      BY <3>2, FS_EmptySet
    <3>4. Times(s, outstanding[c]) <= Due(c, s) + Cardinality(Adding(c, s))
      BY DEF Expected
    <3> QED
      BY <2>7, <2>8, <2>9, <2>10, <3>1, <3>3, <3>4
  <2>11. CASE c # b
    <3>1. Adding(c, s)' = Adding(c, s)
      BY <2>3, <2>4, <2>11 DEF Adding
    <3>2. Cardinality(Adding(c, s))' = Cardinality(Adding(c, s))
      BY <3>1
    <3>3. Times(s, outstanding[c]) <= Due(c, s) + Cardinality(Adding(c, s))
      BY DEF Expected
    <3> QED
      BY <2>7, <2>8, <2>9, <2>11, <3>2, <3>3
  <2> QED
    BY <2>10, <2>11
<1>7. CASE Report(u)
  <2>1. user' = [Called(b) EXCEPT ![u] = [Called(b)[u] EXCEPT !.pc = "idle"]]
        /\ user[u].pc = "report"
        /\ UNCHANGED <<outstanding, globalQueries, globalLocked, asyncore>>
    BY <1>1, <1>7, CalledType DEF Report, globalVars
  <2>2. \A v \in Users : /\ user'[v].pc = "global" <=> user[v].pc = "global"
                         /\ user'[v].bucket = user[v].bucket
    <3>1. /\ Called(b) \in [Users -> UserType]
          /\ \A v \in Users :
                /\ Called(b)[v].bucket = user[v].bucket
                /\ Called(b)[v] = user[v] \/ (user[v].pc = "await" /\ Called(b)[v].pc = "idle")
      BY <1>1, CalledType
    <3>2. user'[u].pc = "idle" /\ user'[u].bucket = Called(b)[u].bucket
      BY <2>1, <3>1, UserMoves
    <3>3. \A v \in Users \ {u} : user'[v] = Called(b)[v]
      BY <2>1, <3>1
    <3> QED
      BY <2>1, <3>1, <3>2, <3>3
  <2> QED
    BY <2>1, <2>2, ExpectedStays
<1> QED
  BY <1>3, <1>4, <1>5, <1>6, <1>7 DEF UserStep

\* An answer takes a bucket off what is due and the switch off what the
\* bucket waits for.
LEMMA ExpectedAnswer ==
    ASSUME Inv, Asked, Expected, Answers
    PROVE  Expected'
<1> DEFINE b == Head(asyncore.todo)
           r == asyncore.switch
<1>1. TypeOK /\ Inside /\ outstanding \in [Buckets -> Seq(Switches)]
  BY DEF Inv, TypeOK
<1>2. /\ b \in Buckets /\ cv[b] = NoOne /\ r \in Switches
      /\ outstanding' = [outstanding EXCEPT ![b] = Removed(@, r)]
      /\ UNCHANGED <<globalQueries, user>>
  BY AnswerEffect DEF globalVars
<1> SUFFICES ASSUME NEW c \in Buckets, NEW s \in Switches
             PROVE  (/\ Times(s, outstanding[c]) <= Due(c, s) + Cardinality(Adding(c, s))
                     /\ Due(c, s) <= Times(c, globalQueries[s]))'
  BY DEF Expected
<1>3. /\ Due(c, s)' = Due(c, s) - (IF c = b /\ s = r THEN 1 ELSE 0)
      /\ Due(c, s)' \in Nat /\ Due(c, s) \in Nat
  BY <1>1, DueAtAnswer, DueType
<1>4. /\ Times(s, outstanding[c]) \in Nat /\ Times(c, globalQueries[s]) \in Nat
      /\ outstanding[c] \in Seq(Switches)
      /\ Times(c, globalQueries[s])' = Times(c, globalQueries[s])
  BY <1>1, <1>2, TimesTypes
<1>5. CASE c = b
  <2>1. outstanding'[c] = Removed(outstanding[c], r)
    BY <1>1, <1>2, <1>5
  <2>2. /\ r \in Range(outstanding[c]) <=> Times(r, outstanding[c]) # 0
        /\ Times(s, outstanding[c])' =
             Times(s, outstanding[c]) - (IF r \in Range(outstanding[c]) /\ r = s THEN 1 ELSE 0)
    BY <1>4, <2>1, TimesRemoved
  <2>3. Cardinality(Adding(c, s)) = 0
    BY <1>1, <1>2, <1>5, NoAdder
  <2>4. Adding(c, s)' = {}
    BY <1>1, <1>2, <1>5, ThreadAssumption DEF Adding, Inside
  <2>5. Cardinality(Adding(c, s))' = 0
    BY <2>4, FS_EmptySet
  <2>6. Times(s, outstanding[c]) <= Due(c, s) + 0 /\ Due(c, s) <= Times(c, globalQueries[s])
    BY <2>3 DEF Expected
  <2>7. Times(s, outstanding[c])' <= Due(c, s)'
    BY <1>3, <1>4, <1>5, <2>2, <2>6
  <2> QED
    BY <1>3, <1>4, <2>2, <2>5, <2>6, <2>7
<1>6. CASE c # b
  <2>1. outstanding'[c] = outstanding[c]
    BY <1>1, <1>2, <1>6
  <2>2. Adding(c, s)' = Adding(c, s)
    BY <1>2, <2>1, SameAdding
  <2>3. Cardinality(Adding(c, s))' = Cardinality(Adding(c, s))
        /\ Times(s, outstanding[c])' = Times(s, outstanding[c])
    BY <2>1, <2>2
  <2>4. Due(c, s)' = Due(c, s)
    BY <1>3, <1>6
  <2> QED
    BY <1>4, <2>3, <2>4 DEF Expected
<1> QED
  BY <1>5, <1>6

\* The list of a switch is whole until the last of its buckets is served.
LEMMA ExpectedAsyncore ==
    ASSUME Inv, Asked, Expected, AsyncoreStep
    PROVE  Expected'
<1>1. TypeOK /\ user \in [Users -> UserType]
  BY DEF Inv, TypeOK
<1>2. CASE Answers
  BY <1>2, ExpectedAnswer
<1>3. CASE ~Answers
  <2>1. outstanding' = outstanding
    BY <1>3 DEF AsyncoreStep, Reply, HandleReply, Wait, Callback, FinishReply, bucketVars, Answers,
                Inv, TypeOK, AsyncoreType
  <2>2. \A u \in Users : /\ user'[u].pc = "global" <=> user[u].pc = "global"
                         /\ user'[u].bucket = user[u].bucket
    <3>1. user' \in {user, Called(Head(asyncore.todo))}
      BY DEF AsyncoreStep, Reply, HandleReply, Wait, Callback, FinishReply
    <3> QED
      BY <1>1, <3>1, CalledType
  <2> SUFFICES ASSUME NEW c \in Buckets, NEW s \in Switches
               PROVE  (/\ Times(s, outstanding[c]) <= Due(c, s) + Cardinality(Adding(c, s))
                       /\ Due(c, s) <= Times(c, globalQueries[s]))'
    BY DEF Expected
  <2>3. Due(c, s)' = Due(c, s) /\ Due(c, s) \in Nat
    <3>1. [Next]_vars
      BY DEF Next
    <3>2. \A u \in Users : ~AddGlobalQuery(u)
      BY <1>1, <2>2 DEF AddGlobalQuery, UserType
    <3> QED
      BY <1>1, <1>3, <3>1, <3>2, DueStays, DueType
  <2>4. Adding(c, s)' = Adding(c, s)
    BY <2>1, <2>2, SameAdding
  <2>5. Cardinality(Adding(c, s))' = Cardinality(Adding(c, s))
    BY <2>4
  <2>6. Due(c, s)' <= Times(c, globalQueries[s])'
    <3>1. CASE FinishReply
      BY <2>3, <3>1 DEF FinishReply, Due
    <3>2. CASE ~FinishReply
      <4>1. globalQueries' = globalQueries
        BY <3>2 DEF AsyncoreStep, Reply, HandleReply, Wait, Callback, globalVars
      <4> QED
        BY <2>3, <4>1 DEF Expected
    <3> QED
      BY <3>1, <3>2
  <2> QED
    BY <2>1, <2>3, <2>5, <2>6 DEF Expected
<1> QED
  BY <1>2, <1>3

LEMMA ExpectedNext == Inv /\ Asked /\ Expected /\ [Next]_vars => Expected'
<1> SUFFICES ASSUME Inv, Asked, Expected, [Next]_vars PROVE Expected'
  OBVIOUS
<1>1. TypeOK /\ Inside
  BY DEF Inv
<1>2. CASE \E u \in Users : PullStats(u) \/ UserStep(u)
  BY <1>2, ExpectedUser
<1>3. CASE AsyncoreStep
  BY <1>3, ExpectedAsyncore
<1>4. ASSUME NEW b \in Buckets, StartUpdate(b)
      PROVE  Expected'
  <2>1. /\ cv[b] = NoOne /\ outstanding' = [outstanding EXCEPT ![b] = <<>>]
        /\ UNCHANGED <<globalQueries, globalLocked, asyncore, user>>
    BY <1>4 DEF StartUpdate, globalVars
  <2> SUFFICES ASSUME NEW c \in Buckets, NEW s \in Switches
               PROVE  (/\ Times(s, outstanding[c]) <= Due(c, s) + Cardinality(Adding(c, s))
                       /\ Due(c, s) <= Times(c, globalQueries[s]))'
    BY DEF Expected
  <2>2. Due(c, s)' = Due(c, s) /\ Due(c, s) \in Nat
        /\ Times(c, globalQueries[s])' = Times(c, globalQueries[s])
    BY <1>1, <2>1, DueType DEF Due, Left
  <2>3. CASE c = b
    <3>1. outstanding'[c] = <<>> /\ Times(s, outstanding[c])' = 0
      BY <1>1, <2>1, <2>3, TimesEmpty DEF TypeOK
    <3>2. Adding(c, s)' = {}
      BY <1>1, <2>1, <2>3, ThreadAssumption DEF Adding, Inside
    <3>3. Cardinality(Adding(c, s))' = 0
      BY <3>2, FS_EmptySet
    <3> QED
      BY <2>2, <3>1, <3>3 DEF Expected
  <2>4. CASE c # b
    <3>1. outstanding'[c] = outstanding[c]
      BY <1>1, <2>1, <2>4 DEF TypeOK
    <3>2. Adding(c, s)' = Adding(c, s)
      BY <2>1, <3>1, SameAdding
    <3>3. Cardinality(Adding(c, s))' = Cardinality(Adding(c, s))
          /\ Times(s, outstanding[c])' = Times(s, outstanding[c])
      BY <3>1, <3>2
    <3> QED
      BY <2>2, <3>3 DEF Expected
  <2> QED
    BY <2>3, <2>4
<1>5. CASE UNCHANGED <<outstanding, globalQueries, globalLocked, asyncore, user>>
  BY <1>5, ExpectedStays
<1>6. CASE \/ \E s \in Switches : LoseRequest(s)
           \/ \E c \in Classifiers : Install(c)
           \/ HookBuckets \/ (\E b \in Buckets : FinishUpdate(b)) \/ UNCHANGED vars
  BY <1>5, <1>6 DEF LoseRequest, Install, HookBuckets, FinishUpdate, vars, bucketVars, globalVars
<1> QED
  BY <1>2, <1>3, <1>4, <1>6 DEF Next, InstallerStep

\* A bucket stands on the runtime's list of a switch as often as it waits for
\* that switch, but for the query a user is about to add: no answer a bucket
\* waits for is forgotten, however pulls, answers and updates interleave.
THEOREM AnswersAreComing == Spec => []AnswersWillCome
<1>1. Inv /\ Asked /\ Expected => AnswersWillCome
  <2> SUFFICES ASSUME Inv, Asked, Expected, NEW b \in Buckets, NEW s \in Switches
               PROVE  Times(s, outstanding[b]) <=
                        Times(b, globalQueries[s]) + Cardinality(Adding(b, s))
    BY DEF AnswersWillCome
  <2>1. TypeOK /\ Inside
    BY DEF Inv
  <2>2. /\ Times(s, outstanding[b]) \in Nat /\ Times(b, globalQueries[s]) \in Nat
        /\ Due(b, s) \in Nat /\ Cardinality(Adding(b, s)) \in {0, 1}
    BY <2>1, TimesTypes, DueType, AddersCounted
  <2>3. /\ Times(s, outstanding[b]) <= Due(b, s) + Cardinality(Adding(b, s))
        /\ Due(b, s) <= Times(b, globalQueries[s])
    BY DEF Expected
  <2> QED
    BY <2>2, <2>3
<1> QED
  BY <1>1, InvInit, InvNext, AskedInit, AskedNext, ExpectedInit, ExpectedNext, PTL DEF Spec
-----------------------------------------------------------------------------
(* Who holds in_update_cv, and which buckets an installation has
   marked. *)
Holders ==
    /\ \A u \in Users : user[u].bucket = BucketOf[u]
    /\ \A b \in Buckets : cv[b] # NoOne =>
            user[cv[b]].pc \in {"issue", "global", "request"} /\ BucketOf[cv[b]] = b

Marked(b) ==
    \/ installer.pc = "start" /\ b \in DOMAIN installer.new \ installer.todo
    \/ installer.pc = "finish" /\ b \in installer.todo

Updating ==
    /\ \A b \in Buckets : waitSet[b] # {} => inUpdate[b]
    /\ \A b \in Buckets : inUpdate[b] <=> Marked(b)
    /\ installer.pc # "idle" => installer.todo \subseteq DOMAIN installer.new

LEMMA HoldersInit == Init => Holders /\ Updating
BY DEF Init, Holders, Updating, Marked

\* Nothing but a pull takes in_update_cv across calls.
LEMMA HoldersNext == Inv /\ Holders /\ [Next]_vars => Holders'
<1> SUFFICES ASSUME Inv, Holders, [Next]_vars PROVE Holders'
  OBVIOUS
<1>1. /\ Inside /\ user \in [Users -> UserType] /\ cv \in [Buckets -> Users \cup {NoOne}]
      /\ NoOne \notin Users
  BY ThreadAssumption DEF Inv, TypeOK
<1>2. ASSUME NEW u \in Users, NEW r \in UserType, r.bucket = user[u].bucket,
             user' = [user EXCEPT ![u] = r], cv' = cv,
             user[u].pc \in {"issue", "global", "request"} => r.pc \in {"issue", "global", "request"}
      PROVE  Holders'
  <2>1. user'[u] = r /\ \A v \in Users \ {u} : user'[v] = user[v]
    BY <1>1, <1>2
  <2> QED
    BY <1>1, <1>2, <2>1 DEF Holders
<1>3. ASSUME NEW u \in Users, PullStats(u)
      PROVE  Holders'
  <2>1. /\ user' = [user EXCEPT ![u] = [user[u] EXCEPT !.pc = "cv"]] /\ cv' = cv
        /\ user[u].pc \notin {"issue", "global", "request"}
    BY <1>3 DEF PullStats, bucketVars
  <2>2. user[u] \in UserType
    BY <1>1
  <2>3. [user[u] EXCEPT !.pc = "cv"] \in UserType
        /\ [user[u] EXCEPT !.pc = "cv"].bucket = user[u].bucket
    BY <2>2, UserMoves
  <2> QED
    BY <1>2, <2>1, <2>3
<1>4. ASSUME NEW u \in Users, EnterPull(u)
      PROVE  Holders'
  <2> DEFINE b == user[u].bucket
  <2>1. user[u].pc = "cv" /\ b \in Buckets /\ cv[b] = NoOne
    BY <1>1, <1>4, UserFields DEF EnterPull, CanEnter
  <2>2. CASE UNCHANGED <<cv, user>>
    BY <2>2 DEF Holders
  <2>3. CASE cv' = cv /\ user' = [user EXCEPT ![u].pc = "report"]
    <3>1. user' = [user EXCEPT ![u] = [user[u] EXCEPT !.pc = "report"]]
      BY <2>3
    <3>2. user[u] \in UserType /\ user[u].pc \notin {"issue", "global", "request"}
      BY <1>1, <2>1
    <3>3. [user[u] EXCEPT !.pc = "report"] \in UserType
          /\ [user[u] EXCEPT !.pc = "report"].bucket = user[u].bucket
      BY <3>2, UserMoves
    <3> QED
      BY <1>2, <2>3, <3>1, <3>2, <3>3
  <2>4. CASE /\ cv' = [cv EXCEPT ![b] = u]
             /\ user' = [user EXCEPT ![u].pc = "issue", ![u].todo = SwitchList(b)]
    <3>1. user'[u].pc = "issue" /\ user'[u].bucket = b /\ \A v \in Users \ {u} : user'[v] = user[v]
      BY <1>1, <2>4 DEF UserType
    <3>2. cv'[b] = u /\ \A c \in Buckets \ {b} : cv'[c] = cv[c]
      BY <1>1, <2>1, <2>4
    <3>3. BucketOf[u] = b
      BY DEF Holders
    <3>4. \A c \in Buckets \ {b} : cv[c] # u
      BY <1>1, <2>1 DEF Holders
    <3>5. \A v \in Users : user'[v].bucket = BucketOf[v]
      BY <3>1, <3>3 DEF Holders
    <3>6. ASSUME NEW c \in Buckets, cv'[c] # NoOne
          PROVE  user'[cv'[c]].pc \in {"issue", "global", "request"} /\ BucketOf[cv'[c]] = c
      <4>1. CASE c = b
        BY <3>1, <3>2, <3>3, <4>1
      <4>2. CASE c # b
        <5>1. cv'[c] = cv[c] /\ cv[c] \in Users \ {u}
          BY <1>1, <3>2, <3>4, <3>6, <4>2
        <5>2. user[cv[c]].pc \in {"issue", "global", "request"} /\ BucketOf[cv[c]] = c
          BY <1>1, <5>1 DEF Holders
        <5> QED
          BY <3>1, <5>1, <5>2
      <4> QED
        BY <4>1, <4>2
    <3> QED
      BY <3>5, <3>6 DEF Holders
  <2> QED
    BY <1>4, <2>2, <2>3, <2>4 DEF EnterPull, Wait, bucketVars
<1>5. ASSUME NEW u \in Users, Issue(u)
      PROVE  Holders'
  <2>1. PICK q \in user[u].todo :
            user' = [user EXCEPT ![u].pc = "global", ![u].todo = @ \ {q}]
    BY <1>5 DEF Issue
  <2>2. cv' = cv
    BY <1>5 DEF Issue
  <2>3. /\ user'[u].pc = "global" /\ user'[u].bucket = user[u].bucket
        /\ \A v \in Users \ {u} : user'[v] = user[v]
    BY <1>1, <2>1 DEF UserType
  <2> QED
    BY <1>1, <2>2, <2>3 DEF Holders
<1>6. ASSUME NEW u \in Users, AddGlobalQuery(u) \/ Request(u)
      PROVE  Holders'
  <2>1. /\ \/ user' = [user EXCEPT ![u].pc = "issue"]
           \/ user' = [user EXCEPT ![u].pc = "request"]
        /\ cv' = cv
    BY <1>6 DEF AddGlobalQuery, Request, bucketVars
  <2>2. /\ user'[u].pc \in {"issue", "request"} /\ user'[u].bucket = user[u].bucket
        /\ \A v \in Users \ {u} : user'[v] = user[v]
    BY <1>1, <2>1, UserGoes
  <2> QED
    BY <1>1, <2>1, <2>2 DEF Holders
<1>7. ASSUME NEW u \in Users, LeavePull(u)
      PROVE  Holders'
  <2> DEFINE b == user[u].bucket
  <2>1. /\ user' = [user EXCEPT ![u] = [user[u] EXCEPT !.pc = "await"]]
        /\ cv' = [cv EXCEPT ![b] = NoOne] /\ user[u].pc = "issue" /\ b \in Buckets
    BY <1>1, <1>7, UserFields DEF LeavePull
  <2>2. user'[u].bucket = b /\ \A v \in Users \ {u} : user'[v] = user[v]
    BY <1>1, <2>1, UserMoves
  <2>3. cv'[b] = NoOne /\ \A c \in Buckets \ {b} : cv'[c] = cv[c] /\ cv[c] # u
    BY <1>1, <2>1 DEF Holders
  <2> QED
    BY <1>1, <2>2, <2>3 DEF Holders
<1>8. ASSUME cv' = cv,
             \A u \in Users : \/ user'[u] = user[u]
                             \/ /\ user[u].pc \in {"await", "report"}
                                /\ user'[u].bucket = user[u].bucket
      PROVE  Holders'
  BY <1>1, <1>8 DEF Holders
<1>11. CASE AsyncoreStep
  <2>1. cv' = cv
    BY <1>11 DEF AsyncoreStep, Reply, HandleReply, Wait, Callback, FinishReply, bucketVars
  <2>2. user' \in {user, Called(Head(asyncore.todo))}
    BY <1>11 DEF AsyncoreStep, Reply, HandleReply, Wait, Callback, FinishReply
  <2> QED
    BY <1>1, <1>8, <2>1, <2>2, CalledType
<1>12. ASSUME NEW u \in Users, Report(u)
       PROVE  Holders'
  <2> DEFINE b == user[u].bucket
  <2>1. /\ user' = [Called(b) EXCEPT ![u] = [Called(b)[u] EXCEPT !.pc = "idle"]]
        /\ user[u].pc = "report" /\ cv' = cv
    BY <1>1, <1>12, CalledType DEF Report
  <2>2. /\ Called(b) \in [Users -> UserType]
        /\ \A v \in Users :
              /\ Called(b)[v].bucket = user[v].bucket
              /\ Called(b)[v] = user[v] \/ user[v].pc = "await"
    BY <1>1, CalledType
  <2>3. user'[u].bucket = user[u].bucket
    BY <2>1, <2>2, UserMoves
  <2>4. \A v \in Users \ {u} : user'[v] = Called(b)[v]
    BY <2>1, <2>2
  <2> QED
    BY <1>8, <2>1, <2>2, <2>3, <2>4
<1>9. CASE UNCHANGED <<cv, user>>
  BY <1>9 DEF Holders
<1>10. CASE \/ \E s \in Switches : LoseRequest(s)
            \/ (\E c \in Classifiers : Install(c)) \/ InstallerStep \/ UNCHANGED vars
  BY <1>9, <1>10
     DEF LoseRequest, Install, InstallerStep, StartUpdate, HookBuckets, FinishUpdate, vars, bucketVars
<1> QED
  BY <1>3, <1>4, <1>5, <1>6, <1>7, <1>10, <1>11, <1>12 DEF Next, UserStep

\* in_update is set in the buckets the installation has begun with and is not
\* done with, and only they are waited for.
LEMMA UpdatingNext == Inv /\ Updating /\ [Next]_vars => Updating'
<1> SUFFICES ASSUME Inv, Updating, [Next]_vars PROVE Updating'
  OBVIOUS
<1>1. /\ inUpdate \in [Buckets -> BOOLEAN] /\ waitSet \in [Buckets -> SUBSET (Users \cup {"asyncore"})]
      /\ installer \in InstallerType
  BY DEF Inv, TypeOK
<1>2. CASE UNCHANGED <<waitSet, inUpdate, installer>>
  BY <1>2 DEF Updating, Marked
<1>3. ASSUME NEW t, NEW b, Wait(t, b)
      PROVE  Updating'
  <2>1. /\ inUpdate[b] /\ waitSet' = [waitSet EXCEPT ![b] = @ \cup {t}]
        /\ UNCHANGED <<inUpdate, installer>>
    BY <1>3 DEF Wait, MustWait
  <2> QED
    BY <1>1, <2>1 DEF Updating, Marked
<1>4. ASSUME NEW u \in Users, PullStats(u) \/ UserStep(u)
      PROVE  Updating'
  BY <1>2, <1>3, <1>4
     DEF PullStats, UserStep, EnterPull, Report, Issue, AddGlobalQuery, Request, LeavePull,
         bucketVars
<1>5. CASE AsyncoreStep
  BY <1>2, <1>3, <1>5 DEF AsyncoreStep, Reply, HandleReply, Callback, FinishReply, bucketVars
<1>6. CASE (\E s \in Switches : LoseRequest(s)) \/ UNCHANGED vars
  BY <1>2, <1>6 DEF LoseRequest, vars, bucketVars
<1>7. ASSUME NEW c \in Classifiers, Install(c)
      PROVE  Updating'
  <2>1. /\ installer.pc = "idle" /\ installer' = [pc |-> "start", new |-> c, todo |-> DOMAIN c]
        /\ UNCHANGED <<waitSet, inUpdate>>
    BY <1>7 DEF Install, bucketVars
  <2>2. installer'.pc = "start" /\ installer'.new = c /\ installer'.todo = DOMAIN c
    BY <2>1
  <2> QED
    BY <2>1, <2>2 DEF Updating, Marked
<1>8. ASSUME NEW b \in Buckets, StartUpdate(b)
      PROVE  Updating'
  <2>1. /\ installer.pc = "start" /\ b \in installer.todo /\ waitSet' = waitSet
        /\ inUpdate' = [inUpdate EXCEPT ![b] = TRUE]
        /\ installer' = [installer EXCEPT !.todo = @ \ {b}]
    BY <1>8 DEF StartUpdate
  <2>2. /\ installer'.pc = "start" /\ installer'.new = installer.new
        /\ installer'.todo = installer.todo \ {b}
    BY <1>1, <2>1 DEF InstallerType
  <2>3. inUpdate'[b] /\ \A c \in Buckets \ {b} : inUpdate'[c] = inUpdate[c]
    BY <1>1, <2>1
  <2>4. installer.todo \subseteq DOMAIN installer.new
    BY <2>1 DEF Updating
  <2> QED
    BY <2>1, <2>2, <2>3, <2>4 DEF Updating, Marked
<1>9. CASE HookBuckets
  <2>1. /\ installer.pc = "start" /\ installer.todo = {} /\ UNCHANGED <<waitSet, inUpdate>>
        /\ installer' = [installer EXCEPT !.pc = "finish", !.todo = DOMAIN installer.new]
    BY <1>9 DEF HookBuckets
  <2>2. /\ installer'.pc = "finish" /\ installer'.new = installer.new
        /\ installer'.todo = DOMAIN installer.new
    BY <1>1, <2>1 DEF InstallerType
  <2> QED
    BY <2>1, <2>2 DEF Updating, Marked
<1>10. ASSUME NEW b \in Buckets, FinishUpdate(b)
       PROVE  Updating'
  <2>1. /\ installer.pc = "finish" /\ b \in installer.todo
        /\ inUpdate' = [inUpdate EXCEPT ![b] = FALSE]
        /\ waitSet' = [waitSet EXCEPT ![b] = {}]
    BY <1>10 DEF FinishUpdate
  <2>2. /\ ~inUpdate'[b] /\ waitSet'[b] = {}
        /\ \A c \in Buckets \ {b} : inUpdate'[c] = inUpdate[c] /\ waitSet'[c] = waitSet[c]
    BY <1>1, <2>1
  <2>3. installer.todo \subseteq DOMAIN installer.new
    BY <2>1 DEF Updating
  <2>4. CASE installer.todo = {b}
    <3>1. installer' = [pc |-> "idle"]
      BY <1>10, <2>4 DEF FinishUpdate
    <3>2. installer'.pc = "idle"
      BY <3>1
    <3> QED
      BY <2>1, <2>2, <2>4, <3>2 DEF Updating, Marked
  <2>5. CASE installer.todo # {b}
    <3>1. installer' = [installer EXCEPT !.todo = @ \ {b}]
      BY <1>10, <2>5 DEF FinishUpdate
    <3>2. /\ installer'.pc = "finish" /\ installer'.new = installer.new
          /\ installer'.todo = installer.todo \ {b}
      BY <1>1, <2>1, <3>1 DEF InstallerType
    <3> QED
      BY <2>1, <2>2, <2>3, <3>2 DEF Updating, Marked
  <2> QED
    BY <2>4, <2>5
<1> QED
  BY <1>4, <1>5, <1>6, <1>7, <1>8, <1>9, <1>10 DEF Next, InstallerStep

(* Who waits for whom. *)
LEMMA WaitsForAsyncore ==
    WaitsFor("asyncore") =
        IF asyncore.pc = "cv" /\ asyncore.todo # <<>>
        THEN IF "asyncore" \in waitSet[Head(asyncore.todo)]
             THEN {"installer"} ELSE {cv[Head(asyncore.todo)]}
        ELSE {NoOne}
BY ThreadAssumption DEF WaitsFor

LEMMA WaitsForInstaller ==
    WaitsFor("installer") =
        IF /\ installer.pc # "idle" /\ installer.todo # {}
           /\ \A b \in installer.todo : cv[b] # NoOne
        THEN {cv[b] : b \in installer.todo} ELSE {NoOne}
BY ThreadAssumption DEF WaitsFor

LEMMA WaitsForUser ==
    ASSUME NEW u \in Users
    PROVE  WaitsFor(u) =
               IF user[u].pc = "cv"
               THEN IF u \in waitSet[user[u].bucket]
                    THEN {"installer"} ELSE {cv[user[u].bucket]}
               ELSE IF user[u].pc = "global" /\ globalLocked THEN {"asyncore"}
               ELSE {NoOne}
<1>1. u # "asyncore" /\ u # "installer"
  BY ThreadAssumption
<1> QED
  BY <1>1 DEF WaitsFor

\* Whatever the users do, threads wait in a circle only where a user in its
\* in_update_cv waits for the lists, and the asyncore thread, which holds them,
\* for a bucket that such a user is in or that an installation is updating.
THEOREM CirclesNeedBothLocks == Spec => []CirclesCrossLocks
<1>1. Inv /\ Asked /\ Holders /\ Updating => CirclesCrossLocks
  <2> SUFFICES ASSUME Inv, Asked, Holders, Updating,
                      NEW S \in SUBSET (Users \cup {"asyncore", "installer"}), S # {},
                      \A t \in S : WaitsFor(t) \subseteq S
               PROVE  /\ "asyncore" \in S /\ globalLocked
                      /\ \E u \in S \cap Users : /\ user[u].pc = "global"
                                                 /\ cv[user[u].bucket] = u
                      /\ \/ cv[Head(asyncore.todo)] \in S
                         \/ "installer" \in S /\ inUpdate[Head(asyncore.todo)]
    BY DEF CirclesCrossLocks, Circles
  <2>1. /\ TypeOK /\ Inside /\ user \in [Users -> UserType] /\ asyncore \in AsyncoreType
        /\ installer \in InstallerType /\ cv \in [Buckets -> Users \cup {NoOne}]
    BY DEF Inv, TypeOK
  <2>2. NoOne \notin S /\ \A t \in S : NoOne \notin WaitsFor(t)
    BY ThreadAssumption
  <2>3. ASSUME NEW b \in Buckets, cv[b] \in S
        PROVE  /\ cv[b] \in S \cap Users /\ user[cv[b]].pc = "global"
               /\ cv[user[cv[b]].bucket] = cv[b]
               /\ globalLocked /\ "asyncore" \in S
    <3>1. cv[b] \in Users /\ user[cv[b]].pc \in {"issue", "global", "request"}
      BY <2>1, <2>2, <2>3 DEF Holders
    <3>2. user[cv[b]].pc = "global" /\ globalLocked /\ "asyncore" \in S
      BY <2>2, <2>3, <3>1, WaitsForUser
    <3> QED
      BY <2>1, <2>3, <3>1, <3>2 DEF Inside
  <2>4. ASSUME "installer" \in S
        PROVE  \E b \in Buckets : cv[b] \in S
    <3>1. /\ installer.pc # "idle" /\ installer.todo # {}
          /\ WaitsFor("installer") = {cv[b] : b \in installer.todo}
      BY <2>2, <2>4, WaitsForInstaller
    <3>2. installer.todo \subseteq Buckets
      BY <2>1, <3>1, InstallerFields
    <3> QED
      BY <2>4, <3>1, <3>2
  <2>5. ASSUME NEW u \in Users, u \in S
        PROVE  "asyncore" \in S \/ \E b \in Buckets : cv[b] \in S
    <3>1. user[u].bucket \in Buckets
      BY <2>1, UserFields
    <3>2. CASE user[u].pc = "cv"
      BY <2>4, <2>5, <3>1, <3>2, WaitsForUser
    <3>3. CASE user[u].pc # "cv"
      BY <2>2, <2>5, <3>3, WaitsForUser
    <3> QED
      BY <3>2, <3>3
  <2>6. "asyncore" \in S
    BY <2>3, <2>4, <2>5
  <2> DEFINE b == Head(asyncore.todo)
  <2>7. /\ asyncore.pc = "cv" /\ asyncore.todo # <<>>
        /\ WaitsFor("asyncore") = IF "asyncore" \in waitSet[b] THEN {"installer"} ELSE {cv[b]}
    BY <2>2, <2>6, WaitsForAsyncore
  <2>8. b \in Buckets
    BY <2>1, <2>7, AsyncoreFields, HeadTailProperties
  <2> HIDE DEF b
  <2>9. cv[b] \in S \/ ("installer" \in S /\ inUpdate[b])
    BY <2>6, <2>7, <2>8 DEF Updating
  <2>10. PICK c \in Buckets : cv[c] \in S
    BY <2>4, <2>8, <2>9
  <2> QED
    BY <2>3, <2>6, <2>9, <2>10 DEF b
<1> QED
  BY <1>1, InvInit, InvNext, AskedInit, AskedNext, HoldersInit, HoldersNext, UpdatingNext,
     PTL DEF Spec
-----------------------------------------------------------------------------
(* A bucket in an update. *)
Quiet == \A b \in Buckets : inUpdate[b] /\ inUpdate'[b] =>
            /\ outstanding'[b] = outstanding[b]
            /\ counted'[b] # counted[b] =>
                    /\ counted'[b] = {}
                    /\ \E u \in Users : user[u].bucket = b /\ user[u].pc = "report"

LEMMA QuietStep == Inv /\ Updating /\ [Next]_vars => Quiet
<1> SUFFICES ASSUME Inv, Updating, [Next]_vars PROVE Quiet
  OBVIOUS
<1>1. TypeOK /\ Inside /\ user \in [Users -> UserType]
  BY DEF Inv, TypeOK
<1>2. CASE UNCHANGED <<counted, outstanding>>
  BY <1>2 DEF Quiet
<1>3. ASSUME NEW u \in Users, EnterPull(u)
      PROVE  Quiet
  BY <1>1, <1>3 DEF EnterPull, Wait, MustWait, TypeOK, Quiet, bucketVars
<1>4. ASSUME NEW u \in Users, Issue(u)
      PROVE  Quiet
  <2> DEFINE b == user[u].bucket
  <2>1. b \in Buckets
    BY <1>1, UserFields
  <2>2. ~inUpdate[b]
    BY <1>1, <1>4, <2>1, ThreadAssumption DEF Issue, Inside
  <2>3. counted' = counted /\ \A c \in Buckets \ {b} : outstanding'[c] = outstanding[c]
    BY <1>1, <1>4 DEF Issue, TypeOK
  <2> QED
    BY <2>2, <2>3 DEF Quiet
<1>5. ASSUME NEW u \in Users, Report(u)
      PROVE  Quiet
  <2> DEFINE b == user[u].bucket
  <2>1. b \in Buckets
    BY <1>1, UserFields
  <2>2. /\ outstanding' = outstanding /\ counted'[b] = {}
        /\ \A c \in Buckets \ {b} : counted'[c] = counted[c]
    BY <1>1, <1>5, <2>1 DEF Report, TypeOK
  <2> QED
    BY <1>5, <2>2 DEF Quiet, Report
<1>6. CASE HandleReply
  BY <1>1, <1>6 DEF HandleReply, Wait, MustWait, Quiet, TypeOK
<1>7. ASSUME NEW b \in Buckets, StartUpdate(b)
      PROVE  Quiet
  <2>1. counted' = counted /\ outstanding' = [outstanding EXCEPT ![b] = <<>>] /\ ~inUpdate[b]
    BY <1>7 DEF StartUpdate, Updating, Marked
  <2> QED
    BY <1>1, <2>1 DEF Quiet, TypeOK
<1>8. ASSUME NEW u \in Users,
             PullStats(u) \/ AddGlobalQuery(u) \/ Request(u) \/ LeavePull(u)
      PROVE  Quiet
  BY <1>2, <1>8 DEF PullStats, AddGlobalQuery, Request, LeavePull, bucketVars
<1>9. CASE (\E s \in Switches : Reply(s) \/ LoseRequest(s)) \/ Callback \/ FinishReply
  BY <1>2, <1>9 DEF Reply, LoseRequest, Callback, FinishReply, bucketVars
<1>10. CASE (\E c \in Classifiers : Install(c)) \/ HookBuckets
           \/ (\E b \in Buckets : FinishUpdate(b)) \/ UNCHANGED vars
  BY <1>2, <1>10 DEF Install, HookBuckets, FinishUpdate, vars, bucketVars
<1> QED
  BY <1>3, <1>4, <1>5, <1>6, <1>7, <1>8, <1>9, <1>10
     DEF Next, UserStep, AsyncoreStep, InstallerStep

\* While an update of a bucket is under way no query of it is issued, no answer
\* counted, and its counters are only reset, by a pull that found no query
\* function before the update.
THEOREM UpdatesAreQuiet == Spec => QuietInUpdate
<1>1. Inv /\ Updating /\ [Next]_vars => [Quiet]_vars
  BY QuietStep
<1>2. [][Quiet]_vars => QuietInUpdate
  BY PTL DEF Quiet, QuietInUpdate
<1> QED
  BY <1>1, <1>2, InvInit, InvNext, HoldersInit, UpdatingNext, PTL DEF Spec
=============================================================================
