---------------------------- MODULE InverseProofs ----------------------------
(***************************************************************************)
(* back_policy is the inverse of every policy of a program: it leads a     *)
(* packet back to the packets that the policy turns into it, and to no     *)
(* others.  An induction over the policies, after the inverses have been   *)
(* shown to be traces, and so to have a meaning.                           *)
(***************************************************************************)
EXTENDS PolicyProofs, Inverses

-----------------------------------------------------------------------------
(* Traces *)

LEMMA TraceLevels ==
    /\ TraceDepth \in Nat /\ MaxDepth \in Nat /\ TraceDepth = MaxDepth + 3
    /\ Grows(Levels(TraceLeaves, TraceDepth), TraceLeaves, TraceDepth)
    /\ Traces = Levels(TraceLeaves, TraceDepth)[TraceDepth]
<1>1. TraceDepth \in Nat /\ MaxDepth \in Nat /\ TraceDepth = MaxDepth + 3
  BY PoliciesAssumption DEF TraceDepth
<1> QED
  BY <1>1, LevelsGrow DEF Traces

\* The leaves of traces; what they match, set or sum is given for some of the fields.
SumOf == PartialMaps(SUBSET AnyValue)

LEMMA TraceLeafKinds ==
    \A p \in TraceLeaves : /\ p.k \in {"identity", "drop", "match", "modify", "sum"}
                           /\ p.k \notin Combinators /\ Subs(p) = <<>>
                           /\ p.k = "modify" => p.a \in ModOf
                           /\ p.k = "sum" => p.fields \in SumOf
<1> SUFFICES ASSUME NEW p \in TraceLeaves
             PROVE  /\ p.k \in {"identity", "drop", "match", "modify", "sum"}
                    /\ p.k = "modify" => p.a \in ModOf
                    /\ p.k = "sum" => p.fields \in SumOf
  BY DEF Combinators, Parallels, Sequentials, Subs
<1>1. CASE p \in Constants
  BY <1>1 DEF Constants, True, Drop
<1>2. CASE p \in [k : {"match"}, m : PartialMaps(SUBSET AnyValue)]
  BY <1>2
<1>3. CASE p \in [k : {"modify"}, a : PartialMaps(Values \union Fields)]
  BY <1>3 DEF PartialMaps, ModOf
<1>4. CASE p \in [k : {"sum"}, fields : PartialMaps(SUBSET AnyValue)]
  BY <1>4 DEF SumOf
<1> QED
  BY <1>1, <1>2, <1>3, <1>4 DEF TraceLeaves

\* A trace is a leaf, or a combination of traces.
Composed(p) ==
    /\ p.k \in Combinators /\ Subs(p) = p.ps /\ p.ps \in Seq(Traces) /\ p.ps # <<>> /\ WellBuilt(p)

LEMMA TraceKinds ==
    /\ TraceLeaves \subseteq Traces
    /\ \A n \in 0 .. TraceDepth : Levels(TraceLeaves, TraceDepth)[n] \subseteq Traces
    /\ \A p \in Traces : p \in TraceLeaves \/ Composed(p)
<1> DEFINE N == TraceDepth
           h == Levels(TraceLeaves, TraceDepth)
<1>1. N \in Nat /\ Grows(h, TraceLeaves, N) /\ Traces = h[N]
  BY TraceLevels
<1> HIDE DEF N, h
<1>2. \A n \in 0 .. N : h[n] \subseteq Traces
  BY <1>1, LevelsBelow
<1>3. TraceLeaves \subseteq Traces
  <2>1. h[0] = TraceLeaves /\ 0 \in 0 .. N
    BY <1>1 DEF Grows
  <2> QED
    BY <1>2, <2>1
<1>4. ASSUME NEW p \in Traces, p \notin TraceLeaves
      PROVE  Composed(p)
  <2>1. N \in 0 .. N /\ p \in h[N]
    BY <1>1
  <2>2. N \in 1 .. N /\ Combines(h, N, p)
    BY <1>1, <1>4, <2>1, LevelKinds
  <2>3. h[N - 1] \subseteq Traces
    <3>1. N - 1 \in 0 .. N
      BY <1>1, <2>2
    <3> QED
      BY <1>2, <3>1
  <2>4. Seq(h[N - 1]) \subseteq Seq(Traces)
    BY <2>3
  <2> QED
    BY <2>2, <2>4 DEF Combines, Composed
<1> QED
  BY <1>2, <1>3, <1>4 DEF N, h

LEMMA TraceInduction ==
    ASSUME NEW T, TraceLeaves \subseteq T,
           \A p \in Traces : p \notin TraceLeaves /\ (\A i \in DOMAIN p.ps : p.ps[i] \in T) => p \in T
    PROVE  Traces \subseteq T
<1> DEFINE N == TraceDepth
           h == Levels(TraceLeaves, TraceDepth)
<1>1. N \in Nat /\ Grows(h, TraceLeaves, N) /\ Traces = h[N]
  BY TraceLevels
<1> HIDE DEF N, h
<1>2. \A p \in h[N] : p \notin TraceLeaves /\ (\A i \in DOMAIN p.ps : p.ps[i] \in T) => p \in T
  BY <1>1
<1>3. h[N] \subseteq T
  BY <1>1, <1>2, LevelsInduction
<1> QED
  BY <1>1, <1>3
-----------------------------------------------------------------------------
(* The relation of a trace *)

LEMMA SummedFrames ==
    ASSUME NEW fields \in SumOf, NEW pkt \in Frames
    PROVE  Summed(fields, pkt) \subseteq Frames
<1> SUFFICES ASSUME NEW x \in Summed(fields, pkt) PROVE x \in Frames
  OBVIOUS
<1>1. PICK v \in [DOMAIN fields -> AnyValue] :
         x = [f \in Fields |-> IF f \in DOMAIN fields THEN v[f] ELSE pkt[f]]
  BY DEF Summed
<1>2. \A f \in Fields : pkt[f] \in Values \union Fields \union {Absent}
  BY DEF Frames
<1>3. \A f \in DOMAIN fields : v[f] \in Values \union {Absent}
  BY DEF AnyValue
<1>4. \A f \in Fields : (IF f \in DOMAIN fields THEN v[f] ELSE pkt[f]) \in Values \union Fields \union {Absent}
  BY <1>2, <1>3
<1> QED
  BY <1>1, <1>4 DEF Frames

LEMMA RelateOfType ==
    \A p \in Traces : \A v \in [DOMAIN Subs(p) -> Evaluations] : \A pkt \in Frames :
        RelateOf(p, v, pkt) \in SUBSET Frames
<1> SUFFICES ASSUME NEW p \in Traces, NEW v \in [DOMAIN Subs(p) -> Evaluations], NEW pkt \in Frames
             PROVE  RelateOf(p, v, pkt) \in SUBSET Frames
  OBVIOUS
<1>1. CASE p \in TraceLeaves
  <2>1. CASE p.k = "sum"
    <3>1. p.fields \in SumOf
      BY <1>1, <2>1, TraceLeafKinds
    <3>2. Summed(p.fields, pkt) \subseteq Frames
      BY <3>1, SummedFrames
    <3> QED
      BY <2>1, <3>2 DEF RelateOf
  <2>2. CASE p.k # "sum"
    <3>1. /\ p.k \in {"identity", "drop", "match", "modify"}
          /\ p.k \notin Combinators
          /\ p.k = "modify" => p.a \in ModOf
      BY <1>1, <2>2, TraceLeafKinds
    <3>2. Evaluable(p, v)
      BY <3>1 DEF Evaluable, Combinators
    <3> QED
      BY <2>2, <3>2, EvalOfFrames DEF RelateOf
  <2> QED
    BY <2>1, <2>2
<1>2. CASE p \notin TraceLeaves
  <2>1. p.k \in Combinators /\ Subs(p) = p.ps /\ p.ps \in Seq(Traces) /\ WellBuilt(p)
    BY <1>2, TraceKinds DEF Composed
  <2> DEFINE n == Len(p.ps)
  <2>2. n \in Nat /\ DOMAIN Subs(p) = 1 .. n
    BY <2>1, LenProperties
  <2>3. p.k = "if" => n = 4
    BY <2>1 DEF WellBuilt
  <2> HIDE DEF n
  <2>4. v \in [1 .. n -> Evaluations]
    BY <2>2
  <2>5. v \in Seq(Evaluations) /\ Len(v) = n
    BY <2>2, <2>4, AsSequence
  <2>6. p.k # "sum" /\ p.k # "modify"
    BY <2>1 DEF Combinators, Parallels, Sequentials
  <2>7. Evaluable(p, v)
    BY <2>1, <2>3, <2>5, <2>6 DEF Evaluable
  <2> QED
    BY <2>6, <2>7, EvalOfFrames DEF RelateOf
<1> QED
  BY <1>1, <1>2

LEMMA TracePartsType ==
    ASSUME NEW S, NEW f, NEW p \in Traces, \A i \in DOMAIN Subs(p) : f[Subs(p)[i]] \in S
    PROVE  Parts(f, p) \in [DOMAIN Subs(p) -> S]
  BY DEF Parts

LEMMA RelateExact ==
    /\ Relate \in [Traces -> Evaluations]
    /\ \A p \in Traces, pkt \in Frames : Relate[p][pkt] = RelateOf(p, Parts(Relate, p), pkt)
<1> DEFINE R(h) == h = [p \in Traces |->
                         LET rs == [i \in DOMAIN Subs(p) |-> h[Subs(p)[i]]]
                         IN  [pkt \in Frames |-> RelateOf(p, rs, pkt)]]
           G(h) == [p \in Traces |-> [pkt \in Frames |-> RelateOf(p, Parts(h, p), pkt)]]
           step == [p \in Traces |-> [v \in [DOMAIN Subs(p) -> Evaluations] |->
                                        [pkt \in Frames |-> RelateOf(p, v, pkt)]]]
           S == Evaluations
           N == TraceDepth
           t == Levels(TraceLeaves, TraceDepth)
<1>0. N \in Nat /\ Grows(t, TraceLeaves, N) /\ Traces = t[N]
  BY TraceLevels
<1> HIDE DEF N, t
<1>1. ASSUME NEW p \in Traces, NEW v \in [DOMAIN Subs(p) -> S]
      PROVE  step[p][v] = [pkt \in Frames |-> RelateOf(p, v, pkt)] /\ step[p][v] \in S
  <2>1. step[p][v] = [pkt \in Frames |-> RelateOf(p, v, pkt)]
    OBVIOUS
  <2>2. [pkt \in Frames |-> RelateOf(p, v, pkt)] \in [Frames -> SUBSET Frames]
    BY RelateOfType
  <2> QED
    BY <2>1, <2>2 DEF Evaluations
<1> HIDE DEF step, S
<1>2. PICK f \in [Traces -> S] : ObeysOn(Traces, f, step)
  <2>1. \A p \in TraceLeaves : Subs(p) = <<>>
    BY TraceLeafKinds
  <2>2. Closed(t[N], S, step)
    BY <1>0, <1>1 DEF Closed
  <2>3. N \in Nat /\ Grows(t, TraceLeaves, N)
    BY <1>0
  <2>4. \E f \in [t[N] -> S] : ObeysOn(t[N], f, step)
    BY <2>1, <2>2, <2>3, PlainRecursion
  <2> QED
    BY <1>0, <2>4
<1>3. ASSUME NEW p \in Traces
      PROVE  \A i \in DOMAIN Subs(p) : Subs(p)[i] \in Traces
  <2>1. CASE p \in TraceLeaves
    <3>1. Subs(p) = <<>>
      BY <2>1, TraceLeafKinds
    <3> QED
      BY <3>1
  <2>2. CASE p \notin TraceLeaves
    <3>1. Subs(p) \in Seq(Traces)
      BY <2>2, TraceKinds DEF Composed
    <3> QED
      BY <3>1, LenProperties, ElementOfSeq
  <2> QED
    BY <2>1, <2>2
<1>4. ASSUME NEW p \in Traces
      PROVE  f[p] = [pkt \in Frames |-> RelateOf(p, Parts(f, p), pkt)]
  <2>1. Parts(f, p) \in [DOMAIN Subs(p) -> S]
    BY <1>2, <1>3, TracePartsType
  <2>2. f[p] = step[p][Parts(f, p)]
    BY <1>2 DEF ObeysOn
  <2> QED
    BY <1>1, <2>1, <2>2
<1>5. f = G(f)
  <2>1. f = [p \in Traces |-> f[p]]
    BY <1>2
  <2> QED
    BY <1>4, <2>1
<1>6. R(f)
  BY <1>5 DEF Parts
<1>7. Relate = CHOOSE h : R(h)
  BY DEF Relate
<1>8. R(Relate)
  BY <1>6, <1>7
<1>9. Relate = G(Relate)
  BY <1>8 DEF Parts
<1> DEFINE h == Relate
<1> HIDE DEF h
<1>10. h = [p \in Traces |-> [pkt \in Frames |-> RelateOf(p, Parts(h, p), pkt)]]
  BY <1>9 DEF h
<1> DEFINE T == {p \in Traces : h[p] \in Evaluations}
<1>11. Traces \subseteq T
  <2>1. ASSUME NEW p \in Traces, Parts(h, p) \in [DOMAIN Subs(p) -> Evaluations]
        PROVE  p \in T
    <3>1. h[p] = [pkt \in Frames |-> RelateOf(p, Parts(h, p), pkt)]
      BY <1>10
    <3>2. \A pkt \in Frames : RelateOf(p, Parts(h, p), pkt) \in SUBSET Frames
      BY <2>1, RelateOfType
    <3> QED
      BY <3>1, <3>2 DEF Evaluations
  <2>2. TraceLeaves \subseteq T
    <3> SUFFICES ASSUME NEW p \in TraceLeaves PROVE p \in T
      OBVIOUS
    <3>1. p \in Traces /\ Subs(p) = <<>>
      BY TraceKinds, TraceLeafKinds
    <3>2. Parts(h, p) \in [DOMAIN Subs(p) -> Evaluations]
      BY <3>1 DEF Parts
    <3> QED
      BY <2>1, <3>1, <3>2
  <2>3. ASSUME NEW p \in Traces, p \notin TraceLeaves, \A i \in DOMAIN p.ps : p.ps[i] \in T
        PROVE  p \in T
    <3>1. Subs(p) = p.ps
      BY <2>3, TraceKinds DEF Composed
    <3>2. \A i \in DOMAIN Subs(p) : h[Subs(p)[i]] \in Evaluations
      BY <2>3, <3>1
    <3>3. Parts(h, p) \in [DOMAIN Subs(p) -> Evaluations]
      BY <3>2 DEF Parts
    <3> QED
      BY <2>1, <3>3
  <2> HIDE DEF T
  <2> QED
    BY <2>2, <2>3, TraceInduction
<1>12. h \in [Traces -> Evaluations]
  BY <1>10, <1>11
<1>13. \A p \in Traces, pkt \in Frames : h[p][pkt] = RelateOf(p, Parts(h, p), pkt)
  BY <1>10
<1> QED
  BY <1>12, <1>13 DEF h
-----------------------------------------------------------------------------
(* The inverse of a policy is a trace *)

\* A modification that sets fields to values, and copies none.
Plain(a) == DOMAIN a \subseteq Fields /\ a \in [DOMAIN a -> Values] /\ Compilable(a)

LEMMA PlainModify ==
    ASSUME NoCopies
    PROVE  \A p \in Policy : p.k = "modify" => Plain(p.a)
<1> SUFFICES ASSUME NEW p \in Policy, p.k = "modify" PROVE Plain(p.a)
  OBVIOUS
<1> DEFINE a == p.a
<1>1. a \in Mods \union Tags /\ a \in ModOf
  BY LeafModify
<1> HIDE DEF a
<1>2. PICK D \in SUBSET Fields : a \in [D -> Values \union Fields]
  BY <1>1 DEF ModOf
<1>3. \A f \in D : a[f] \notin Fields
  BY <1>1, <1>2 DEF NoCopies, Compilable
<1>4. DOMAIN a = D /\ a = [f \in D |-> a[f]] /\ \A f \in D : a[f] \in Values
  BY <1>2, <1>3
<1>5. Plain(a)
  BY <1>3, <1>4 DEF Plain, Compilable
<1> QED
  BY <1>5 DEF a

\* What the inverse of a modification tests, and what it sums.
Tested(a) == [f \in DOMAIN a |-> {a[f]}]
Anything(a) == [f \in DOMAIN a |-> AnyValue]

LEMMA BackModifyType ==
    ASSUME NEW a, Plain(a)
    PROVE  /\ Match(Tested(a)) \in TraceLeaves /\ Sum(Anything(a)) \in TraceLeaves
           /\ BackModify(a) = [k |-> "sequential", ps |-> <<Match(Tested(a)), Sum(Anything(a))>>]
           /\ \A K : TraceLeaves \subseteq K => BackModify(a) \in Grown(TraceLeaves, K)
<1> DEFINE m == Tested(a)
           s == Anything(a)
           ps == <<Match(m), Sum(s)>>
<1>1. m \in PartialMaps(SUBSET AnyValue)
  <2>1. \A f \in DOMAIN a : {a[f]} \in SUBSET AnyValue
    BY DEF Plain, AnyValue
  <2>2. m \in [DOMAIN a -> SUBSET AnyValue] /\ DOMAIN a \in SUBSET Fields
    BY <2>1 DEF Tested, Plain
  <2> QED
    BY <2>2 DEF PartialMaps
<1>2. s \in PartialMaps(SUBSET AnyValue)
  <2>1. s \in [DOMAIN a -> SUBSET AnyValue] /\ DOMAIN a \in SUBSET Fields
    BY DEF Anything, Plain
  <2> QED
    BY <2>1 DEF PartialMaps
<1> HIDE DEF m, s
<1>3. Match(m) \in TraceLeaves
  BY <1>1 DEF Match, TraceLeaves
<1>4. Sum(s) \in TraceLeaves
  BY <1>2 DEF Sum, TraceLeaves
<1>5. \A K : TraceLeaves \subseteq K => ps \in Seq(K)
  BY <1>3, <1>4
<1>6. ps # <<>>
  OBVIOUS
<1> HIDE DEF ps
<1>7. BackModify(a) = [k |-> "sequential", ps |-> ps]
  BY <1>6 DEF BackModify, Sequential, ps, m, s, Tested, Anything
<1>8. ASSUME NEW K, TraceLeaves \subseteq K
      PROVE  BackModify(a) \in Grown(TraceLeaves, K)
  <2>1. BackModify(a) \in [k : Combinators, ps : Seq(K)]
    BY <1>5, <1>7, <1>8 DEF Combinators, Sequentials
  <2>2. WellBuilt(BackModify(a))
    BY <1>6, <1>7 DEF WellBuilt
  <2> QED
    BY <2>1, <2>2 DEF Grown
<1> QED
  BY <1>3, <1>4, <1>7, <1>8 DEF ps, m, s

LEMMA ReverseType ==
    ASSUME NEW S, NEW s \in Seq(S)
    PROVE  /\ Reverse(s) \in Seq(S) /\ Len(Reverse(s)) = Len(s)
           /\ \A i \in 1 .. Len(s) : Reverse(s)[i] = s[(Len(s) - i) + 1]
<1> DEFINE n == Len(s)
           r == [i \in 1 .. n |-> s[(n - i) + 1]]
<1>1. n \in Nat /\ \A i \in 1 .. n : s[i] \in S
  BY LenProperties, ElementOfSeq
<1>2. Reverse(s) = r
  BY DEF Reverse
<1> HIDE DEF n
<1>3. \A i \in 1 .. n : (n - i) + 1 \in 1 .. n
  BY <1>1
<1>4. r \in [1 .. n -> S] /\ \A i \in 1 .. n : r[i] = s[(n - i) + 1]
  BY <1>1, <1>3
<1> HIDE DEF r
<1>5. r \in Seq(S) /\ Len(r) = n
  BY <1>1, <1>4, AsSequence
<1> QED
  BY <1>2, <1>4, <1>5 DEF n

\* The inverses that the inverse of a sequence keeps, each as a sequence.
Each(p, bs) == [i \in DOMAIN bs |-> IF p.ps[i] = True THEN <<>> ELSE <<bs[i]>>]
Drops(p) == \E i \in DOMAIN p.ps : p.ps[i] = Drop \/ IsQuery(p.ps[i])

LEMMA BackSequentialExact ==
    ASSUME NEW K, NEW p, NEW bs \in Seq(K)
    PROVE  /\ Each(p, bs) \in Seq(Seq(K)) /\ Len(Each(p, bs)) = Len(bs)
           /\ FlattenSeq(Each(p, bs)) \in Seq(K)
           /\ Drops(p) => BackSequential(p, bs) = Drop
           /\ ~Drops(p) => BackSequential(p, bs) =
                  IF FlattenSeq(Each(p, bs)) = <<>> THEN True ELSE Like(p, Reverse(FlattenSeq(Each(p, bs))))
<1> DEFINE n == Len(bs)
           e == Each(p, bs)
<1>1. n \in Nat /\ DOMAIN bs = 1 .. n /\ \A i \in 1 .. n : bs[i] \in K
  BY LenProperties, ElementOfSeq
<1> HIDE DEF n
<1>2. e = [i \in 1 .. n |-> IF p.ps[i] = True THEN <<>> ELSE <<bs[i]>>]
  BY <1>1 DEF Each
<1>3. \A i \in 1 .. n : (IF p.ps[i] = True THEN <<>> ELSE <<bs[i]>>) \in Seq(K)
  BY <1>1
<1>4. e \in [1 .. n -> Seq(K)]
  BY <1>2, <1>3
<1> HIDE DEF e
<1>5. e \in Seq(Seq(K)) /\ Len(e) = n
  BY <1>1, <1>4, AsSequence
<1>6. FlattenSeq(e) \in Seq(K)
  BY <1>5, FlattenType
<1>7. BackSequential(p, bs) = IF Drops(p) THEN Drop
                              ELSE IF FlattenSeq(e) = <<>> THEN True ELSE Like(p, Reverse(FlattenSeq(e)))
  BY DEF BackSequential, Drops, Each, Backwards, e
<1> QED
  BY <1>5, <1>6, <1>7 DEF e, n

LEMMA BackKinds ==
    ASSUME NEW p, NEW bs
    PROVE  /\ p.k \in {"identity", "drop", "match"} => BackOf(p, bs) = p
           /\ p.k = "modify" => BackOf(p, bs) = BackModify(p.a)
           /\ p.k \in Sequentials => BackOf(p, bs) = BackSequential(p, bs)
           /\ p.k \in Parallels \union {"negate"} => BackOf(p, bs) = Like(p, bs)
           /\ p.k = "if" => BackOf(p, bs) = bs[4]
           /\ p.k \in {"bucket", "count"} => BackOf(p, bs) = Drop
<1>1. p.k \in {"identity", "drop", "match"} => BackOf(p, bs) = p
  BY DEF BackOf, Parallels, Sequentials
<1>2. p.k = "modify" => BackOf(p, bs) = BackModify(p.a)
  BY DEF BackOf, Parallels, Sequentials
<1>3. p.k \in Sequentials => BackOf(p, bs) = BackSequential(p, bs)
  BY DEF BackOf, Parallels, Sequentials
<1>4. p.k \in Parallels \union {"negate"} => BackOf(p, bs) = Like(p, bs)
  BY DEF BackOf, Parallels, Sequentials
<1>5. p.k = "if" => BackOf(p, bs) = bs[4]
  BY DEF BackOf, Parallels, Sequentials
<1>6. p.k \in {"bucket", "count"} => BackOf(p, bs) = Drop
  BY DEF BackOf, Parallels, Sequentials
<1> QED
  BY <1>1, <1>2, <1>3, <1>4, <1>5, <1>6

LEMMA ConstantTraces ==
    True \in TraceLeaves /\ Drop \in TraceLeaves /\ True.k = "identity" /\ Drop.k = "drop"
  BY DEF TraceLeaves, Constants, True, Drop

LEMMA LeafBack ==
    ASSUME NoCopies
    PROVE  \A p \in Leaves : \A v : \A K : TraceLeaves \subseteq K =>
              /\ BackOf(p, v) \in Grown(TraceLeaves, K)
              /\ IsFilter(p) => IsFilter(BackOf(p, v))
<1> SUFFICES ASSUME NEW p \in Leaves, NEW v, NEW K, TraceLeaves \subseteq K
             PROVE  /\ BackOf(p, v) \in Grown(TraceLeaves, K)
                    /\ IsFilter(p) => IsFilter(BackOf(p, v))
  OBVIOUS
<1>1. p \in Policy /\ p.k \notin Combinators
  BY PolicyKinds, LeafKinds
<1>2. p.k \in {"match", "modify", "identity", "drop", "bucket", "count"}
  BY <1>1, PolicyClasses
<1>3. CASE p.k = "modify"
  <2>1. Plain(p.a) /\ BackOf(p, v) = BackModify(p.a)
    BY <1>1, <1>3, PlainModify, BackKinds
  <2>2. BackModify(p.a) \in Grown(TraceLeaves, K)
    BY <2>1, BackModifyType
  <2>3. ~IsFilter(p)
    BY <1>3 DEF IsFilter
  <2> QED
    BY <2>1, <2>2, <2>3
<1>4. CASE p.k \in {"bucket", "count"}
  <2>1. BackOf(p, v) = Drop /\ ~IsFilter(p)
    BY <1>4, BackKinds DEF IsFilter
  <2> QED
    BY <2>1, ConstantTraces DEF Grown
<1>5. CASE p.k \in {"identity", "drop"}
  <2>1. BackOf(p, v) = p
    BY <1>5, BackKinds
  <2>2. p \in Constants
    BY <1>5 DEF Leaves, Others, Match, Modify
  <2> QED
    BY <2>1, <2>2 DEF Grown, TraceLeaves
<1>6. CASE p.k = "match"
  <2>1. BackOf(p, v) = p
    BY <1>6, BackKinds
  <2>2. PICK m \in Mixed(Tests) : p = Match(m)
    BY <1>6 DEF Leaves, Others, Constants, Modify, True, Drop
  <2>3. PICK D \in SUBSET Fields : m \in [D -> Patterns]
    BY <2>2, MixedTests DEF MatchOf
  <2>4. m \in [D -> SUBSET AnyValue]
    BY <2>3, PatternsAssumption DEF AnyValue
  <2>5. m \in PartialMaps(SUBSET AnyValue)
    BY <2>3, <2>4 DEF PartialMaps
  <2>6. p \in TraceLeaves
    BY <2>2, <2>5 DEF Match, TraceLeaves
  <2> QED
    BY <2>1, <2>6 DEF Grown
<1> QED
  BY <1>2, <1>3, <1>4, <1>5, <1>6

\* The inverses v of the policies in p: filters have filters for inverses.
Inverted(p, v, K) ==
    /\ v \in Seq(K) /\ DOMAIN v = DOMAIN p.ps /\ Len(v) = Len(p.ps)
    /\ \A i \in DOMAIN v : IsFilter(p.ps[i]) => IsFilter(v[i])

LEMMA CombinationBack ==
    ASSUME NEW p, NEW v, NEW K, p.k \in Combinators, WellBuilt(p), Inverted(p, v, K)
    PROVE  /\ BackOf(p, v) \in Grown(TraceLeaves, K) \union K
           /\ IsFilter(p) => IsFilter(BackOf(p, v))
<1> DEFINE Filtered == p.k \in {"union", "intersection", "negate"}
           F == {x \in K : Filtered => IsFilter(x)}
           n == Len(v)
<1>1. v \in Seq(K) /\ DOMAIN v = DOMAIN p.ps /\ \A i \in DOMAIN v : IsFilter(p.ps[i]) => IsFilter(v[i])
  BY DEF Inverted
<1>2. n \in Nat /\ DOMAIN v = 1 .. n /\ \A i \in 1 .. n : v[i] \in K
  BY <1>1, LenProperties, ElementOfSeq
<1>3. Filtered => \A i \in DOMAIN v : IsFilter(v[i])
  BY <1>1 DEF WellBuilt
<1>4. p.ps # <<>>
  BY DEF WellBuilt
<1>5. IsFilter(p) <=> Filtered
  BY DEF IsFilter, Combinators, Parallels, Sequentials
<1>a. p.k = "negate" => Len(p.ps) = 1
  BY DEF WellBuilt
<1> HIDE DEF n, Filtered
<1>6. \A i \in 1 .. n : v[i] \in F
  BY <1>2, <1>3
<1> HIDE DEF F
<1>7. v \in Seq(F)
  <2>1. v = [i \in 1 .. n |-> v[i]]
    BY <1>1, <1>2
  <2>2. v \in [1 .. n -> F]
    BY <1>6, <2>1
  <2> QED
    BY <1>2, <2>2, AsSequence
<1>8. \A w \in Seq(F) : w \in Seq(K) /\ (Filtered => \A i \in DOMAIN w : IsFilter(w[i]))
  <2>1. \A w \in Seq(F) : DOMAIN w = 1 .. Len(w) /\ \A i \in 1 .. Len(w) : w[i] \in F
    BY LenProperties, ElementOfSeq
  <2>2. F \subseteq K /\ (Filtered => \A x \in F : IsFilter(x))
    BY DEF F
  <2>3. Seq(F) \subseteq Seq(K)
    BY <2>2
  <2> QED
    BY <2>1, <2>2, <2>3
<1>9. ASSUME NEW w \in Seq(F), w # <<>>, p.k # "if", p.k = "negate" => Len(w) = 1
      PROVE  /\ Like(p, w) \in Grown(TraceLeaves, K)
             /\ IsFilter(p) => IsFilter(Like(p, w))
  <2> DEFINE q == Like(p, w)
  <2>1. q \in [k : Combinators, ps : Seq(K)] /\ q.k = p.k /\ q.ps = w
    BY <1>8, <1>9 DEF Like
  <2> HIDE DEF q
  <2>2. Filtered => \A i \in DOMAIN q.ps : IsFilter(q.ps[i])
    BY <1>8, <1>9, <2>1
  <2>3. WellBuilt(q)
    BY <1>9, <2>1, <2>2 DEF WellBuilt, Filtered
  <2>4. IsFilter(p) => IsFilter(q)
    BY <2>1 DEF IsFilter
  <2> QED
    BY <2>1, <2>3, <2>4 DEF Grown, q
<1>10. CASE p.k \in Sequentials
  <2>1. BackOf(p, v) = BackSequential(p, v)
    BY <1>10, BackKinds
  <2>2. p.k # "if" /\ p.k # "negate"
    BY <1>10 DEF Sequentials
  <2> DEFINE kept == FlattenSeq(Each(p, v))
  <2>3. /\ kept \in Seq(F)
        /\ Drops(p) => BackSequential(p, v) = Drop
        /\ ~Drops(p) => BackSequential(p, v) = IF kept = <<>> THEN True ELSE Like(p, Reverse(kept))
    BY <1>7, BackSequentialExact
  <2> HIDE DEF kept
  <2>4. CASE BackSequential(p, v) \in {True, Drop}
    <3>1. BackOf(p, v) \in TraceLeaves /\ BackOf(p, v).k \in {"identity", "drop"}
      BY <2>1, <2>4, ConstantTraces
    <3> QED
      BY <3>1 DEF Grown, IsFilter
  <2>5. CASE BackSequential(p, v) = Like(p, Reverse(kept)) /\ kept # <<>>
    <3>1. Reverse(kept) \in Seq(F) /\ Len(Reverse(kept)) = Len(kept)
      BY <2>3, ReverseType
    <3>2. Reverse(kept) # <<>>
      BY <2>3, <2>5, <3>1, EmptySeq
    <3> QED
      BY <1>9, <2>1, <2>2, <2>5, <3>1, <3>2
  <2> QED
    BY <2>3, <2>4, <2>5
<1>11. CASE p.k \in Parallels \union {"negate"}
  <2>1. BackOf(p, v) = Like(p, v) /\ p.k # "if"
    BY <1>11, BackKinds DEF Parallels
  <2>2. v # <<>>
    BY <1>1, <1>4
  <2>3. p.k = "negate" => Len(v) = 1
    <3> SUFFICES ASSUME p.k = "negate" PROVE Len(v) = 1
      OBVIOUS
    <3>1. Len(v) = Len(p.ps)
      BY DEF Inverted
    <3> QED
      BY <1>a, <3>1
  <2> QED
    BY <1>7, <1>9, <2>1, <2>2, <2>3
<1>12. CASE p.k = "if"
  <2>1. Len(p.ps) = 4 /\ BackOf(p, v) = v[4]
    BY <1>12, BackKinds DEF WellBuilt
  <2>2. 4 \in 1 .. n
    BY <1>2, <2>1 DEF Inverted, n
  <2>3. ~IsFilter(p)
    BY <1>12 DEF IsFilter
  <2> QED
    BY <1>2, <2>1, <2>2, <2>3
<1> QED
  BY <1>10, <1>11, <1>12 DEF Combinators

LEMMA BackExact ==
    ASSUME NoCopies
    PROVE  \A p \in Policy : /\ BackPolicy[p] \in Traces
                             /\ BackPolicy[p] = BackOf(p, Parts(BackPolicy, p))
<1> DEFINE N == MaxDepth
           M == TraceDepth
           h == Levels(Leaves, MaxDepth)
           t == Levels(TraceLeaves, TraceDepth)
           V == Traces
           Kept(n) == {x \in h[n] \X V : x[2] \in t[n + 1] /\ (IsFilter(x[1]) => IsFilter(x[2]))}
           S == [n \in 0 .. N |-> Kept(n)]
           step == [p \in Policy |-> [v \in [DOMAIN Subs(p) -> V] |-> BackOf(p, v)]]
<1>1. N \in Nat /\ Grows(h, Leaves, N) /\ Policy = h[N]
  BY PolicyLevels
<1>2. M \in Nat /\ M = N + 3 /\ Grows(t, TraceLeaves, M) /\ Traces = t[M]
  BY TraceLevels
<1> HIDE DEF N, M, h, t
<1>3. \A n \in 0 .. N : h[n] \subseteq Policy
  BY <1>1, LevelsBelow
<1>4. \A n \in 0 .. M : t[n] \subseteq V
  BY <1>2, LevelsBelow
<1>5. ASSUME NEW n \in 0 .. N
      PROVE  /\ n + 1 \in 1 .. M /\ n + 1 \in 0 .. M /\ t[n + 1] \subseteq V
             /\ t[n + 1] = Grown(TraceLeaves, t[n]) /\ TraceLeaves \subseteq t[n] /\ t[n] \subseteq t[n + 1]
  <2>1. n + 1 \in 1 .. M /\ n + 1 \in 0 .. M /\ n \in 0 .. M /\ (n + 1) - 1 = n
    BY <1>1, <1>2
  <2>2. t[n + 1] = Grown(TraceLeaves, t[n])
    BY <1>2, <2>1 DEF Grows
  <2>3. t[n] \subseteq t[n + 1]
    BY <1>2, <2>1, LevelsRise
  <2>4. TraceLeaves \subseteq t[n]
    <3>1. n \in Nat /\ 0 \in 0 .. n /\ Grows(t, TraceLeaves, n) /\ t[0] = TraceLeaves
      <4>1. n \in Nat /\ 0 \in 0 .. n /\ \A i \in 1 .. n : i \in 1 .. M
        BY <1>2, <2>1
      <4> QED
        BY <1>2, <4>1 DEF Grows
    <3>2. t[0] \subseteq t[n]
      BY <3>1, LevelsBelow
    <3> QED
      BY <3>1, <3>2
  <2> QED
    BY <1>4, <2>1, <2>2, <2>3, <2>4
<1>6. \A p \in Policy : \A v \in [DOMAIN Subs(p) -> V] : step[p][v] = BackOf(p, v)
  OBVIOUS
<1>7. \A n \in 0 .. N : S[n] = Kept(n)
  OBVIOUS
<1> HIDE DEF V, S, step
<1>8. ASSUME NEW n \in 0 .. N, NEW p \in h[n], NEW v \in [DOMAIN Subs(p) -> V],
             \A i \in DOMAIN Subs(p) : <<Subs(p)[i], v[i]>> \in S[n - 1]
      PROVE  <<p, step[p][v]>> \in S[n]
  <2>1. p \in Policy /\ step[p][v] = BackOf(p, v)
    BY <1>3, <1>6
  <2>2. BackOf(p, v) \in t[n + 1] /\ (IsFilter(p) => IsFilter(BackOf(p, v)))
    <3>1. CASE p \in Leaves
      BY <1>5, <3>1, LeafBack
    <3>2. CASE p \notin Leaves
      <4>1. n \in 1 .. N /\ Combines(h, n, p)
        BY <1>1, <3>2, LevelKinds
      <4>2. n - 1 \in 0 .. N /\ (n - 1) + 1 = n
        BY <1>1, <4>1
      <4>3. S[n - 1] = Kept(n - 1)
        BY <1>7, <4>2
      <4>4. \A i \in DOMAIN Subs(p) : v[i] \in t[n] /\ (IsFilter(Subs(p)[i]) => IsFilter(v[i]))
        BY <1>8, <4>2, <4>3
      <4>5. p.k \in Combinators /\ WellBuilt(p) /\ Subs(p) = p.ps /\ p.ps \in Seq(h[n - 1])
        BY <4>1 DEF Combines
      <4> DEFINE m == Len(p.ps)
      <4>6. m \in Nat /\ DOMAIN p.ps = 1 .. m
        BY <4>5, LenProperties
      <4> HIDE DEF m
      <4>7. v \in [1 .. m -> t[n]]
        BY <4>4, <4>5, <4>6
      <4>8. v \in Seq(t[n]) /\ Len(v) = m
        BY <4>6, <4>7, AsSequence
      <4>9. Inverted(p, v, t[n])
        BY <4>4, <4>5, <4>6, <4>7, <4>8 DEF Inverted, m
      <4>10. /\ BackOf(p, v) \in Grown(TraceLeaves, t[n]) \union t[n]
             /\ IsFilter(p) => IsFilter(BackOf(p, v))
        BY <4>5, <4>9, CombinationBack
      <4> QED
        BY <1>5, <4>10
    <3> QED
      BY <3>1, <3>2
  <2>3. BackOf(p, v) \in V
    BY <1>5, <2>2
  <2> QED
    BY <1>7, <2>1, <2>2, <2>3
<1>9. Keeps(S, h, N, V, step)
  <2>1. \A n \in 0 .. N : S[n] \subseteq h[N] \X V
    BY <1>1, <1>3, <1>7
  <2> QED
    BY <1>8, <2>1 DEF Keeps
<1>10. PICK f : Solved(f, S, h, N, V, step)
  <2>1. \A p \in Leaves : Subs(p) = <<>>
    BY LeafKinds
  <2>2. N \in Nat /\ Grows(h, Leaves, N)
    BY <1>1
  <2> QED
    BY <1>9, <2>1, <2>2, LevelsRecursion
<1>11. f \in [Policy -> V] /\ \A p \in Policy : f[p] = step[p][Parts(f, p)]
  BY <1>1, <1>10 DEF Solved, ObeysOn
<1>12. \A p \in Policy : f[p] = BackOf(p, Parts(f, p))
  BY <1>6, <1>11, PartsType
<1> DEFINE R(b) == b = [p \in Policy |-> BackOf(p, [i \in DOMAIN Subs(p) |-> b[Subs(p)[i]]])]
           G(b) == [p \in Policy |-> BackOf(p, Parts(b, p))]
<1>13. f = G(f)
  <2>1. f = [p \in Policy |-> f[p]]
    BY <1>11
  <2> QED
    BY <1>12, <2>1
<1>14. R(f)
  BY <1>13 DEF Parts
<1>15. BackPolicy = CHOOSE b : R(b)
  BY DEF BackPolicy
<1>16. R(BackPolicy)
  BY <1>14, <1>15
<1>17. BackPolicy = G(BackPolicy)
  BY <1>16 DEF Parts
<1> DEFINE b == BackPolicy
<1> HIDE DEF b
<1>18. \A p \in Policy : b[p] = BackOf(p, Parts(b, p))
  <2>1. b = [p \in Policy |-> BackOf(p, Parts(b, p))]
    BY <1>17 DEF b
  <2> QED
    BY <2>1
<1> DEFINE T == {p \in Policy : b[p] = f[p]}
<1>19. Policy \subseteq T
  <2>1. ASSUME NEW p \in Policy, \A i \in DOMAIN Subs(p) : Subs(p)[i] \in T
        PROVE  p \in T
    <3>1. Parts(b, p) = Parts(f, p)
      BY <2>1 DEF Parts
    <3> QED
      BY <1>12, <1>18, <3>1
  <2>2. Leaves \subseteq T
    <3> SUFFICES ASSUME NEW p \in Leaves PROVE p \in T
      OBVIOUS
    <3>1. p \in Policy /\ Subs(p) = <<>>
      BY PolicyKinds, LeafKinds
    <3> QED
      BY <2>1, <3>1
  <2>3. \A p \in Policy : p \notin Leaves /\ (\A i \in DOMAIN p.ps : p.ps[i] \in T) => p \in T
    BY <2>1, PolicyClasses
  <2> HIDE DEF T
  <2> QED
    BY <2>2, <2>3, PolicyInduction
<1>20. \A p \in Policy : b[p] \in Traces
  BY <1>11, <1>19 DEF V
<1> QED
  BY <1>18, <1>20 DEF b
-----------------------------------------------------------------------------
(* Evaluations and their inverses *)

\* r leads a packet back to the packets that e turns into it; both keep to packets.
LeadsBack(e, r) ==
    /\ \A x \in Packets : e[x] \subseteq Packets /\ r[x] \subseteq Packets
    /\ \A x, y \in Packets : y \in e[x] <=> x \in r[y]
Inverts(p) == LeadsBack(Eval[p], Relate[BackPolicy[p]])

LEMMA OnwardOne ==
    \A e, y : Onward(e, {y}) = e[y]
<1> SUFFICES ASSUME NEW e, NEW y PROVE UNION {e[x] : x \in {y}} = e[y]
  BY DEF Onward
<1> QED
  OBVIOUS

LEMMA PacketsAreFrames ==
    Packets \subseteq Frames
  BY DEF Packets, Frames

LEMMA RelateKinds ==
    ASSUME NEW q \in Traces, NEW y \in Frames
    PROVE  /\ q.k = "sum" => Relate[q][y] = Summed(q.fields, y)
           /\ q.k # "sum" => Relate[q][y] = EvalOf(q, Parts(Relate, q), y)
  BY RelateExact DEF RelateOf

\* What the traces w relate a packet to, one after the other.
EachRelate(w) == [i \in DOMAIN w |-> Relate[w[i]]]
Walk(w, y) == Through(EachRelate(w), y)[Len(w)]

LEMMA EachRelateType ==
    ASSUME NEW w \in Seq(Traces)
    PROVE  /\ EachRelate(w) \in Seq(Evaluations) /\ Len(EachRelate(w)) = Len(w)
           /\ DOMAIN EachRelate(w) = 1 .. Len(w) /\ Len(w) \in Nat /\ DOMAIN w = 1 .. Len(w)
           /\ \A i \in 1 .. Len(w) : EachRelate(w)[i] = Relate[w[i]] /\ w[i] \in Traces
<1> DEFINE n == Len(w)
           e == EachRelate(w)
<1>1. n \in Nat /\ DOMAIN w = 1 .. n /\ \A i \in 1 .. n : w[i] \in Traces
  BY LenProperties, ElementOfSeq
<1>2. e = [i \in DOMAIN w |-> Relate[w[i]]]
  BY DEF EachRelate
<1> HIDE DEF n, e
<1>3. e \in [1 .. n -> Evaluations] /\ \A i \in 1 .. n : e[i] = Relate[w[i]]
  BY <1>1, <1>2, RelateExact
<1>4. e \in Seq(Evaluations) /\ Len(e) = n
  BY <1>1, <1>3, AsSequence
<1> QED
  BY <1>1, <1>3, <1>4 DEF n, e

\* A trace that combines the traces w.
LEMMA CombinedTrace ==
    ASSUME NEW q \in Traces, q.k \in Combinators
    PROVE  /\ q.ps \in Seq(Traces) /\ Parts(Relate, q) = EachRelate(q.ps)
           /\ \A y \in Frames : Relate[q][y] = EvalOf(q, EachRelate(q.ps), y)
<1>1. q \notin TraceLeaves
  BY TraceLeafKinds
<1>2. q.ps \in Seq(Traces) /\ Subs(q) = q.ps
  BY <1>1, TraceKinds DEF Composed
<1>3. Parts(Relate, q) = EachRelate(q.ps)
  BY <1>2 DEF Parts, EachRelate
<1>4. q.k # "sum"
  BY DEF Combinators, Parallels, Sequentials
<1> QED
  BY <1>2, <1>3, <1>4, RelateKinds

LEMMA BackParts ==
    ASSUME NoCopies, NEW p \in Policy, p.k \in Combinators
    PROVE  /\ Parts(BackPolicy, p) \in Seq(Traces)
           /\ Len(Parts(BackPolicy, p)) = Len(p.ps)
           /\ \A i \in 1 .. Len(p.ps) : Parts(BackPolicy, p)[i] = BackPolicy[p.ps[i]]
<1> DEFINE n == Len(p.ps)
           v == Parts(BackPolicy, p)
<1>1. Subs(p) = p.ps /\ p.ps \in Seq(Policy)
  BY PolicyClasses
<1>2. n \in Nat /\ DOMAIN p.ps = 1 .. n
  BY <1>1, LenProperties
<1>3. v = [i \in DOMAIN Subs(p) |-> BackPolicy[Subs(p)[i]]]
  BY DEF Parts
<1>4. \A i \in DOMAIN Subs(p) : BackPolicy[Subs(p)[i]] \in Traces
  BY SubsPolicy, BackExact
<1> HIDE DEF n, v
<1>5. v \in [1 .. n -> Traces] /\ \A i \in 1 .. n : v[i] = BackPolicy[p.ps[i]]
  BY <1>1, <1>2, <1>3, <1>4
<1>6. v \in Seq(Traces) /\ Len(v) = n
  BY <1>2, <1>5, AsSequence
<1> QED
  BY <1>5, <1>6 DEF n, v

LEMMA ModifyInverts ==
    ASSUME NEW a, Plain(a), NEW x \in Packets, NEW y \in Packets
    PROVE  /\ Modified(x, a) \in Packets
           /\ Summed(Anything(a), y) \subseteq Packets
           /\ y = Modified(x, a) <=> Sat(Tested(a), y) /\ x \in Summed(Anything(a), y)
<1> DEFINE A == DOMAIN a
           s == Anything(a)
           t == Tested(a)
           Put(v) == [f \in Fields |-> IF f \in A THEN v[f] ELSE y[f]]
<1>1. A \subseteq Fields /\ \A f \in A : a[f] \in Values /\ a[f] \notin Fields
  BY DEF Plain, Compilable
<1>2. /\ \A f \in Fields : x[f] \in AnyValue /\ y[f] \in AnyValue
      /\ x = [f \in Fields |-> x[f]] /\ y = [f \in Fields |-> y[f]]
  BY DEF Packets, AnyValue
<1>3. DOMAIN s = A /\ \A f \in A : s[f] = AnyValue
  BY DEF Anything
<1>4. DOMAIN t = A /\ \A f \in A : t[f] = {a[f]}
  BY DEF Tested
<1>5. Modified(x, a) = [f \in Fields |-> IF f \notin A THEN x[f] ELSE a[f]]
  BY <1>1 DEF Modified
<1> HIDE DEF s, t
<1>6. \A z : z \in Summed(s, y) <=> \E v \in [A -> AnyValue] : z = Put(v)
  <2>1. Summed(s, y) = {Put(v) : v \in {w \in [A -> AnyValue] : \A f \in DOMAIN w : w[f] \in s[f]}}
    BY <1>3 DEF Summed
  <2>2. \A w \in [A -> AnyValue] : \A f \in DOMAIN w : w[f] \in s[f]
    BY <1>3
  <2> HIDE DEF Put
  <2> QED
    BY <2>1, <2>2
<1>7. Modified(x, a) \in Packets
  <2>1. \A f \in Fields : (IF f \notin A THEN x[f] ELSE a[f]) \in Values \union {Absent}
    BY <1>1, <1>2 DEF AnyValue
  <2> QED
    BY <1>5, <2>1 DEF Packets
<1>8. Summed(s, y) \subseteq Packets
  <2>1. ASSUME NEW v \in [A -> AnyValue] PROVE Put(v) \in Packets
    <3>1. \A f \in Fields : (IF f \in A THEN v[f] ELSE y[f]) \in Values \union {Absent}
      BY <1>2 DEF AnyValue
    <3> QED
      BY <3>1 DEF Packets
  <2> HIDE DEF Put
  <2> QED
    BY <1>6, <2>1
<1>9. ASSUME y = Modified(x, a)
      PROVE  Sat(t, y) /\ x \in Summed(s, y)
  <2>1. \A f \in Fields : y[f] = IF f \notin A THEN x[f] ELSE a[f]
    BY <1>5, <1>9
  <2>2. Sat(t, y)
    BY <1>1, <1>4, <2>1 DEF Sat
  <2> DEFINE v == [f \in A |-> x[f]]
  <2>3. v \in [A -> AnyValue] /\ \A f \in A : v[f] = x[f]
    BY <1>1, <1>2
  <2> HIDE DEF v
  <2>4. \A f \in Fields : x[f] = IF f \in A THEN v[f] ELSE y[f]
    BY <2>1, <2>3
  <2>5. x = Put(v)
    BY <1>2, <2>4
  <2> QED
    BY <1>6, <2>2, <2>3, <2>5
<1>10. ASSUME Sat(t, y), x \in Summed(s, y)
       PROVE  y = Modified(x, a)
  <2>1. PICK v \in [A -> AnyValue] : x = Put(v)
    BY <1>6, <1>10
  <2>2. \A f \in Fields : f \notin A => x[f] = y[f]
    BY <2>1
  <2>3. \A f \in A : y[f] = a[f]
    BY <1>4, <1>10 DEF Sat
  <2>4. \A f \in Fields : y[f] = IF f \notin A THEN x[f] ELSE a[f]
    BY <2>2, <2>3
  <2> QED
    BY <1>2, <1>5, <2>4
<1> QED
  BY <1>7, <1>8, <1>9, <1>10 DEF s, t

LEMMA LeafInverts ==
    ASSUME NoCopies
    PROVE  \A p \in Leaves : Inverts(p)
<1> SUFFICES ASSUME NEW p \in Leaves PROVE Inverts(p)
  OBVIOUS
<1> DEFINE b == BackPolicy[p]
           v == Parts(BackPolicy, p)
<1>1. p \in Policy /\ p.k \notin Combinators
  BY PolicyKinds, LeafKinds
<1>2. p.k \in {"match", "modify", "identity", "drop", "bucket", "count"}
  BY <1>1, PolicyClasses
<1>3. b \in Traces /\ b = BackOf(p, v)
  BY <1>1, BackExact
<1>4. \A x \in Packets : x \in Frames /\ Eval[p][x] = EvalOf(p, Parts(Eval, p), x)
  BY <1>1, PacketsAreFrames, EvalExact
<1> HIDE DEF b, v
<1>5. \A y \in Packets : /\ b.k = "sum" => Relate[b][y] = Summed(b.fields, y)
                         /\ b.k # "sum" => Relate[b][y] = EvalOf(b, Parts(Relate, b), y)
  BY <1>3, PacketsAreFrames, RelateKinds
<1>6. CASE p.k \in {"match", "identity", "drop"}
  <2>1. b = p /\ b.k # "sum"
    BY <1>3, <1>6, BackKinds
  <2>2. \A x \in Packets : Relate[b][x] = EvalOf(p, Parts(Relate, b), x)
    BY <1>5, <2>1
  <2>3. ASSUME NEW es, NEW x
        PROVE  EvalOf(p, es, x) = IF p.k = "identity" \/ (p.k = "match" /\ Sat(p.m, x)) THEN {x} ELSE {}
    BY <1>6, EvalKinds
  <2> DEFINE Passes(x) == p.k = "identity" \/ (p.k = "match" /\ Sat(p.m, x))
  <2>a. \A x \in Packets : Eval[p][x] = IF Passes(x) THEN {x} ELSE {}
    BY <1>4, <2>3
  <2>b. \A x \in Packets : Relate[b][x] = IF Passes(x) THEN {x} ELSE {}
    BY <2>2, <2>3
  <2> HIDE DEF Passes
  <2>4. \A x \in Packets : Eval[p][x] = Relate[b][x] /\ Eval[p][x] \in {{}, {x}}
    BY <2>a, <2>b
  <2>5. LeadsBack(Eval[p], Relate[b])
    BY <2>4 DEF LeadsBack
  <2> QED
    BY <2>5 DEF Inverts, b
<1>7. CASE p.k \in {"bucket", "count"}
  <2>1. b.k = "drop"
    BY <1>3, <1>7, BackKinds, ConstantTraces
  <2>2. \A x \in Packets : Eval[p][x] = {}
    BY <1>4, <1>7, EvalKinds
  <2>3. \A x \in Packets : Relate[b][x] = {}
    BY <1>5, <2>1, EvalKinds
  <2>4. LeadsBack(Eval[p], Relate[b])
    BY <2>2, <2>3 DEF LeadsBack
  <2> QED
    BY <2>4 DEF Inverts, b
<1>8. CASE p.k = "modify"
  <2> DEFINE a == p.a
             m == Match(Tested(a))
             s == Sum(Anything(a))
             w == <<m, s>>
             rs == EachRelate(w)
  <2>1. Plain(a) /\ b = BackModify(a)
    BY <1>1, <1>3, <1>8, PlainModify, BackKinds
  <2>2. m \in Traces /\ s \in Traces /\ b = [k |-> "sequential", ps |-> w]
    BY <2>1, BackModifyType, TraceKinds
  <2>3. /\ m.k = "match" /\ m.k # "sum" /\ m.m = Tested(a)
        /\ s.k = "sum" /\ s.fields = Anything(a)
    BY DEF Match, Sum
  <2>4. w \in Seq(Traces) /\ Len(w) = 2 /\ w[1] = m /\ w[2] = s
    BY <2>2
  <2>5. b.k = "sequential" /\ b.ps = w
    BY <2>2
  <2> HIDE DEF a, m, s, w
  <2>6. \A y \in Packets : Relate[b][y] = EvalOf(b, rs, y)
    BY <1>3, <2>5, CombinedTrace, PacketsAreFrames DEF Combinators, Sequentials
  <2>7. rs \in Seq(Evaluations) /\ Len(rs) = 2 /\ rs[1] = Relate[m] /\ rs[2] = Relate[s]
    BY <2>4, EachRelateType
  <2> HIDE DEF rs
  <2>8. ASSUME NEW y \in Packets
        PROVE  Relate[b][y] = IF Sat(Tested(a), y) THEN Summed(Anything(a), y) ELSE {}
    <3>1. Relate[b][y] = Through(rs, y)[2]
      <4>1. b.k \in Sequentials
        BY <2>5 DEF Sequentials
      <4>2. EvalOf(b, rs, y) = EvalSequential(rs, y)
        BY <4>1, EvalKinds
      <4> QED
        BY <2>6, <2>7, <4>2 DEF EvalSequential
    <3>2. /\ Through(rs, y)[0] = {y}
          /\ \A n \in 1 .. 2 : Through(rs, y)[n] = Onward(rs[n], Through(rs, y)[n - 1])
      BY <2>7, ThroughExact, PacketsAreFrames
    <3> DEFINE A(n) == Through(rs, y)[n]
    <3> HIDE DEF A
    <3>a. A(0) = {y} /\ A(1) = Onward(rs[1], A(0)) /\ A(2) = Onward(rs[2], A(1))
      <4>1. A(0) = {y} /\ \A n \in 1 .. 2 : A(n) = Onward(rs[n], A(n - 1))
        BY <3>2 DEF A
      <4>2. 1 \in 1 .. 2 /\ 2 \in 1 .. 2 /\ 1 - 1 = 0 /\ 2 - 1 = 1
        OBVIOUS
      <4> QED
        BY <4>1, <4>2
    <3>3. A(1) = rs[1][y]
      BY <3>a, OnwardOne
    <3>4. Through(rs, y)[2] = Onward(rs[2], rs[1][y])
      BY <3>a, <3>3 DEF A
    <3>5. rs[1][y] = IF Sat(Tested(a), y) THEN {y} ELSE {}
      <4>1. Relate[m][y] = EvalOf(m, Parts(Relate, m), y)
        BY <2>2, <2>3, RelateKinds, PacketsAreFrames
      <4>2. EvalOf(m, Parts(Relate, m), y) = IF Sat(m.m, y) THEN {y} ELSE {}
        BY <2>3, EvalKinds
      <4> QED
        BY <2>3, <2>7, <4>1, <4>2
    <3>6. rs[2][y] = Summed(Anything(a), y)
      BY <2>2, <2>3, <2>7, RelateKinds, PacketsAreFrames
    <3> QED
      BY <3>1, <3>4, <3>5, <3>6 DEF Onward
  <2>9. \A x \in Packets : Eval[p][x] = {Modified(x, a)}
    BY <1>4, <1>8, EvalKinds DEF EvalModify, a
  <2>10. \A x \in Packets, y \in Packets :
            /\ Modified(x, a) \in Packets
            /\ Summed(Anything(a), y) \subseteq Packets
            /\ y = Modified(x, a) <=> Sat(Tested(a), y) /\ x \in Summed(Anything(a), y)
    BY <2>1, ModifyInverts
  <2>11. LeadsBack(Eval[p], Relate[b])
    BY <2>8, <2>9, <2>10 DEF LeadsBack
  <2> QED
    BY <2>11 DEF Inverts, b
<1> QED
  BY <1>2, <1>6, <1>7, <1>8
-----------------------------------------------------------------------------
(* Traces in a row *)

LEMMA EachRelateConcat ==
    ASSUME NEW w \in Seq(Traces), NEW r \in Seq(Traces)
    PROVE  /\ w \o r \in Seq(Traces) /\ Len(w \o r) = Len(w) + Len(r)
           /\ EachRelate(w \o r) = EachRelate(w) \o EachRelate(r)
<1> DEFINE m == Len(w)
           k == Len(r)
           xs == w \o r
           e1 == EachRelate(w)
           e2 == EachRelate(r)
           e == EachRelate(xs)
           f == e1 \o e2
<1>1. xs \in Seq(Traces) /\ Len(xs) = m + k /\ m \in Nat /\ k \in Nat
  BY ConcatProperties, LenProperties
<1>2. \A i \in 1 .. m + k : xs[i] = IF i <= m THEN w[i] ELSE r[i - m]
  BY ConcatProperties
<1>3. /\ e1 \in Seq(Evaluations) /\ Len(e1) = m /\ \A i \in 1 .. m : e1[i] = Relate[w[i]]
      /\ e2 \in Seq(Evaluations) /\ Len(e2) = k /\ \A i \in 1 .. k : e2[i] = Relate[r[i]]
  BY EachRelateType
<1> HIDE DEF xs
<1>4. e \in Seq(Evaluations) /\ Len(e) = m + k /\ \A i \in 1 .. m + k : e[i] = Relate[xs[i]]
  <2>1. /\ e \in Seq(Evaluations) /\ Len(e) = Len(xs)
        /\ \A i \in 1 .. Len(xs) : e[i] = Relate[xs[i]]
    BY <1>1, EachRelateType
  <2> HIDE DEF e, m, k
  <2> QED
    BY <1>1, <2>1
<1> HIDE DEF e, e1, e2
<1>5. f \in Seq(Evaluations) /\ Len(f) = m + k /\ \A i \in 1 .. m + k : f[i] = IF i <= m THEN e1[i] ELSE e2[i - m]
  <2> HIDE DEF m, k
  <2>1. /\ f \in Seq(Evaluations) /\ Len(f) = Len(e1) + Len(e2)
        /\ \A i \in 1 .. Len(e1) + Len(e2) : f[i] = IF i <= Len(e1) THEN e1[i] ELSE e2[i - Len(e1)]
    BY <1>3, ConcatProperties
  <2> HIDE DEF f
  <2>2. Len(e1) = m /\ Len(e2) = k
    BY <1>3
  <2> QED
    BY <2>1, <2>2
<1> HIDE DEF m, k, f
<1>6. ASSUME NEW i \in 1 .. m + k
      PROVE  e[i] = f[i]
  <2>1. CASE i <= m
    <3>1. i \in 1 .. m
      BY <1>1, <2>1
    <3>2. xs[i] = w[i] /\ f[i] = e1[i]
      BY <1>2, <1>5, <2>1
    <3> QED
      BY <1>3, <1>4, <3>1, <3>2
  <2>2. CASE ~(i <= m)
    <3>1. i - m \in 1 .. k
      BY <1>1, <2>2
    <3>2. xs[i] = r[i - m] /\ f[i] = e2[i - m]
      BY <1>2, <1>5, <2>2
    <3> QED
      BY <1>3, <1>4, <3>1, <3>2
  <2> QED
    BY <2>1, <2>2
<1>7. e = f
  BY <1>4, <1>5, <1>6, SeqEqual
<1> QED
  BY <1>1, <1>7 DEF e, f, e1, e2, xs, m, k

LEMMA WalkNone ==
    ASSUME NEW y \in Frames
    PROVE  Walk(<<>>, y) = {y}
<1> DEFINE e == EachRelate(<<>>)
<1>1. <<>> \in Seq(Traces) /\ Len(<<>>) = 0
  BY EmptySeq
<1>2. e \in Seq(Evaluations)
  BY <1>1, EachRelateType
<1> HIDE DEF e
<1>3. Through(e, y)[0] = {y}
  BY <1>2, ThroughExact
<1> QED
  BY <1>1, <1>3 DEF Walk, e

LEMMA WalkType ==
    ASSUME NEW w \in Seq(Traces), NEW y \in Frames
    PROVE  Walk(w, y) \subseteq Frames
<1> DEFINE e == EachRelate(w)
           n == Len(w)
<1>1. e \in Seq(Evaluations) /\ Len(e) = n /\ n \in Nat
  BY EachRelateType
<1> HIDE DEF e, n
<1>2. Through(e, y) \in [0 .. Len(e) -> SUBSET Frames]
  BY <1>1, ThroughExact
<1>3. Through(e, y)[n] \in SUBSET Frames
  BY <1>1, <1>2
<1> QED
  BY <1>3 DEF Walk, e, n

LEMMA WalkOne ==
    ASSUME NEW b \in Traces, NEW y \in Frames
    PROVE  Walk(<<b>>, y) = Relate[b][y]
<1> DEFINE w == <<b>>
           e == EachRelate(w)
<1>1. w \in Seq(Traces) /\ Len(w) = 1 /\ w[1] = b
  OBVIOUS
<1> HIDE DEF w
<1>2. e \in Seq(Evaluations) /\ Len(e) = 1 /\ e[1] = Relate[b]
  BY <1>1, EachRelateType
<1> HIDE DEF e
<1>3. Through(e, y)[0] = {y} /\ \A n \in 1 .. 1 : Through(e, y)[n] = Onward(e[n], Through(e, y)[n - 1])
  BY <1>2, ThroughExact
<1>4. 1 \in 1 .. 1 /\ 1 - 1 = 0
  OBVIOUS
<1>5. Through(e, y)[1] = Onward(e[1], {y})
  BY <1>3, <1>4
<1> QED
  BY <1>1, <1>2, <1>5, OnwardOne DEF Walk, e, w

\* First one trace, then the others.
LEMMA WalkOn ==
    ASSUME NEW b \in Traces, NEW r \in Seq(Traces), NEW y \in Frames
    PROVE  Walk(<<b>> \o r, y) = UNION {Walk(r, z) : z \in Relate[b][y]}
<1> DEFINE w == <<b>>
           e1 == EachRelate(w)
           e2 == EachRelate(r)
           k == Len(r)
<1>1. w \in Seq(Traces) /\ Len(w) = 1
  OBVIOUS
<1>2. Walk(w, y) = Relate[b][y]
  BY WalkOne
<1> HIDE DEF w
<1>3. /\ e1 \in Seq(Evaluations) /\ Len(e1) = 1
      /\ e2 \in Seq(Evaluations) /\ Len(e2) = k /\ k \in Nat
  BY <1>1, EachRelateType
<1>4. EachRelate(w \o r) = e1 \o e2 /\ Len(w \o r) = 1 + k
  BY <1>1, EachRelateConcat
<1>5. Through(e1, y)[1] = Relate[b][y]
  BY <1>1, <1>2 DEF Walk
<1> DEFINE A(z) == Through(e2, z)[k]
<1>6. \A z : A(z) = Walk(r, z)
  BY DEF Walk
<1> HIDE DEF e1, e2, k
<1>7. \A j \in 0 .. Len(e2) : Through(e1 \o e2, y)[Len(e1) + j] =
          UNION {Through(e2, x)[j] : x \in Through(e1, y)[Len(e1)]}
  <2>1. Joined(e1, e2, y)
    BY <1>3, ThroughConcat
  <2> QED
    BY <2>1 DEF Joined
<1>8. Through(e1 \o e2, y)[1 + k] = UNION {A(z) : z \in Relate[b][y]}
  <2>1. k \in 0 .. Len(e2)
    BY <1>3
  <2> QED
    BY <1>3, <1>5, <1>7, <2>1
<1>9. Walk(w \o r, y) = Through(e1 \o e2, y)[1 + k]
  BY <1>4 DEF Walk
<1> HIDE DEF A
<1> QED
  BY <1>6, <1>8, <1>9 DEF w

LEMMA ReverseNone ==
    Reverse(<<>>) = <<>>
<1> DEFINE S == {1}
<1>1. <<>> \in Seq(S) /\ Len(<<>>) = 0
  BY EmptySeq
<1>2. Reverse(<<>>) \in Seq(S) /\ Len(Reverse(<<>>)) = 0
  BY <1>1, ReverseType
<1> HIDE DEF S
<1> QED
  BY <1>2, EmptySeq

\* The last of a sequence comes first in its reverse.
LEMMA ReverseLast ==
    ASSUME NEW S, NEW c \in Seq(S), NEW b \in S
    PROVE  Reverse(c \o <<b>>) = <<b>> \o Reverse(c)
<1> DEFINE m == Len(c)
           w == <<b>>
           d == c \o w
           r == Reverse(c)
           s == Reverse(d)
           t == w \o r
<1>1. w \in Seq(S) /\ Len(w) = 1 /\ w[1] = b
  OBVIOUS
<1> HIDE DEF w
<1>2. /\ d \in Seq(S) /\ Len(d) = m + 1 /\ m \in Nat
      /\ \A i \in 1 .. m + 1 : d[i] = IF i <= m THEN c[i] ELSE w[i - m]
  BY <1>1, ConcatProperties, LenProperties
<1>3. r \in Seq(S) /\ Len(r) = m /\ \A i \in 1 .. m : r[i] = c[(m - i) + 1]
  BY ReverseType
<1> HIDE DEF d, r, m
<1>4. s \in Seq(S) /\ Len(s) = m + 1 /\ \A i \in 1 .. m + 1 : s[i] = d[((m + 1) - i) + 1]
  <2>1. s \in Seq(S) /\ Len(s) = Len(d) /\ \A i \in 1 .. Len(d) : s[i] = d[(Len(d) - i) + 1]
    BY <1>2, ReverseType
  <2> HIDE DEF s
  <2> QED
    BY <1>2, <2>1
<1>5. t \in Seq(S) /\ Len(t) = m + 1 /\ \A i \in 1 .. m + 1 : t[i] = IF i <= 1 THEN w[i] ELSE r[i - 1]
  <2>0. w \in Seq(S) /\ r \in Seq(S)
    BY <1>1, <1>3
  <2>1. /\ t \in Seq(S) /\ Len(t) = Len(w) + Len(r)
        /\ \A i \in 1 .. Len(w) + Len(r) : t[i] = IF i <= Len(w) THEN w[i] ELSE r[i - Len(w)]
    BY <2>0, ConcatProperties
  <2> HIDE DEF t
  <2>2. Len(w) = 1 /\ Len(r) = m /\ 1 + m = m + 1
    BY <1>1, <1>2, <1>3
  <2> QED
    BY <2>1, <2>2
<1> HIDE DEF s, t
<1>6. ASSUME NEW i \in 1 .. m + 1
      PROVE  s[i] = t[i]
  <2>1. CASE i = 1
    <3>1. ((m + 1) - i) + 1 = m + 1 /\ m + 1 \in 1 .. m + 1 /\ ~(m + 1 <= m) /\ (m + 1) - m = 1
      BY <1>2, <2>1
    <3>2. s[i] = b
      BY <1>1, <1>2, <1>4, <3>1
    <3>3. t[i] = b
      BY <1>1, <1>5, <2>1
    <3> QED
      BY <3>2, <3>3
  <2>2. CASE i # 1
    <3>1. /\ ((m + 1) - i) + 1 \in 1 .. m + 1 /\ ((m + 1) - i) + 1 <= m
          /\ i - 1 \in 1 .. m /\ (m - (i - 1)) + 1 = ((m + 1) - i) + 1 /\ ~(i <= 1)
      BY <1>2, <2>2
    <3>2. s[i] = c[((m + 1) - i) + 1]
      BY <1>2, <1>4, <3>1
    <3>3. t[i] = r[i - 1] /\ r[i - 1] = c[(m - (i - 1)) + 1]
      BY <1>3, <1>5, <3>1
    <3> QED
      BY <3>1, <3>2, <3>3
  <2> QED
    BY <2>1, <2>2
<1>7. s = t
  BY <1>4, <1>5, <1>6, SeqEqual
<1> QED
  BY <1>7 DEF s, t, d, r, w
-----------------------------------------------------------------------------
(* The inverses of combinations *)

PartsInvert(p) == \A i \in DOMAIN p.ps : Inverts(p.ps[i])

\* es is what the n policies in p eval to, bs their inverses, and rs what those relate.
Undoing(p, es, bs, rs, n) ==
    /\ n # 0 /\ DOMAIN p.ps = 1 .. n /\ Len(p.ps) = n
    /\ es \in Seq(Evaluations) /\ Len(es) = n /\ DOMAIN es = 1 .. n
    /\ bs \in Seq(Traces) /\ Len(bs) = n
    /\ rs \in Seq(Evaluations) /\ Len(rs) = n /\ DOMAIN rs = 1 .. n
    /\ \A i \in 1 .. n : /\ p.ps[i] \in Policy /\ es[i] = Eval[p.ps[i]]
                         /\ bs[i] \in Traces /\ rs[i] = Relate[bs[i]]
                         /\ LeadsBack(es[i], rs[i])

LEMMA PartsUndo ==
    ASSUME NoCopies, NEW p \in Policy, p.k \in Combinators, PartsInvert(p)
    PROVE  \E n \in Nat : Undoing(p, Parts(Eval, p), Parts(BackPolicy, p), EachRelate(Parts(BackPolicy, p)), n)
<1> DEFINE es == Parts(Eval, p)
           bs == Parts(BackPolicy, p)
           rs == EachRelate(bs)
<1>1. PICK n \in Nat :
         /\ n # 0 /\ DOMAIN p.ps = 1 .. n /\ Len(p.ps) = n
         /\ es \in Seq(Evaluations) /\ Len(es) = n /\ DOMAIN es = 1 .. n
         /\ \A i \in 1 .. n : p.ps[i] \in Policy /\ es[i] = Eval[p.ps[i]]
  BY Combination
<1>2. bs \in Seq(Traces) /\ Len(bs) = n /\ \A i \in 1 .. n : bs[i] = BackPolicy[p.ps[i]]
  BY <1>1, BackParts
<1> HIDE DEF es, bs
<1>3. /\ rs \in Seq(Evaluations) /\ Len(rs) = n /\ DOMAIN rs = 1 .. n
      /\ \A i \in 1 .. n : rs[i] = Relate[bs[i]] /\ bs[i] \in Traces
  BY <1>2, EachRelateType
<1>4. \A i \in 1 .. n : Inverts(p.ps[i])
  BY <1>1 DEF PartsInvert
<1> HIDE DEF rs
<1>5. \A i \in 1 .. n : LeadsBack(es[i], rs[i])
  BY <1>1, <1>2, <1>3, <1>4 DEF Inverts
<1>6. Undoing(p, es, bs, rs, n)
  BY <1>1, <1>2, <1>3, <1>5 DEF Undoing
<1> QED
  BY <1>6 DEF es, bs, rs

LEMMA ParallelInverts ==
    ASSUME NoCopies, NEW p \in Policy, p.k \in Parallels, PartsInvert(p)
    PROVE  Inverts(p)
<1> DEFINE es == Parts(Eval, p)
           bs == Parts(BackPolicy, p)
           rs == EachRelate(bs)
           b == BackPolicy[p]
<1>0. p.k \in Combinators
  BY DEF Combinators
<1>1. PICK n \in Nat : Undoing(p, es, bs, rs, n)
  BY <1>0, PartsUndo
<1>2. b \in Traces /\ b = Like(p, bs)
  BY BackExact, BackKinds
<1> HIDE DEF b, bs
<1>3. b.k = p.k /\ b.ps = bs
  BY <1>2 DEF Like
<1>4. \A x \in Packets : Eval[p][x] = EvalParallel(es, x)
  BY EvalExact, EvalKinds, PacketsAreFrames
<1>5. \A y \in Packets : Relate[b][y] = EvalOf(b, rs, y)
  BY <1>0, <1>2, <1>3, CombinedTrace, PacketsAreFrames
<1> HIDE DEF es, rs
<1>6. \A y \in Packets : Relate[b][y] = EvalParallel(rs, y)
  BY <1>3, <1>5, EvalKinds
<1>7. /\ \A x : EvalParallel(es, x) = UNION {es[i][x] : i \in 1 .. n}
      /\ \A y : EvalParallel(rs, y) = UNION {rs[i][y] : i \in 1 .. n}
  BY <1>1 DEF EvalParallel, Undoing
<1>8. \A i \in 1 .. n : /\ \A x \in Packets : es[i][x] \subseteq Packets /\ rs[i][x] \subseteq Packets
                        /\ \A x, y \in Packets : y \in es[i][x] <=> x \in rs[i][y]
  BY <1>1 DEF Undoing, LeadsBack
<1>9. LeadsBack(Eval[p], Relate[b])
  <2>1. \A x \in Packets : Eval[p][x] \subseteq Packets /\ Relate[b][x] \subseteq Packets
    BY <1>4, <1>6, <1>7, <1>8
  <2>2. \A x, y \in Packets : y \in Eval[p][x] <=> \E i \in 1 .. n : y \in es[i][x]
    BY <1>4, <1>7
  <2>3. \A x, y \in Packets : x \in Relate[b][y] <=> \E i \in 1 .. n : x \in rs[i][y]
    BY <1>6, <1>7
  <2> QED
    BY <1>8, <2>1, <2>2, <2>3 DEF LeadsBack
<1> QED
  BY <1>9 DEF Inverts, b

LEMMA NegateInverts ==
    ASSUME NoCopies, NEW p \in Policy, p.k = "negate", PartsInvert(p)
    PROVE  Inverts(p)
<1> DEFINE es == Parts(Eval, p)
           bs == Parts(BackPolicy, p)
           rs == EachRelate(bs)
           b == BackPolicy[p]
           f == p.ps[1]
<1>0. p.k \in Combinators /\ WellBuilt(p) /\ 1 \in DOMAIN p.ps
  BY PolicyClasses DEF Combinators
<1>1. PICK n \in Nat : Undoing(p, es, bs, rs, n)
  BY <1>0, PartsUndo
<1>2. b \in Traces /\ b = Like(p, bs)
  BY BackExact, BackKinds
<1> HIDE DEF b, bs
<1>3. b.k = "negate" /\ b.ps = bs
  BY <1>2 DEF Like
<1>4. \A x \in Packets : Eval[p][x] = EvalNegate(es, x)
  BY EvalExact, EvalKinds, PacketsAreFrames
<1>5. \A y \in Packets : Relate[b][y] = EvalOf(b, rs, y)
  BY <1>0, <1>2, <1>3, CombinedTrace, PacketsAreFrames
<1> HIDE DEF es, rs
<1>6. \A y \in Packets : Relate[b][y] = EvalNegate(rs, y)
  BY <1>3, <1>5, EvalKinds
<1>7. IsFilter(f) /\ f \in Policy /\ es[1] = Eval[f] /\ LeadsBack(es[1], rs[1])
  BY <1>0, <1>1 DEF WellBuilt, Undoing
<1>8. \A x \in Packets : es[1][x] \in {{}, {x}}
  BY <1>7, FilterEvals, PacketsAreFrames
<1> DEFINE E(x) == es[1][x]
           F(x) == rs[1][x]
<1>9. /\ \A x \in Packets : E(x) \in {{}, {x}} /\ F(x) \subseteq Packets
      /\ \A x, y \in Packets : y \in E(x) <=> x \in F(y)
  BY <1>7, <1>8 DEF LeadsBack
<1>10. /\ \A x \in Packets : Eval[p][x] = IF E(x) = {} THEN {x} ELSE {}
       /\ \A x \in Packets : Relate[b][x] = IF F(x) = {} THEN {x} ELSE {}
  BY <1>4, <1>6 DEF EvalNegate
<1> HIDE DEF E, F
<1>11. \A x \in Packets : E(x) = {} <=> F(x) = {}
  <2> SUFFICES ASSUME NEW x \in Packets PROVE E(x) = {} <=> F(x) = {}
    OBVIOUS
  <2>1. E(x) = {} <=> x \notin E(x)
    BY <1>9
  <2>2. \A y \in F(x) : y = x
    BY <1>9
  <2>3. F(x) = {} <=> x \notin F(x)
    BY <2>2
  <2> QED
    BY <1>9, <2>1, <2>3
<1>12. \A x \in Packets : Eval[p][x] = Relate[b][x] /\ Eval[p][x] \in {{}, {x}}
  BY <1>10, <1>11
<1>13. LeadsBack(Eval[p], Relate[b])
  BY <1>12 DEF LeadsBack
<1> QED
  BY <1>13 DEF Inverts, b

LEMMA IfInverts ==
    ASSUME NoCopies, NEW p \in Policy, p.k = "if", PartsInvert(p)
    PROVE  Inverts(p)
<1> DEFINE g == p.ps[4]
<1>0. p.k \in Combinators /\ DOMAIN p.ps = 1 .. 4
  BY PolicyClasses DEF Combinators
<1>1. Inverts(g) /\ 4 \in 1 .. 4
  BY <1>0 DEF PartsInvert
<1>2. Subs(p) = p.ps
  BY <1>0, PolicyClasses
<1>3. BackPolicy[p] = Parts(BackPolicy, p)[4]
  BY BackExact, BackKinds
<1>4. Parts(BackPolicy, p)[4] = BackPolicy[g]
  BY <1>0, <1>1, <1>2 DEF Parts
<1> HIDE DEF g
<1>5. \A x \in Packets : Eval[g][x] = Eval[p][x]
  BY IfExact, PacketsAreFrames DEF g
<1>6. LeadsBack(Eval[p], Relate[BackPolicy[g]])
  BY <1>1, <1>5 DEF Inverts, LeadsBack
<1> QED
  BY <1>3, <1>4, <1>6 DEF Inverts

\* The inverses c, from the last to the first, undo the first m of the evaluations es.
Undone(es, m, c) ==
    /\ \A x \in Packets : Through(es, x)[m] \subseteq Packets /\ Walk(Reverse(c), x) \subseteq Packets
    /\ \A x, y \in Packets : y \in Through(es, x)[m] <=> x \in Walk(Reverse(c), y)

LEMMA UndoneNone ==
    ASSUME NEW es \in Seq(Evaluations)
    PROVE  Undone(es, 0, <<>>)
<1>1. \A x \in Packets : Through(es, x)[0] = {x}
  BY ThroughExact, PacketsAreFrames
<1>2. \A x \in Packets : Walk(Reverse(<<>>), x) = {x}
  BY ReverseNone, WalkNone, PacketsAreFrames
<1> QED
  BY <1>1, <1>2 DEF Undone

LEMMA UndoneIdle ==
    ASSUME NEW es \in Seq(Evaluations), NEW m \in 1 .. Len(es), NEW c,
           \A x \in Packets : es[m][x] = {x}, Undone(es, m - 1, c)
    PROVE  Undone(es, m, c)
<1>1. \A x \in Packets : Through(es, x)[m] = Onward(es[m], Through(es, x)[m - 1])
  BY ThroughExact, PacketsAreFrames
<1>2. \A x \in Packets : Through(es, x)[m - 1] \subseteq Packets
  BY DEF Undone
<1>3. \A X : X \subseteq Packets => Onward(es[m], X) = X
  BY DEF Onward
<1>4. \A x \in Packets : Through(es, x)[m] = Through(es, x)[m - 1]
  BY <1>1, <1>2, <1>3
<1> QED
  BY <1>4 DEF Undone

LEMMA UndoneNext ==
    ASSUME NEW es \in Seq(Evaluations), NEW m \in 1 .. Len(es),
           NEW b \in Traces, NEW c \in Seq(Traces),
           LeadsBack(es[m], Relate[b]), Undone(es, m - 1, c)
    PROVE  Undone(es, m, c \o <<b>>)
<1> DEFINE e == es[m]
           r == Relate[b]
           A(x) == Through(es, x)[m - 1]
           B(x) == Through(es, x)[m]
           W(y) == Walk(Reverse(c), y)
           Z(y) == Walk(Reverse(c \o <<b>>), y)
<1>1. \A x \in Packets : B(x) = Onward(e, A(x))
  BY ThroughExact, PacketsAreFrames
<1>2. \A y \in Packets : Z(y) = UNION {W(z) : z \in r[y]}
  <2>1. Reverse(c \o <<b>>) = <<b>> \o Reverse(c) /\ Reverse(c) \in Seq(Traces)
    BY ReverseLast, ReverseType
  <2> QED
    BY <2>1, WalkOn, PacketsAreFrames
<1>3. /\ \A x \in Packets : A(x) \subseteq Packets /\ W(x) \subseteq Packets
      /\ \A x, y \in Packets : y \in A(x) <=> x \in W(y)
  BY DEF Undone
<1>4. /\ \A x \in Packets : e[x] \subseteq Packets /\ r[x] \subseteq Packets
      /\ \A x, y \in Packets : y \in e[x] <=> x \in r[y]
  BY DEF LeadsBack
<1> HIDE DEF e, r, A, B, W, Z
<1>5. \A x \in Packets : B(x) \subseteq Packets
  BY <1>1, <1>3, <1>4 DEF Onward
<1>6. \A y \in Packets : Z(y) \subseteq Packets
  BY <1>2, <1>3, <1>4
<1>7. ASSUME NEW x \in Packets, NEW y \in Packets
      PROVE  y \in B(x) <=> x \in Z(y)
  <2>1. y \in B(x) <=> \E z \in A(x) : y \in e[z]
    BY <1>1 DEF Onward
  <2>2. x \in Z(y) <=> \E z \in r[y] : x \in W(z)
    BY <1>2
  <2>3. (\E z \in A(x) : y \in e[z]) <=> \E z \in Packets : z \in A(x) /\ y \in e[z]
    BY <1>3
  <2>4. (\E z \in r[y] : x \in W(z)) <=> \E z \in Packets : x \in W(z) /\ z \in r[y]
    BY <1>4
  <2>5. \A z \in Packets : (z \in A(x) <=> x \in W(z)) /\ (y \in e[z] <=> z \in r[y])
    BY <1>3, <1>4
  <2> QED
    BY <2>1, <2>2, <2>3, <2>4, <2>5
<1> QED
  BY <1>5, <1>6, <1>7 DEF Undone, B, Z

LEMMA DroppedSequence ==
    ASSUME NEW es \in Seq(Evaluations), NEW i \in 1 .. Len(es),
           \A x \in Frames : es[i][x] = {}, NEW pkt \in Frames
    PROVE  Through(es, pkt)[Len(es)] = {}
<1> DEFINE n == Len(es)
           A(j) == Through(es, pkt)[j]
           T == {j \in 0 .. n : j >= i => A(j) = {}}
<1>1. n \in Nat /\ i \in 1 .. n
  BY LenProperties
<1>2. /\ \A j \in 0 .. n : A(j) \subseteq Frames
      /\ \A j \in 1 .. n : A(j) = Onward(es[j], A(j - 1))
  BY ThroughExact
<1> HIDE DEF n, A
<1>3. 0 \in T
  BY <1>1
<1>4. ASSUME NEW j \in 1 .. n, j - 1 \in T
      PROVE  j \in T
  <2>1. j \in 0 .. n /\ j - 1 \in 0 .. n
    BY <1>1
  <2>2. CASE j = i
    <3>1. A(j) = Onward(es[i], A(j - 1)) /\ A(j - 1) \subseteq Frames
      BY <1>2, <2>1, <2>2
    <3>2. Onward(es[i], A(j - 1)) = {}
      BY <3>1 DEF Onward
    <3> QED
      BY <2>1, <3>1, <3>2
  <2>3. CASE j > i
    <3>1. j - 1 >= i
      BY <1>1, <2>3
    <3>2. A(j - 1) = {} /\ A(j) = Onward(es[j], A(j - 1))
      BY <1>2, <1>4, <3>1
    <3>3. A(j) = {}
      BY <3>2 DEF Onward
    <3> QED
      BY <2>1, <3>3
  <2>4. CASE j < i
    BY <1>1, <2>1, <2>4
  <2> QED
    BY <1>1, <2>2, <2>3, <2>4
<1> HIDE DEF T
<1>5. \A j \in 0 .. n : j \in T
  BY <1>1, <1>3, <1>4, ClimbFromZero
<1>6. n \in 0 .. n /\ n >= i
  BY <1>1
<1>7. A(n) = {}
  BY <1>5, <1>6 DEF T
<1> QED
  BY <1>7 DEF A, n

LEMMA SequentialInverts ==
    ASSUME NoCopies, NEW p \in Policy, p.k \in Sequentials, PartsInvert(p)
    PROVE  Inverts(p)
<1> DEFINE es == Parts(Eval, p)
           bs == Parts(BackPolicy, p)
           rs == EachRelate(bs)
           b == BackPolicy[p]
           ss == Each(p, bs)
           kept == FlattenSeq(ss)
<1>0. p.k \in Combinators
  BY DEF Combinators
<1>1. PICK n \in Nat : Undoing(p, es, bs, rs, n)
  BY <1>0, PartsUndo
<1>2. b \in Traces /\ b = BackSequential(p, bs)
  BY BackExact, BackKinds
<1> HIDE DEF es, bs, rs, b
<1>3. /\ n # 0 /\ DOMAIN p.ps = 1 .. n
      /\ es \in Seq(Evaluations) /\ Len(es) = n
      /\ bs \in Seq(Traces) /\ Len(bs) = n
      /\ \A i \in 1 .. n : /\ p.ps[i] \in Policy /\ es[i] = Eval[p.ps[i]]
                           /\ bs[i] \in Traces /\ LeadsBack(es[i], Relate[bs[i]])
  BY <1>1 DEF Undoing
<1>4. \A x \in Packets : Eval[p][x] = Through(es, x)[n]
  <2>1. \A x \in Packets : Eval[p][x] = EvalSequential(es, x)
    BY EvalExact, EvalKinds, PacketsAreFrames DEF es
  <2> QED
    BY <1>3, <2>1 DEF EvalSequential
<1>5. /\ ss \in Seq(Seq(Traces)) /\ Len(ss) = n /\ kept \in Seq(Traces)
      /\ Drops(p) => b = Drop
      /\ ~Drops(p) => b = IF kept = <<>> THEN True ELSE Like(p, Reverse(kept))
  BY <1>2, <1>3, BackSequentialExact
<1>6. \A i \in 1 .. n : ss[i] = IF p.ps[i] = True THEN <<>> ELSE <<bs[i]>>
  <2>1. DOMAIN bs = 1 .. n
    BY <1>3, LenProperties
  <2> QED
    BY <2>1 DEF Each
<1> HIDE DEF ss, kept
<1>7. CASE Drops(p)
  <2>1. PICK i \in 1 .. n : p.ps[i] = Drop \/ IsQuery(p.ps[i])
    BY <1>3, <1>7 DEF Drops
  <2>2. p.ps[i].k \in {"drop", "controller", "bucket", "count"}
    BY <2>1, ConstantTraces DEF IsQuery
  <2>3. \A x \in Frames : es[i][x] = {}
    BY <1>3, <2>2, EvalExact, EvalKinds
  <2>4. \A x \in Packets : Eval[p][x] = {}
    BY <1>3, <1>4, <2>3, DroppedSequence, PacketsAreFrames
  <2>5. b.k = "drop"
    BY <1>5, <1>7, ConstantTraces
  <2>6. \A y \in Packets : Relate[b][y] = {}
    BY <1>2, <2>5, RelateKinds, EvalKinds, PacketsAreFrames
  <2>7. LeadsBack(Eval[p], Relate[b])
    BY <2>4, <2>6 DEF LeadsBack
  <2> QED
    BY <2>7 DEF Inverts, b
<1>8. CASE ~Drops(p)
  <2> DEFINE P == {x \in (1 .. n) \X Seq(Traces) : Undone(es, x[1], x[2])}
  <2>1. ASSUME NEW m \in 1 .. n, NEW c \in Seq(Traces), Undone(es, m - 1, c)
        PROVE  <<m, c \o ss[m]>> \in P
    <3>1. m \in 1 .. Len(es)
      BY <1>3
    <3>2. CASE p.ps[m] = True
      <4>1. c \o ss[m] = c
        BY <1>6, <3>2, ConcatEmptySeq
      <4>2. \A x \in Packets : es[m][x] = {x}
        BY <1>3, <3>2, EvalExact, EvalKinds, ConstantTraces, PacketsAreFrames
      <4>3. Undone(es, m, c)
        BY <1>3, <2>1, <3>1, <4>2, UndoneIdle
      <4> QED
        BY <4>1, <4>3
    <3>3. CASE p.ps[m] # True
      <4>1. ss[m] = <<bs[m]>> /\ bs[m] \in Traces /\ LeadsBack(es[m], Relate[bs[m]])
        BY <1>3, <1>6, <3>3
      <4>2. Undone(es, m, c \o <<bs[m]>>)
        BY <1>3, <2>1, <3>1, <4>1, UndoneNext
      <4>3. c \o <<bs[m]>> \in Seq(Traces)
        BY <4>1
      <4> QED
        BY <4>1, <4>2, <4>3
    <3> QED
      BY <3>2, <3>3
  <2>2. <<1, ss[1]>> \in P
    <3>1. 1 \in 1 .. n /\ 1 - 1 = 0
      BY <1>3
    <3>2. <<>> \in Seq(Traces) /\ Undone(es, 1 - 1, <<>>)
      BY <1>3, <3>1, UndoneNone
    <3>3. <<1, <<>> \o ss[1]>> \in P
      BY <2>1, <3>1, <3>2
    <3>4. ss[1] \in Seq(Traces)
      BY <1>5, <3>1, ElementOfSeq
    <3>5. <<>> \o ss[1] = ss[1]
      BY <3>4, ConcatEmptySeq
    <3> QED
      BY <3>3, <3>5
  <2>3. \A m \in 2 .. n, c \in Seq(Traces) : <<m - 1, c>> \in P => <<m, c \o ss[m]>> \in P
    <3> SUFFICES ASSUME NEW m \in 2 .. n, NEW c \in Seq(Traces), <<m - 1, c>> \in P
                 PROVE  <<m, c \o ss[m]>> \in P
      OBVIOUS
    <3>1. Undone(es, m - 1, c) /\ m \in 1 .. n
      BY <1>3
    <3> QED
      BY <2>1, <3>1
  <2> HIDE DEF P
  <2>4. <<n, kept>> \in P
    <3>1. Len(ss) # 0
      BY <1>3, <1>5
    <3>2. \A m \in 2 .. Len(ss), c \in Seq(Traces) : <<m - 1, c>> \in P => <<m, c \o ss[m]>> \in P
      BY <1>5, <2>3
    <3>3. <<Len(ss), FlattenSeq(ss)>> \in P
      BY <1>5, <2>2, <3>1, <3>2, FlattenInduction
    <3> QED
      BY <1>5, <3>3 DEF kept
  <2>5. Undone(es, n, kept)
    BY <2>4 DEF P
  <2>6. \A y \in Packets : Relate[b][y] = Walk(Reverse(kept), y)
    <3>1. CASE kept = <<>>
      <4>1. b.k = "identity"
        BY <1>5, <1>8, <3>1, ConstantTraces
      <4>2. \A y \in Packets : Relate[b][y] = {y}
        BY <1>2, <4>1, RelateKinds, EvalKinds, PacketsAreFrames
      <4> QED
        BY <3>1, <4>2, ReverseNone, WalkNone, PacketsAreFrames
    <3>2. CASE kept # <<>>
      <4> DEFINE w == Reverse(kept)
      <4>1. b = Like(p, w)
        BY <1>5, <1>8, <3>2
      <4> HIDE DEF w
      <4>2. b.k = p.k /\ b.ps = w
        BY <4>1 DEF Like
      <4>3. b.ps \in Seq(Traces) /\ \A y \in Packets : Relate[b][y] = EvalOf(b, EachRelate(w), y)
        BY <1>0, <1>2, <4>2, CombinedTrace, PacketsAreFrames
      <4>4. \A y \in Packets : Relate[b][y] = EvalSequential(EachRelate(w), y)
        BY <4>2, <4>3, EvalKinds
      <4>5. Len(EachRelate(w)) = Len(w)
        BY <4>2, <4>3, EachRelateType
      <4> QED
        BY <4>4, <4>5 DEF EvalSequential, Walk, w
    <3> QED
      BY <3>1, <3>2
  <2>7. LeadsBack(Eval[p], Relate[b])
    BY <1>4, <2>5, <2>6 DEF Undone, LeadsBack
  <2> QED
    BY <2>7 DEF Inverts, b
<1> QED
  BY <1>7, <1>8
-----------------------------------------------------------------------------
(* The inverse of a policy relates a packet to the packets that the policy turns
   into it, and to no others: for every policy, if modifications copy no field. *)
THEOREM BackIsInverse ==
    ASSUME NoCopies
    PROVE  \A p \in Policy : Inverts(p)
<1> DEFINE T == {p \in Policy : Inverts(p)}
<1>1. Leaves \subseteq T
  BY LeafInverts, PolicyKinds
<1>2. ASSUME NEW p \in Policy, p \notin Leaves, \A i \in DOMAIN p.ps : p.ps[i] \in T
      PROVE  p \in T
  <2>1. p.k \in Combinators /\ PartsInvert(p)
    BY <1>2, PolicyClasses DEF PartsInvert
  <2>2. p.k \in Parallels \/ p.k \in Sequentials \/ p.k = "negate" \/ p.k = "if"
    BY <2>1 DEF Combinators
  <2>3. Inverts(p)
    BY <2>1, <2>2, ParallelInverts, SequentialInverts, NegateInverts, IfInverts
  <2> QED
    BY <2>3
<1> HIDE DEF T
<1>3. Policy \subseteq T
  BY <1>1, <1>2, PolicyInduction
<1> QED
  BY <1>3 DEF T

(* back_policy of any program leads a packet back to where it came from. *)
THEOREM BackInvertsHolds ==
    ASSUME NoCopies
    PROVE  Spec => []BackInverts
<1>1. pol \in Policy => BackInverts
  <2> SUFFICES ASSUME pol \in Policy PROVE BackInverts
    OBVIOUS
  <2>1. Samples \subseteq Packets
    BY PoliciesAssumption
  <2> DEFINE back == BackPolicy[pol]
  <2>2. /\ \A x \in Packets : Eval[pol][x] \subseteq Packets /\ Relate[back][x] \subseteq Packets
        /\ \A x, y \in Packets : y \in Eval[pol][x] <=> x \in Relate[back][y]
    BY BackIsInverse DEF Inverts, LeadsBack
  <2> HIDE DEF back
  <2>3. \A p \in Samples : \A q \in Eval[pol][p] : p \in Relate[back][q]
    BY <2>1, <2>2
  <2>4. \A q \in Samples : \A p \in Relate[back][q] : q \in Eval[pol][p]
    BY <2>1, <2>2
  <2> QED
    BY <2>3, <2>4 DEF BackInverts, back
<1> QED
  BY <1>1, ProgramsArePolicies, PTL
=============================================================================
