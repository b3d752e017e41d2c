---------------------------- MODULE PolicyProofs ----------------------------
(***************************************************************************)
(* The policy compiler, for the policies of any program.                   *)
(*                                                                         *)
(* First matches, modifications and classifiers, for any fields, values    *)
(* and networks: what +, >>, negation and the removal of shadowed rules do *)
(* with a packet follows from what the classifiers they are given do.      *)
(* Then policies of any atoms, buckets and counters and any nesting, by    *)
(* induction over them: compile treats packets as their evaluation does,   *)
(* and queries_in_eval finds the queries that the evaluation reaches.      *)
(* Last the transformations of install_classifier, one by one, and that    *)
(* the tables they make of a program forward packets as its eval does.     *)
(***************************************************************************)
EXTENDS Transforms, SequenceTheorems, FiniteSetTheorems, WellFoundedInduction, TLAPS

(* Matches and modifications *)

MatchOf == UNION {[D -> Patterns] : D \in SUBSET Fields}
ModOf   == UNION {[D -> Values \union Fields] : D \in SUBSET Fields}

(* No packet passes two tests whose intersect is drop. *)
LEMMA DisjointApart ==
    ASSUME NEW m1 \in MatchOf, NEW m2 \in MatchOf, Disjoint(m1, m2), NEW pkt
    PROVE  ~(Sat(m1, pkt) /\ Sat(m2, pkt))
<1>1. PICK f \in DOMAIN m1 \intersect DOMAIN m2 :
         ~(m1[f] \subseteq m2[f]) /\ ~(m2[f] \subseteq m1[f])
  BY DEF Disjoint
<1>2. m1[f] \in Patterns /\ m2[f] \in Patterns
  BY <1>1 DEF MatchOf
<1>3. m1[f] \intersect m2[f] = {}
  BY <1>1, <1>2, PatternsAssumption
<1> QED
  BY <1>1, <1>3 DEF Sat

(* Otherwise match.intersect accepts the packets that both accept. *)
THEOREM MeetExact ==
    ASSUME NEW m1 \in MatchOf, NEW m2 \in MatchOf, ~Disjoint(m1, m2), NEW pkt
    PROVE  Sat(Meet(m1, m2), pkt) <=> Sat(m1, pkt) /\ Sat(m2, pkt)
<1> DEFINE m == Meet(m1, m2)
<1>1. DOMAIN m = DOMAIN m1 \union DOMAIN m2
  BY DEF Meet
<1>2. ASSUME NEW f \in DOMAIN m
      PROVE  pkt[f] \in m[f] <=> /\ f \in DOMAIN m1 => pkt[f] \in m1[f]
                                 /\ f \in DOMAIN m2 => pkt[f] \in m2[f]
  <2>1. CASE f \in DOMAIN m1 /\ (f \in DOMAIN m2 => m1[f] \subseteq m2[f])
    BY <1>1, <2>1 DEF Meet
  <2>2. CASE ~(f \in DOMAIN m1 /\ (f \in DOMAIN m2 => m1[f] \subseteq m2[f]))
    <3>1. f \in DOMAIN m2 /\ m[f] = m2[f]
      BY <1>1, <2>2 DEF Meet
    <3>2. f \in DOMAIN m1 => m2[f] \subseteq m1[f]
      BY <2>2, <3>1 DEF Disjoint
    <3> QED BY <3>1, <3>2
  <2> QED BY <2>1, <2>2
<1> QED BY <1>1, <1>2 DEF Sat

(* match.intersect is drop exactly for tests that no packet passes together:
   other tests have a packet in common, with a value of the more specific
   pattern in every field that they name. *)
THEOREM DisjointExact ==
    ASSUME NEW m1 \in MatchOf, NEW m2 \in MatchOf
    PROVE  Disjoint(m1, m2) <=> \A pkt \in Packets : ~(Sat(m1, pkt) /\ Sat(m2, pkt))
<1>1. ASSUME ~Disjoint(m1, m2)
      PROVE  \E pkt \in Packets : Sat(m1, pkt) /\ Sat(m2, pkt)
  <2> DEFINE m == Meet(m1, m2)
             pkt == [f \in Fields |-> IF f \in DOMAIN m THEN CHOOSE v \in m[f] : TRUE ELSE Absent]
  <2>1. DOMAIN m = DOMAIN m1 \union DOMAIN m2 /\ DOMAIN m \subseteq Fields
    BY DEF Meet, MatchOf
  <2>2. \A f \in DOMAIN m : m[f] \in Patterns
    BY DEF Meet, MatchOf
  <2> HIDE DEF m
  <2>3. ASSUME NEW f \in DOMAIN m
        PROVE  m[f] # {} /\ m[f] \subseteq Values \union {Absent}
    <3>1. m[f] \in Patterns /\ {} \notin Patterns
      BY <2>2, PatternsAssumption
    <3>2. m[f] \in SUBSET (Values \union {Absent})
      BY <3>1, PatternsAssumption
    <3> QED
      BY <3>1, <3>2
  <2>4. \A f \in DOMAIN m : pkt[f] \in m[f]
    <3>1. ASSUME NEW f \in DOMAIN m PROVE (CHOOSE v \in m[f] : TRUE) \in m[f]
      BY <2>3
    <3>2. ASSUME NEW f \in DOMAIN m PROVE pkt[f] = CHOOSE v \in m[f] : TRUE
      BY <2>1
    <3> HIDE DEF pkt
    <3> QED
      BY <3>1, <3>2
  <2>5. pkt \in Packets
    BY <2>1, <2>3 DEF Packets
  <2> HIDE DEF pkt
  <2>6. Sat(m, pkt)
    BY <2>4 DEF Sat
  <2> QED
    BY <1>1, <2>5, <2>6, MeetExact DEF m
<1> QED
  BY <1>1, DisjointApart

(* match.covers: a covered rule never sees a packet, so that dropping it from
   a classifier (remove_shadowed_cover_single) changes nothing. *)
THEOREM CoversSound ==
    ASSUME NEW m1 \in MatchOf, NEW m2 \in MatchOf, Covers(m1, m2), NEW pkt, Sat(m2, pkt)
    PROVE  Sat(m1, pkt)
  BY DEF Covers, Sat

(* _commute_test returns b' with p >> b == b' >> p, for tests that are exact on
   what p assigns: they compare with one address, or with others only. *)
THEOREM CommuteExact ==
    ASSUME NEW a \in ModOf, NEW m \in MatchOf, NEW pkt,
           Compilable(a), Exact(a, m), DOMAIN m \subseteq Fields
    PROVE  /\ CommuteDrops(a, m) => ~Sat(m, Modified(pkt, a))
           /\ ~CommuteDrops(a, m) => (Sat(m, Modified(pkt, a)) <=> Sat(Commuted(a, m), pkt))
<1> DEFINE q == Modified(pkt, a)
<1>1. ASSUME NEW f \in DOMAIN m
      PROVE  q[f] = IF f \in DOMAIN a THEN a[f] ELSE pkt[f]
  BY DEF Modified, Compilable
<1>2. ASSUME CommuteDrops(a, m) PROVE ~Sat(m, q)
  <2>1. PICK f \in DOMAIN a \intersect DOMAIN m : m[f] # {a[f]}
    BY <1>2 DEF CommuteDrops
  <2>2. a[f] \notin m[f]
    BY <2>1 DEF Exact
  <2> HIDE DEF q
  <2> QED BY <1>1, <2>1, <2>2 DEF Sat
<1>3. ASSUME ~CommuteDrops(a, m) PROVE Sat(m, q) <=> Sat(Commuted(a, m), pkt)
  <2>1. \A f \in DOMAIN a \intersect DOMAIN m : q[f] \in m[f]
    BY <1>1, <1>3 DEF CommuteDrops
  <2> HIDE DEF q
  <2> QED BY <1>1, <2>1 DEF Sat, Commuted
<1> QED BY <1>2, <1>3

(* Two modifications in a row are the merged one. *)
THEOREM MergedExact ==
    ASSUME NEW a \in ModOf, NEW b \in ModOf, Compilable(a), Compilable(b), NEW pkt
    PROVE  Modified(Modified(pkt, a), b) = Modified(pkt, Merged(a, b))
<1>1. ASSUME NEW f \in Fields
      PROVE  Modified(Modified(pkt, a), b)[f] = Modified(pkt, Merged(a, b))[f]
  BY DEF Modified, Merged, Compilable
<1> QED BY <1>1 DEF Modified
-----------------------------------------------------------------------------
(* Numbers and recursion *)

LEMMA LeastNumber ==
    ASSUME NEW T, T \subseteq Nat, T # {}
    PROVE  \E n \in T : \A k \in T : n <= k
<1>1. PICK n \in T : \A k \in T : <<k, n>> \notin OpToRel(<, Nat)
  BY NatLessThanWellFounded, WFMin
<1>2. \A k \in T : ~(k < n)
  BY <1>1 DEF OpToRel
<1> QED
  BY <1>2

LEMMA Induction ==
    ASSUME NEW S, 0 \in S, \A n \in Nat : n \in S => n + 1 \in S
    PROVE  Nat \subseteq S
<1> SUFFICES ASSUME Nat \ S # {} PROVE FALSE
  OBVIOUS
<1>1. PICK n \in Nat \ S : \A k \in Nat \ S : n <= k
  BY LeastNumber
<1>2. n # 0 /\ n - 1 \in Nat /\ n - 1 \in S
  BY <1>1
<1> QED
  BY <1>1, <1>2

\* A recursion over 1 .. N that f follows.
Follows(f, N, first, step) == f[1] = first /\ \A n \in 2 .. N : f[n] = step[n][f[n - 1]]

LEMMA RecursionExists ==
    ASSUME NEW S, NEW N \in Nat, N # 0, NEW first \in S, NEW step \in [2 .. N -> [S -> S]]
    PROVE  \E f \in [1 .. N -> S] : Follows(f, N, first, step)
<1> DEFINE Solves(f, m) == /\ f \in [1 .. m + 1 -> S]
                           /\ f[1] = first
                           /\ \A n \in 2 .. m + 1 : f[n] = step[n][f[n - 1]]
           T == {m \in Nat : m + 1 <= N => \E f : Solves(f, m)}
<1>1. 0 \in T
  <2>1. Solves([n \in 1 .. 1 |-> first], 0)
    OBVIOUS
  <2> QED
    BY <2>1
<1>2. ASSUME NEW m \in Nat, m \in T
      PROVE  m + 1 \in T
  <2> SUFFICES ASSUME m + 2 <= N PROVE \E f : Solves(f, m + 1)
    OBVIOUS
  <2>1. PICK f : Solves(f, m)
    BY <1>2
  <2> DEFINE g == [n \in 1 .. m + 2 |-> IF n <= m + 1 THEN f[n] ELSE step[m + 2][f[m + 1]]]
  <2>2. f[m + 1] \in S /\ m + 2 \in 2 .. N
    BY <2>1
  <2>3. step[m + 2][f[m + 1]] \in S
    BY <2>2
  <2>4. g \in [1 .. m + 2 -> S] /\ g[1] = first
    BY <2>1, <2>3
  <2>5. ASSUME NEW n \in 2 .. m + 2
        PROVE  g[n] = step[n][g[n - 1]]
    BY <2>1
  <2>6. (m + 1) + 1 = m + 2
    OBVIOUS
  <2>7. Solves(g, m + 1)
    BY <2>4, <2>5, <2>6
  <2> QED
    BY <2>7
<1>3. N - 1 \in T
  <2> HIDE DEF T
  <2>1. Nat \subseteq T
    BY <1>1, <1>2, Induction
  <2> QED
    BY <2>1
<1>4. PICK f : Solves(f, N - 1)
  BY <1>3
<1> QED
  BY <1>4 DEF Follows
-----------------------------------------------------------------------------
(* Sequences *)

LEMMA Flattening ==
    ASSUME NEW S, NEW ss \in Seq(Seq(S)), Len(ss) # 0
    PROVE  \E f \in [1 .. Len(ss) -> Seq(S)] :
              /\ f[1] = ss[1]
              /\ \A n \in 2 .. Len(ss) : f[n] = f[n - 1] \o ss[n]
              /\ FlattenSeq(ss) = f[Len(ss)]
<1> DEFINE N == Len(ss)
           Q == Seq(S)
           Cat(x, y) == x \o y
           R(h) == h = [i \in 1 .. N |-> IF i = 1 THEN ss[i] ELSE Cat(h[i - 1], ss[i])]
           f == CHOOSE h : R(h)
           step == [i \in 2 .. N |-> [x \in Q |-> Cat(x, ss[i])]]
<1>1. N \in Nat /\ N # 0 /\ \A i \in 1 .. N : ss[i] \in Q
  BY LenProperties, ElementOfSeq
<1>2. FlattenSeq(ss) = f[N]
  BY DEF FlattenSeq
<1>3. \A i \in 2 .. N, x \in Q : Cat(x, ss[i]) \in Q
  BY <1>1, ConcatProperties
<1>4. \A i \in 2 .. N, x \in Q : step[i][x] = Cat(x, ss[i])
  OBVIOUS
<1> HIDE DEF Cat, Q, N, f
<1>5. step \in [2 .. N -> [Q -> Q]]
  BY <1>3
<1> HIDE DEF step
<1>6. PICK g \in [1 .. N -> Q] : Follows(g, N, ss[1], step)
  <2>1. N \in Nat /\ N # 0 /\ ss[1] \in Q
    BY <1>1
  <2> QED
    BY <2>1, <1>5, RecursionExists
<1>7. g[1] = ss[1] /\ \A i \in 2 .. N : g[i] = Cat(g[i - 1], ss[i])
  <2>1. g[1] = ss[1] /\ \A i \in 2 .. N : g[i] = step[i][g[i - 1]]
    BY <1>6 DEF Follows
  <2>2. ASSUME NEW i \in 2 .. N
        PROVE  g[i] = Cat(g[i - 1], ss[i])
    <3>1. i - 1 \in 1 .. N
      BY <1>1
    <3>2. g[i - 1] \in Q
      BY <1>6, <3>1
    <3>3. step[i][g[i - 1]] = Cat(g[i - 1], ss[i])
      BY <1>4, <3>2
    <3> QED
      BY <2>1, <3>3
  <2> QED
    BY <2>1, <2>2
<1>8. R(g)
  <2>1. \A i \in 1 .. N : g[i] = IF i = 1 THEN ss[i] ELSE Cat(g[i - 1], ss[i])
    BY <1>1, <1>7
  <2> QED
    BY <2>1
<1>9. R(f)
  BY <1>8 DEF f
<1>10. f[1] = ss[1] /\ \A n \in 2 .. N : f[n] = Cat(f[n - 1], ss[n])
  BY <1>1, <1>9
<1> DEFINE T == {n \in Nat : n + 1 \in 1 .. N => f[n + 1] \in Q}
<1>11. ASSUME NEW i \in 1 .. N
       PROVE  f[i] \in Q
  <2>1. 0 \in T
    BY <1>1, <1>10
  <2>2. ASSUME NEW n \in Nat, n \in T PROVE n + 1 \in T
    BY <1>1, <1>3, <1>10, <2>2
  <2>3. i - 1 \in T
    <3> HIDE DEF T
    <3>1. Nat \subseteq T
      BY <2>1, <2>2, Induction
    <3> QED
      BY <1>1, <3>1
  <2> QED
    BY <2>3
<1>12. f \in [1 .. N -> Seq(S)]
  BY <1>9, <1>11 DEF Q
<1> QED
  BY <1>2, <1>10, <1>12 DEF N, Cat

LEMMA FlattenType ==
    ASSUME NEW S, NEW ss \in Seq(Seq(S))
    PROVE  FlattenSeq(ss) \in Seq(S)
<1>1. CASE Len(ss) = 0
  <2>1. ss = <<>>
    BY <1>1, EmptySeq
  <2> QED
    BY <1>1, <2>1, EmptySeq DEF FlattenSeq
<1>2. CASE Len(ss) # 0
  <2>1. PICK f \in [1 .. Len(ss) -> Seq(S)] : FlattenSeq(ss) = f[Len(ss)]
    BY <1>2, Flattening
  <2>2. Len(ss) \in 1 .. Len(ss)
    BY <1>2, LenProperties
  <2> QED
    BY <2>1, <2>2
<1> QED
  BY <1>1, <1>2

\* What holds of the concatenation of two sequences, and of the first sequence,
\* holds of all of them flattened.
LEMMA FlattenInduction ==
    ASSUME NEW S, NEW ss \in Seq(Seq(S)), Len(ss) # 0,
           NEW P,
           <<1, ss[1]>> \in P,
           \A n \in 2 .. Len(ss), c \in Seq(S) : <<n - 1, c>> \in P => <<n, c \o ss[n]>> \in P
    PROVE  <<Len(ss), FlattenSeq(ss)>> \in P
<1>1. PICK f \in [1 .. Len(ss) -> Seq(S)] :
         /\ f[1] = ss[1]
         /\ \A n \in 2 .. Len(ss) : f[n] = f[n - 1] \o ss[n]
         /\ FlattenSeq(ss) = f[Len(ss)]
  BY Flattening
<1> DEFINE N == Len(ss)
           T == {n \in Nat : n \in 1 .. N => <<n, f[n]>> \in P}
<1>2. N \in Nat /\ N # 0
  BY LenProperties
<1> HIDE DEF N
<1>3. ASSUME NEW n \in Nat, n \in T
      PROVE  n + 1 \in T
  <2> SUFFICES ASSUME n + 1 \in 1 .. N PROVE <<n + 1, f[n + 1]>> \in P
    OBVIOUS
  <2>1. CASE n = 0
    <3>1. n + 1 = 1
      BY <2>1
    <3> QED
      BY <1>1, <3>1, Zenon
  <2>2. CASE n # 0
    <3>1. n \in 1 .. N /\ n + 1 \in 2 .. N /\ (n + 1) - 1 = n
      BY <2>2, <1>2
    <3>2. f[n] \in Seq(S) /\ <<(n + 1) - 1, f[n]>> \in P
      <4>1. <<n, f[n]>> \in P
        BY <1>3, <3>1
      <4> QED
        BY <3>1, <4>1 DEF N
    <3>3. f[n + 1] = f[n] \o ss[n + 1]
      BY <1>1, <3>1, Zenon DEF N
    <3> QED
      BY <3>1, <3>2, <3>3, Zenon DEF N
  <2> QED
    BY <2>1, <2>2
<1>4. N \in T
  <2>1. 0 \in T
    OBVIOUS
  <2> HIDE DEF T
  <2>2. Nat \subseteq T
    BY <1>3, <2>1, Induction
  <2> QED
    BY <1>2, <2>2
<1>5. N \in 1 .. N
  BY <1>2
<1> QED
  BY <1>1, <1>4, <1>5, Zenon DEF N

LEMMA ConcatRange ==
    ASSUME NEW S, NEW s \in Seq(S), NEW t \in Seq(S)
    PROVE  Range(s \o t) = Range(s) \union Range(t)
<1>1. /\ Len(s) \in Nat /\ Len(t) \in Nat /\ Len(s \o t) = Len(s) + Len(t)
      /\ DOMAIN s = 1 .. Len(s) /\ DOMAIN t = 1 .. Len(t) /\ DOMAIN (s \o t) = 1 .. Len(s) + Len(t)
      /\ \A i \in 1 .. Len(s) + Len(t) : (s \o t)[i] = IF i <= Len(s) THEN s[i] ELSE t[i - Len(s)]
  BY ConcatProperties, LenProperties
<1>2. ASSUME NEW x \in Range(s \o t)
      PROVE  x \in Range(s) \union Range(t)
  BY <1>1 DEF Range
<1>3. ASSUME NEW x \in Range(s)
      PROVE  x \in Range(s \o t)
  BY <1>1 DEF Range
<1>4. ASSUME NEW x \in Range(t)
      PROVE  x \in Range(s \o t)
  <2>1. PICK i \in 1 .. Len(t) : x = t[i]
    BY <1>1 DEF Range
  <2>2. i + Len(s) \in 1 .. Len(s) + Len(t) /\ (s \o t)[i + Len(s)] = t[i]
    BY <1>1
  <2> QED
    BY <1>1, <2>1, <2>2 DEF Range
<1> QED
  BY <1>2, <1>3, <1>4

LEMMA FlattenRange ==
    ASSUME NEW S, NEW ss \in Seq(Seq(S))
    PROVE  Range(FlattenSeq(ss)) = UNION {Range(ss[i]) : i \in DOMAIN ss}
<1>1. CASE Len(ss) = 0
  BY <1>1, EmptySeq, LenProperties DEF FlattenSeq, Range
<1>2. CASE Len(ss) # 0
  <2> DEFINE P == {x \in (1 .. Len(ss)) \X Seq(S) : Range(x[2]) = UNION {Range(ss[i]) : i \in 1 .. x[1]}}
  <2>0. Len(ss) \in Nat /\ DOMAIN ss = 1 .. Len(ss) /\ \A i \in 1 .. Len(ss) : ss[i] \in Seq(S)
    BY LenProperties, ElementOfSeq
  <2>1. <<1, ss[1]>> \in P
    BY <1>2, <2>0
  <2>2. ASSUME NEW n \in 2 .. Len(ss), NEW c \in Seq(S), <<n - 1, c>> \in P
        PROVE  <<n, c \o ss[n]>> \in P
    <3>1. Range(c) = UNION {Range(ss[i]) : i \in 1 .. n - 1}
      BY <2>2
    <3>2. Range(c \o ss[n]) = Range(c) \union Range(ss[n]) /\ c \o ss[n] \in Seq(S)
      BY <2>0, ConcatRange, ConcatProperties
    <3>3. 1 .. n = (1 .. n - 1) \union {n}
      BY <2>0
    <3>4. UNION {Range(ss[i]) : i \in 1 .. n} = Range(c) \union Range(ss[n])
      BY <3>1, <3>3
    <3>5. Range(c \o ss[n]) = UNION {Range(ss[i]) : i \in 1 .. n}
      BY <3>2, <3>4, Zenon
    <3>6. n \in 1 .. Len(ss)
      BY <2>0
    <3> QED
      BY <3>2, <3>5, <3>6
  <2> HIDE DEF P
  <2>3. <<Len(ss), FlattenSeq(ss)>> \in P
    BY <1>2, <2>1, <2>2, FlattenInduction
  <2> QED
    BY <2>0, <2>3 DEF P
<1> QED
  BY <1>1, <1>2
-----------------------------------------------------------------------------
(* Classifiers *)

\* No rule of c matches pkt.
Silent(c, pkt) == \A i \in DOMAIN c : ~Sat(c[i].match, pkt)

\* The first rule of c that matches pkt has the actions as.
Decided(c, pkt, as) ==
    \E i \in DOMAIN c : /\ Sat(c[i].match, pkt)
                        /\ c[i].actions = as
                        /\ \A j \in 1 .. i - 1 : ~Sat(c[j].match, pkt)

LEMMA ConcatDecides ==
    ASSUME NEW S, NEW c \in Seq(S), NEW d \in Seq(S), NEW pkt
    PROVE  /\ Silent(c \o d, pkt) <=> Silent(c, pkt) /\ Silent(d, pkt)
           /\ \A as : Decided(c \o d, pkt, as) <=>
                 Decided(c, pkt, as) \/ (Silent(c, pkt) /\ Decided(d, pkt, as))
<1> DEFINE e == c \o d
           m == Len(c)
           n == Len(d)
           On(i) == Sat(c[i].match, pkt)
           Dn(i) == Sat(d[i].match, pkt)
           En(i) == Sat(e[i].match, pkt)
<1>1. m \in Nat /\ n \in Nat /\ DOMAIN c = 1 .. m /\ DOMAIN d = 1 .. n /\ DOMAIN e = 1 .. m + n
  BY ConcatProperties, LenProperties
<1>2. \A i \in 1 .. m : e[i] = c[i]
  BY <1>1, ConcatProperties
<1>3. \A i \in 1 .. n : e[m + i] = d[i]
  <2> SUFFICES ASSUME NEW i \in 1 .. n PROVE e[m + i] = d[i]
    OBVIOUS
  <2>1. m + i \in 1 .. m + n /\ ~(m + i <= m) /\ (m + i) - m = i
    BY <1>1
  <2> QED
    BY <2>1, ConcatProperties
<1> HIDE DEF e, m, n
<1>4. \A i \in 1 .. m : En(i) <=> On(i)
  BY <1>2
<1>5. \A i \in 1 .. n : En(m + i) <=> Dn(i)
  BY <1>3
<1>6. \A i \in 1 .. m + n : i \in 1 .. m \/ (i - m \in 1 .. n /\ m + (i - m) = i)
  BY <1>1
<1>7. \A i \in 1 .. n : m + i \in 1 .. m + n
  BY <1>1
<1>8. Silent(c, pkt) <=> \A i \in 1 .. m : ~On(i)
  BY <1>1 DEF Silent
<1>9. Silent(d, pkt) <=> \A i \in 1 .. n : ~Dn(i)
  BY <1>1 DEF Silent
<1>10. Silent(e, pkt) <=> \A i \in 1 .. m + n : ~En(i)
  BY <1>1 DEF Silent
<1>11. \A as : Decided(c, pkt, as) <=> \E i \in 1 .. m : /\ On(i)
                                                        /\ c[i].actions = as
                                                        /\ \A j \in 1 .. i - 1 : ~On(j)
  BY <1>1 DEF Decided
<1>12. \A as : Decided(d, pkt, as) <=> \E i \in 1 .. n : /\ Dn(i)
                                                        /\ d[i].actions = as
                                                        /\ \A j \in 1 .. i - 1 : ~Dn(j)
  BY <1>1 DEF Decided
<1>13. \A as : Decided(e, pkt, as) <=> \E i \in 1 .. m + n : /\ En(i)
                                                            /\ e[i].actions = as
                                                            /\ \A j \in 1 .. i - 1 : ~En(j)
  BY <1>1 DEF Decided
<1> HIDE DEF On, Dn, En
<1>14. Silent(e, pkt) <=> Silent(c, pkt) /\ Silent(d, pkt)
  <2>1. ASSUME Silent(e, pkt) PROVE Silent(c, pkt) /\ Silent(d, pkt)
    <3>1. \A i \in 1 .. m : ~On(i)
      BY <2>1, <1>1, <1>4, <1>10
    <3>2. \A i \in 1 .. n : ~Dn(i)
      BY <2>1, <1>5, <1>7, <1>10
    <3> QED
      BY <3>1, <3>2, <1>8, <1>9
  <2>2. ASSUME Silent(c, pkt), Silent(d, pkt) PROVE Silent(e, pkt)
    <3> SUFFICES ASSUME NEW i \in 1 .. m + n PROVE ~En(i)
      BY <1>10
    <3>1. CASE i \in 1 .. m
      BY <3>1, <2>2, <1>4, <1>8
    <3>2. CASE i - m \in 1 .. n /\ m + (i - m) = i
      BY <3>2, <2>2, <1>5, <1>9
    <3> QED
      BY <3>1, <3>2, <1>6
  <2> QED
    BY <2>1, <2>2
<1>15. ASSUME NEW as, Decided(c, pkt, as)
       PROVE  Decided(e, pkt, as)
  <2>1. PICK i \in 1 .. m : On(i) /\ c[i].actions = as /\ \A j \in 1 .. i - 1 : ~On(j)
    BY <1>11, <1>15
  <2>2. i \in 1 .. m + n /\ \A j \in 1 .. i - 1 : j \in 1 .. m
    BY <1>1
  <2>3. En(i) /\ e[i].actions = as /\ \A j \in 1 .. i - 1 : ~En(j)
    BY <2>1, <2>2, <1>2, <1>4
  <2> QED
    BY <2>2, <2>3, <1>13
<1>16. ASSUME NEW as, Silent(c, pkt), Decided(d, pkt, as)
       PROVE  Decided(e, pkt, as)
  <2>1. PICK i \in 1 .. n : Dn(i) /\ d[i].actions = as /\ \A j \in 1 .. i - 1 : ~Dn(j)
    BY <1>12, <1>16
  <2>2. m + i \in 1 .. m + n
    BY <1>7
  <2>3. En(m + i) /\ e[m + i].actions = as
    BY <2>1, <1>3, <1>5
  <2>4. ASSUME NEW j \in 1 .. (m + i) - 1
        PROVE  ~En(j)
    <3>1. CASE j \in 1 .. m
      BY <3>1, <1>4, <1>8, <1>16
    <3>2. CASE j \notin 1 .. m
      <4>1. j - m \in 1 .. i - 1 /\ j - m \in 1 .. n /\ m + (j - m) = j
        BY <3>2, <1>1
      <4> QED
        BY <4>1, <2>1, <1>5
    <3> QED
      BY <3>1, <3>2
  <2> QED
    BY <2>2, <2>3, <2>4, <1>13
<1>17. ASSUME NEW as, Decided(e, pkt, as)
       PROVE  Decided(c, pkt, as) \/ (Silent(c, pkt) /\ Decided(d, pkt, as))
  <2>1. PICK i \in 1 .. m + n : En(i) /\ e[i].actions = as /\ \A j \in 1 .. i - 1 : ~En(j)
    BY <1>13, <1>17
  <2>2. CASE i \in 1 .. m
    <3>1. \A j \in 1 .. i - 1 : j \in 1 .. m
      BY <1>1, <2>2
    <3>2. On(i) /\ c[i].actions = as /\ \A j \in 1 .. i - 1 : ~On(j)
      BY <2>1, <2>2, <3>1, <1>2, <1>4
    <3> QED
      BY <2>2, <3>2, <1>11
  <2>3. CASE i \notin 1 .. m
    <3>1. i - m \in 1 .. n /\ m + (i - m) = i /\ \A j \in 1 .. m : j \in 1 .. i - 1
      BY <2>3, <1>1
    <3>2. Silent(c, pkt)
      BY <2>1, <3>1, <1>4, <1>8
    <3>3. Dn(i - m) /\ d[i - m].actions = as
      BY <2>1, <3>1, <1>3, <1>5
    <3>4. \A j \in 1 .. (i - m) - 1 : j \in 1 .. n /\ m + j \in 1 .. i - 1
      BY <1>1, <3>1
    <3>5. \A j \in 1 .. (i - m) - 1 : ~Dn(j)
      BY <2>1, <3>4, <1>5
    <3> QED
      BY <3>1, <3>2, <3>3, <3>5, <1>12
  <2> QED
    BY <2>2, <2>3
<1> QED
  BY <1>14, <1>15, <1>16, <1>17 DEF e

(* What a flattened sequence of classifiers does: the first of them that has a
   matching rule decides. *)
LEMMA FlattenDecides ==
    ASSUME NEW S, NEW ss \in Seq(Seq(S)), NEW pkt
    PROVE  /\ Silent(FlattenSeq(ss), pkt) <=> \A i \in DOMAIN ss : Silent(ss[i], pkt)
           /\ \A as : Decided(FlattenSeq(ss), pkt, as) <=>
                 \E i \in DOMAIN ss : /\ Decided(ss[i], pkt, as)
                                      /\ \A j \in 1 .. i - 1 : Silent(ss[j], pkt)
<1>0. Len(ss) \in Nat /\ DOMAIN ss = 1 .. Len(ss) /\ \A i \in 1 .. Len(ss) : ss[i] \in Seq(S)
  BY LenProperties, ElementOfSeq
<1>1. CASE Len(ss) = 0
  <2>1. FlattenSeq(ss) = ss /\ DOMAIN ss = {}
    BY <1>0, <1>1 DEF FlattenSeq
  <2> QED
    BY <2>1, Zenon DEF Silent, Decided
<1>2. CASE Len(ss) # 0
  <2> DEFINE N == Len(ss)
             Quiet(n) == \A i \in 1 .. n : Silent(ss[i], pkt)
             Some(n, as) == \E i \in 1 .. n : /\ Decided(ss[i], pkt, as)
                                              /\ \A j \in 1 .. i - 1 : Silent(ss[j], pkt)
             P == {x \in (1 .. N) \X Seq(S) :
                      /\ Silent(x[2], pkt) <=> Quiet(x[1])
                      /\ \A as : Decided(x[2], pkt, as) <=> Some(x[1], as)}
  <2>1. <<1, ss[1]>> \in P
    <3>1. 1 \in 1 .. N /\ ss[1] \in Seq(S)
      BY <1>0, <1>2
    <3>2. Silent(ss[1], pkt) <=> Quiet(1)
      OBVIOUS
    <3>3. \A as : Decided(ss[1], pkt, as) <=> Some(1, as)
      OBVIOUS
    <3> HIDE DEF N, Quiet, Some
    <3> QED
      BY <3>1, <3>2, <3>3
  <2>2. ASSUME NEW n \in 2 .. N, NEW c \in Seq(S), <<n - 1, c>> \in P
        PROVE  <<n, c \o ss[n]>> \in P
    <3>0. n \in 1 .. N /\ ss[n] \in Seq(S) /\ c \o ss[n] \in Seq(S)
      BY <1>0, ConcatProperties
    <3>1. /\ Silent(c, pkt) <=> Quiet(n - 1)
          /\ \A as : Decided(c, pkt, as) <=> Some(n - 1, as)
      BY <2>2
    <3>2. /\ Silent(c \o ss[n], pkt) <=> Silent(c, pkt) /\ Silent(ss[n], pkt)
          /\ \A as : Decided(c \o ss[n], pkt, as) <=>
                        Decided(c, pkt, as) \/ (Silent(c, pkt) /\ Decided(ss[n], pkt, as))
      BY <3>0, ConcatDecides
    <3>3. 1 .. n = (1 .. n - 1) \union {n}
      BY <1>0
    <3>4. Quiet(n) <=> Quiet(n - 1) /\ Silent(ss[n], pkt)
      BY <3>3
    <3>5. ASSUME NEW as
          PROVE  Some(n, as) <=> Some(n - 1, as) \/ (Quiet(n - 1) /\ Decided(ss[n], pkt, as))
      BY <3>3
    <3> HIDE DEF N, Quiet, Some
    <3>6. Silent(c \o ss[n], pkt) <=> Quiet(n)
      BY <3>1, <3>2, <3>4, Zenon
    <3>7. \A as : Decided(c \o ss[n], pkt, as) <=> Some(n, as)
      BY <3>1, <3>2, <3>5, Zenon
    <3> QED
      BY <3>0, <3>6, <3>7
  <2>3. <<N, FlattenSeq(ss)>> \in P
    <3> HIDE DEF P
    <3> QED
      BY <1>2, <2>1, <2>2, FlattenInduction
  <2> HIDE DEF Quiet, Some
  <2>4. /\ Silent(FlattenSeq(ss), pkt) <=> Quiet(N)
        /\ \A as : Decided(FlattenSeq(ss), pkt, as) <=> Some(N, as)
    BY <2>3
  <2> QED
    BY <1>0, <2>4, Zenon DEF Quiet, Some
<1> QED
  BY <1>1, <1>2

LEMMA AsSequence ==
    ASSUME NEW S, NEW n \in Nat, NEW f \in [1 .. n -> S]
    PROVE  f \in Seq(S) /\ Len(f) = n /\ DOMAIN f = 1 .. n
  OBVIOUS

\* As many sequences as c has rules.
LEMMA AsBlocks ==
    ASSUME NEW S, NEW T, NEW c \in Seq(S), NEW ss, ss = [i \in DOMAIN c |-> ss[i]],
           \A i \in DOMAIN c : ss[i] \in T
    PROVE  /\ ss \in Seq(T) /\ Len(ss) = Len(c) /\ DOMAIN ss = DOMAIN c
           /\ Len(c) \in Nat /\ DOMAIN c = 1 .. Len(c) /\ \A i \in DOMAIN c : c[i] \in S
<1>1. Len(c) \in Nat /\ DOMAIN c = 1 .. Len(c) /\ \A i \in DOMAIN c : c[i] \in S
  BY LenProperties, ElementOfSeq
<1>2. ss \in [1 .. Len(c) -> T]
  BY <1>1
<1> QED
  BY <1>1, <1>2, AsSequence

LEMMA SingleDecides ==
    ASSUME NEW S, NEW r \in S, NEW pkt
    PROVE  /\ <<r>> \in Seq(S) /\ <<>> \in Seq(S)
           /\ Range(<<r>>) = {r} /\ Range(<<>>) = {}
           /\ Silent(<<>>, pkt) /\ \A as : ~Decided(<<>>, pkt, as)
           /\ Silent(<<r>>, pkt) <=> ~Sat(r.match, pkt)
           /\ \A as : Decided(<<r>>, pkt, as) <=> Sat(r.match, pkt) /\ r.actions = as
<1>1. <<r>> \in Seq(S) /\ <<>> \in Seq(S) /\ DOMAIN <<r>> = 1 .. 1 /\ <<r>>[1] = r /\ DOMAIN <<>> = {}
  OBVIOUS
<1>2. Range(<<r>>) = {r} /\ Range(<<>>) = {}
  BY <1>1 DEF Range
<1>3. Silent(<<>>, pkt) /\ \A as : ~Decided(<<>>, pkt, as)
  BY <1>1 DEF Silent, Decided
<1>4. Silent(<<r>>, pkt) <=> ~Sat(r.match, pkt)
  BY <1>1 DEF Silent
<1>5. ASSUME NEW as PROVE Decided(<<r>>, pkt, as) <=> Sat(r.match, pkt) /\ r.actions = as
  <2> DEFINE c == <<r>>
  <2>1. DOMAIN c = 1 .. 1 /\ c[1] = r
    BY <1>1
  <2> HIDE DEF c
  <2>2. DOMAIN c = {1} /\ 1 .. 1 - 1 = {}
    BY <2>1
  <2>3. Decided(c, pkt, as) <=> Sat(c[1].match, pkt) /\ c[1].actions = as
    BY <2>2, Zenon DEF Decided
  <2> QED
    BY <2>1, <2>3 DEF c
<1> QED
  BY <1>1, <1>2, <1>3, <1>4, <1>5

LEMMA FirstMatch ==
    ASSUME NEW S, NEW c \in Seq(S), NEW pkt, ~Silent(c, pkt)
    PROVE  \E i \in DOMAIN c : Sat(c[i].match, pkt) /\ \A j \in 1 .. i - 1 : ~Sat(c[j].match, pkt)
<1> DEFINE T == {i \in DOMAIN c : Sat(c[i].match, pkt)}
<1>1. DOMAIN c = 1 .. Len(c) /\ Len(c) \in Nat
  BY LenProperties
<1>2. T \subseteq Nat /\ T # {}
  BY <1>1 DEF Silent
<1>3. PICK i \in T : \A j \in T : i <= j
  BY <1>2, LeastNumber
<1>4. \A j \in 1 .. i - 1 : j \notin T /\ j \in DOMAIN c
  BY <1>1, <1>3
<1> QED
  BY <1>3, <1>4

LEMMA DecidedOnce ==
    ASSUME NEW S, NEW c \in Seq(S), NEW pkt
    PROVE  /\ ~Silent(c, pkt) <=> \E as : Decided(c, pkt, as)
           /\ \A as, bs : Decided(c, pkt, as) /\ Decided(c, pkt, bs) => as = bs
<1>1. DOMAIN c = 1 .. Len(c) /\ Len(c) \in Nat
  BY LenProperties
<1>2. ASSUME ~Silent(c, pkt) PROVE \E as : Decided(c, pkt, as)
  BY <1>2, FirstMatch DEF Decided
<1>3. ASSUME NEW as, Decided(c, pkt, as) PROVE ~Silent(c, pkt)
  BY <1>3 DEF Decided, Silent
<1>4. ASSUME NEW as, NEW bs, Decided(c, pkt, as), Decided(c, pkt, bs)
      PROVE  as = bs
  <2>1. PICK i \in DOMAIN c : /\ Sat(c[i].match, pkt) /\ c[i].actions = as
                              /\ \A j \in 1 .. i - 1 : ~Sat(c[j].match, pkt)
    BY <1>4 DEF Decided
  <2>2. PICK k \in DOMAIN c : /\ Sat(c[k].match, pkt) /\ c[k].actions = bs
                              /\ \A j \in 1 .. k - 1 : ~Sat(c[j].match, pkt)
    BY <1>4 DEF Decided
  <2>3. i \in 1 .. Len(c) /\ k \in 1 .. Len(c)
    BY <1>1
  <2>4. i = k
    BY <2>1, <2>2, <2>3
  <2> QED
    BY <2>1, <2>2, <2>4
<1> QED
  BY <1>2, <1>3, <1>4

(* Removing the rules that an earlier one covers changes no decision. *)
THEOREM OptimizeExact ==
    ASSUME NEW S, NEW c \in Seq(S), NEW pkt
    PROVE  /\ Optimize(c) \in Seq(S) /\ Range(Optimize(c)) \subseteq Range(c)
           /\ Silent(Optimize(c), pkt) <=> Silent(c, pkt)
           /\ \A as : Decided(Optimize(c), pkt, as) <=> Decided(c, pkt, as)
<1> DEFINE covered(i) == \E j \in 1 .. i - 1 : Covers(c[j].match, c[i].match)
           ss == [i \in DOMAIN c |-> IF covered(i) THEN <<>> ELSE <<c[i]>>]
           On(i) == Sat(c[i].match, pkt)
<1>1. Len(c) \in Nat /\ DOMAIN c = 1 .. Len(c) /\ \A i \in DOMAIN c : c[i] \in S
  BY LenProperties, ElementOfSeq
<1>2. Optimize(c) = FlattenSeq(ss)
  BY DEF Optimize
<1>3. \A i \in DOMAIN c : ss[i] \in Seq(S)
  BY <1>1, SingleDecides
<1>4. ss \in Seq(Seq(S)) /\ DOMAIN ss = DOMAIN c
  <2> HIDE DEF covered
  <2>1. ss = [i \in DOMAIN c |-> ss[i]]
    OBVIOUS
  <2> HIDE DEF ss
  <2> QED
    BY <2>1, <1>3, AsBlocks
<1>5. \A i \in DOMAIN c : ss[i] = IF covered(i) THEN <<>> ELSE <<c[i]>>
  OBVIOUS
<1> HIDE DEF ss
<1>6. \A i \in DOMAIN c : Silent(ss[i], pkt) <=> covered(i) \/ ~On(i)
  <2> HIDE DEF covered
  <2> QED
    BY <1>1, <1>5, SingleDecides
<1>7. ASSUME NEW i \in DOMAIN c, NEW as
      PROVE  Decided(ss[i], pkt, as) <=> ~covered(i) /\ On(i) /\ c[i].actions = as
  <2> HIDE DEF covered
  <2>1. c[i] \in S
    BY <1>1
  <2>2. CASE covered(i)
    <3>1. ~Decided(<<>>, pkt, as)
      BY <2>1, SingleDecides
    <3> QED
      BY <2>2, <3>1, <1>5
  <2>3. CASE ~covered(i)
    <3>1. Decided(<<c[i]>>, pkt, as) <=> On(i) /\ c[i].actions = as
      BY <2>1, SingleDecides
    <3> QED
      BY <2>3, <3>1, <1>5
  <2> QED
    BY <2>2, <2>3
<1>8. \A i \in DOMAIN c : Range(ss[i]) \subseteq Range(c)
  <2> SUFFICES ASSUME NEW i \in DOMAIN c PROVE Range(ss[i]) \subseteq {c[i]}
    BY DEF Range
  <2> HIDE DEF covered
  <2> QED
    BY <1>1, <1>5, SingleDecides
<1>9. \A i \in DOMAIN c : (\A j \in 1 .. i - 1 : ~On(j)) /\ On(i) => ~covered(i)
  BY <1>1 DEF Covers, Sat
<1> HIDE DEF covered, On
<1>10. /\ Silent(Optimize(c), pkt) <=> \A i \in DOMAIN ss : Silent(ss[i], pkt)
       /\ \A as : Decided(Optimize(c), pkt, as) <=>
                 \E i \in DOMAIN ss : /\ Decided(ss[i], pkt, as)
                                      /\ \A j \in 1 .. i - 1 : Silent(ss[j], pkt)
  BY <1>2, <1>4, FlattenDecides
<1>11. Silent(c, pkt) <=> \A i \in DOMAIN c : ~On(i)
  BY DEF Silent, On
<1>12. \A as : Decided(c, pkt, as) <=> \E i \in DOMAIN c : /\ On(i) /\ c[i].actions = as
                                                         /\ \A j \in 1 .. i - 1 : ~On(j)
  BY DEF Decided, On
<1>13. ~Silent(c, pkt) => \E i \in DOMAIN c : On(i) /\ \A j \in 1 .. i - 1 : ~On(j)
  BY FirstMatch DEF On
<1>14. \A i \in DOMAIN c : \A j \in 1 .. i - 1 : j \in DOMAIN c
  BY <1>1
<1>15. ASSUME NEW as, Decided(c, pkt, as) PROVE Decided(Optimize(c), pkt, as)
  <2>1. PICK i \in DOMAIN c : On(i) /\ c[i].actions = as /\ \A j \in 1 .. i - 1 : ~On(j)
    BY <1>12, <1>15
  <2>2. Decided(ss[i], pkt, as) /\ \A j \in 1 .. i - 1 : Silent(ss[j], pkt)
    BY <2>1, <1>6, <1>7, <1>9, <1>14
  <2> QED
    BY <2>2, <1>4, <1>10
<1>16. Silent(Optimize(c), pkt) <=> Silent(c, pkt)
  <2>1. Silent(c, pkt) => Silent(Optimize(c), pkt)
    BY <1>4, <1>6, <1>10, <1>11
  <2>2. ASSUME ~Silent(c, pkt) PROVE ~Silent(Optimize(c), pkt)
    <3>1. PICK i \in DOMAIN c : On(i) /\ \A j \in 1 .. i - 1 : ~On(j)
      BY <1>13, <2>2
    <3> QED
      BY <3>1, <1>4, <1>6, <1>9, <1>10
  <2> QED
    BY <2>1, <2>2
<1>17. Optimize(c) \in Seq(S) /\ Range(Optimize(c)) \subseteq Range(c)
  BY <1>2, <1>4, <1>8, FlattenType, FlattenRange
<1>18. ASSUME NEW as, Decided(Optimize(c), pkt, as) PROVE Decided(c, pkt, as)
  <2>1. ~Silent(c, pkt)
    BY <1>16, <1>17, <1>18, DecidedOnce
  <2>2. PICK bs : Decided(c, pkt, bs)
    BY <2>1, DecidedOnce
  <2>3. Decided(Optimize(c), pkt, bs)
    BY <2>2, <1>15
  <2>4. as = bs
    BY <1>17, <1>18, <2>3, DecidedOnce
  <2> QED
    BY <2>2, <2>4
<1> QED
  BY <1>15, <1>16, <1>17, <1>18
-----------------------------------------------------------------------------
(* Classifiers in parallel *)

\* The actions of rules, and those of them that do something.
Actions == {True, Drop, Controller} \union {Modify(a) : a \in ModOf}
              \union {[k |-> "count", b |-> b] : b \in Counters}
Live(as) == Range(as) \ {Drop}

\* Rules with the tests M and the sequences of actions As.
Rules(M, As) == [match : M, actions : As]

\* Tests and actions to which + and >> add none, and that _commute_test is exact on.
Suited(M, As) ==
    /\ M \subseteq MatchOf /\ Identity \in M
    /\ \A m, n \in M : ~Disjoint(m, n) => Meet(m, n) \in M
    /\ As \subseteq Seq(Actions) /\ <<Drop>> \in As
    /\ \A as, bs \in As : /\ JoinActions(as, bs) \in As
                          /\ \A a \in Range(as) : SequenceActions(a, bs) \in As
    /\ \A as \in As : \A a \in Range(as) : a.k = "modify" =>
          Compilable(a.a) /\ \A m \in M : Exact(a.a, m) /\ Commuted(a.a, m) \in M

(* JoinActions has what both lists do, and a drop only if they do nothing. *)
LEMMA JoinLive ==
    ASSUME NEW A, Drop \in A, NEW as \in Seq(A), NEW bs \in Seq(A)
    PROVE  /\ JoinActions(as, bs) \in Seq(A) /\ JoinActions(as, bs) # <<>>
           /\ Live(JoinActions(as, bs)) = Live(as) \union Live(bs)
           /\ Drop \in Range(JoinActions(as, bs)) => Range(JoinActions(as, bs)) = {Drop}
<1> DEFINE both == as \o bs
           ss   == [i \in DOMAIN both |-> IF both[i] = Drop THEN <<>> ELSE <<both[i]>>]
           acts == FlattenSeq(ss)
<1>1. both \in Seq(A) /\ Range(both) = Range(as) \union Range(bs)
  BY ConcatRange, ConcatProperties
<1>2. JoinActions(as, bs) = IF acts = <<>> THEN <<Drop>> ELSE acts
  BY DEF JoinActions
<1> HIDE DEF both
<1>3. \A i \in DOMAIN both : ss[i] = IF both[i] = Drop THEN <<>> ELSE <<both[i]>>
  OBVIOUS
<1>4. \A i \in DOMAIN both : both[i] \in A
  BY <1>1, LenProperties, ElementOfSeq
<1>5. \A i \in DOMAIN both : ss[i] \in Seq(A)
  BY <1>4, SingleDecides
<1>6. ss \in Seq(Seq(A)) /\ DOMAIN ss = DOMAIN both
  <2>1. ss = [i \in DOMAIN both |-> ss[i]]
    OBVIOUS
  <2> HIDE DEF ss
  <2> QED
    BY <2>1, <1>1, <1>5, AsBlocks
<1> HIDE DEF ss
<1>7. acts \in Seq(A) /\ Range(acts) = UNION {Range(ss[i]) : i \in DOMAIN both}
  BY <1>6, FlattenType, FlattenRange
<1>8. \A i \in DOMAIN both : Range(ss[i]) = IF both[i] = Drop THEN {} ELSE {both[i]}
  BY <1>3, <1>4, SingleDecides
<1>9. UNION {Range(ss[i]) : i \in DOMAIN both} = Range(both) \ {Drop}
  <2>1. \A x : x \in Range(both) <=> \E i \in DOMAIN both : x = both[i]
    BY DEF Range
  <2>2. \A x : x \in UNION {Range(ss[i]) : i \in DOMAIN both} <=> \E i \in DOMAIN both : x \in Range(ss[i])
    BY Zenon
  <2>3. ASSUME NEW x
        PROVE  x \in UNION {Range(ss[i]) : i \in DOMAIN both} <=> x \in Range(both) \ {Drop}
    <3>1. \A i \in DOMAIN both : x \in Range(ss[i]) <=> x = both[i] /\ x # Drop
      BY <1>8
    <3> QED
      BY <2>1, <2>2, <3>1, Zenon
  <2> QED
    BY <2>3, Zenon
<1>10. Range(acts) = Live(as) \union Live(bs) /\ Drop \notin Range(acts)
  BY <1>1, <1>7, <1>9 DEF Live
<1> HIDE DEF acts
<1>11. CASE acts = <<>>
  <2>1. JoinActions(as, bs) = <<Drop>> /\ Range(acts) = {}
    BY <1>2, <1>11, SingleDecides
  <2>2. <<Drop>> \in Seq(A) /\ Range(<<Drop>>) = {Drop} /\ <<Drop>> # <<>>
    BY SingleDecides
  <2> QED
    BY <2>1, <2>2, <1>10, Zenon DEF Live
<1>12. CASE acts # <<>>
  BY <1>2, <1>7, <1>10, <1>12 DEF Live
<1> QED
  BY <1>11, <1>12

LEMMA BothExact ==
    ASSUME NEW M, NEW As, Suited(M, As), NEW r1 \in Rules(M, As), NEW r2 \in Rules(M, As), NEW pkt
    PROVE  /\ Both(r1, r2) \in Seq(Rules(M, As))
           /\ Silent(Both(r1, r2), pkt) <=> ~(Sat(r1.match, pkt) /\ Sat(r2.match, pkt))
           /\ \A as : Decided(Both(r1, r2), pkt, as) <=>
                 Sat(r1.match, pkt) /\ Sat(r2.match, pkt) /\ as = JoinActions(r1.actions, r2.actions)
<1>1. /\ r1.match \in M /\ r2.match \in M /\ r1.actions \in As /\ r2.actions \in As
      /\ r1.match \in MatchOf /\ r2.match \in MatchOf
  BY DEF Rules, Suited
<1> DEFINE m  == Meet(r1.match, r2.match)
           as == JoinActions(r1.actions, r2.actions)
           r  == Rule(m, as)
<1>2. CASE Disjoint(r1.match, r2.match)
  <2>1. Both(r1, r2) = <<>>
    BY <1>2 DEF Both
  <2>2. ~(Sat(r1.match, pkt) /\ Sat(r2.match, pkt))
    BY <1>1, <1>2, DisjointApart
  <2>3. /\ <<>> \in Seq(Rules(M, As))
        /\ Silent(<<>>, pkt) /\ \A bs : ~Decided(<<>>, pkt, bs)
    BY SingleDecides
  <2> QED
    BY <2>1, <2>2, <2>3, Zenon
<1>3. CASE ~Disjoint(r1.match, r2.match)
  <2>1. Both(r1, r2) = <<r>>
    BY <1>3 DEF Both
  <2>2. m \in M /\ as \in As
    BY <1>1, <1>3 DEF Suited
  <2>3. Sat(m, pkt) <=> Sat(r1.match, pkt) /\ Sat(r2.match, pkt)
    BY <1>1, <1>3, MeetExact
  <2> HIDE DEF m, as
  <2>4. r \in Rules(M, As) /\ r.match = m /\ r.actions = as
    BY <2>2 DEF Rules, Rule
  <2> HIDE DEF r
  <2>5. /\ <<r>> \in Seq(Rules(M, As))
        /\ Silent(<<r>>, pkt) <=> ~Sat(r.match, pkt)
        /\ \A bs : Decided(<<r>>, pkt, bs) <=> Sat(r.match, pkt) /\ r.actions = bs
    BY <2>4, SingleDecides
  <2>6. /\ Silent(<<r>>, pkt) <=> ~Sat(m, pkt)
        /\ \A bs : Decided(<<r>>, pkt, bs) <=> Sat(m, pkt) /\ bs = as
    BY <2>4, <2>5, Zenon
  <2> QED
    BY <2>1, <2>3, <2>5, <2>6, Zenon DEF as
<1> QED
  BY <1>2, <1>3

(* Classifier.__add__: where both classifiers decide, their sum does what both do. *)
THEOREM AddExact ==
    ASSUME NEW M, NEW As, Suited(M, As),
           NEW c1 \in Seq(Rules(M, As)), NEW c2 \in Seq(Rules(M, As)), NEW pkt,
           NEW as1, Decided(c1, pkt, as1), NEW as2, Decided(c2, pkt, as2)
    PROVE  Decided(AddClassifiers(c1, c2), pkt, JoinActions(as1, as2))
<1> DEFINE R == Rules(M, As)
           row(i) == [j \in DOMAIN c2 |-> Both(c1[i], c2[j])]
           rows == [i \in DOMAIN c1 |-> FlattenSeq(row(i))]
           as == JoinActions(as1, as2)
<1>1. /\ DOMAIN c1 = 1 .. Len(c1) /\ \A i \in DOMAIN c1 : c1[i] \in R
      /\ DOMAIN c2 = 1 .. Len(c2) /\ \A i \in DOMAIN c2 : c2[i] \in R
  BY LenProperties, ElementOfSeq
<1>2. PICK n \in DOMAIN c1 : /\ Sat(c1[n].match, pkt) /\ c1[n].actions = as1
                             /\ \A j \in 1 .. n - 1 : ~Sat(c1[j].match, pkt)
  BY DEF Decided
<1>3. PICK m \in DOMAIN c2 : /\ Sat(c2[m].match, pkt) /\ c2[m].actions = as2
                             /\ \A j \in 1 .. m - 1 : ~Sat(c2[j].match, pkt)
  BY DEF Decided
<1>4. ASSUME NEW i \in DOMAIN c1
      PROVE  /\ row(i) \in Seq(Seq(R)) /\ DOMAIN row(i) = DOMAIN c2
             /\ \A j \in DOMAIN c2 : row(i)[j] = Both(c1[i], c2[j])
  <2> DEFINE ss == row(i)
  <2>1. \A j \in DOMAIN c2 : ss[j] \in Seq(R)
    BY <1>1, BothExact
  <2>2. ss = [j \in DOMAIN c2 |-> ss[j]]
    OBVIOUS
  <2>3. \A j \in DOMAIN c2 : ss[j] = Both(c1[i], c2[j])
    OBVIOUS
  <2> HIDE DEF ss
  <2>4. ss \in Seq(Seq(R)) /\ DOMAIN ss = DOMAIN c2
    BY <2>1, <2>2, AsBlocks
  <2> QED
    BY <2>3, <2>4 DEF ss
<1>5. \A i \in DOMAIN c1 : rows[i] = FlattenSeq(row(i))
  OBVIOUS
<1> HIDE DEF row
<1>6. \A i \in DOMAIN c1 : rows[i] \in Seq(R)
  BY <1>4, FlattenType
<1>7. rows \in Seq(Seq(R)) /\ DOMAIN rows = DOMAIN c1
  <2>1. rows = [i \in DOMAIN c1 |-> rows[i]]
    OBVIOUS
  <2> HIDE DEF rows
  <2> QED
    BY <2>1, <1>6, AsBlocks
<1> HIDE DEF rows
<1>8. ASSUME NEW i \in 1 .. n - 1
      PROVE  Silent(rows[i], pkt)
  <2>1. i \in DOMAIN c1 /\ ~Sat(c1[i].match, pkt)
    BY <1>1, <1>2
  <2>2. \A j \in DOMAIN c2 : Silent(Both(c1[i], c2[j]), pkt)
    BY <2>1, <1>1, BothExact
  <2>3. \A j \in DOMAIN row(i) : Silent(row(i)[j], pkt)
    BY <2>1, <2>2, <1>4
  <2> QED
    BY <2>1, <2>3, <1>4, <1>5, FlattenDecides
<1>9. Decided(rows[n], pkt, as)
  <2>1. \A j \in 1 .. m - 1 : j \in DOMAIN c2
    BY <1>1, <1>3
  <2>2. \A j \in 1 .. m - 1 : Silent(row(n)[j], pkt)
    <3> SUFFICES ASSUME NEW j \in 1 .. m - 1 PROVE Silent(row(n)[j], pkt)
      OBVIOUS
    <3>1. j \in DOMAIN c2 /\ c2[j] \in R /\ c1[n] \in R /\ ~Sat(c2[j].match, pkt)
      BY <2>1, <1>1, <1>2, <1>3
    <3>2. Silent(Both(c1[n], c2[j]), pkt)
      BY <3>1, BothExact
    <3> QED
      BY <3>1, <3>2, <1>4
  <2>3. Decided(row(n)[m], pkt, as)
    <3>1. c1[n] \in R /\ c2[m] \in R
      BY <1>1
    <3>2. Decided(Both(c1[n], c2[m]), pkt, JoinActions(c1[n].actions, c2[m].actions))
      BY <3>1, <1>2, <1>3, BothExact
    <3> QED
      BY <3>2, <1>2, <1>3, <1>4
  <2> HIDE DEF as
  <2>4. Decided(FlattenSeq(row(n)), pkt, as)
    BY <2>2, <2>3, <1>4, FlattenDecides
  <2> QED
    BY <2>4, <1>5
<1> HIDE DEF as
<1>10. Decided(FlattenSeq(rows), pkt, as)
  BY <1>7, <1>8, <1>9, FlattenDecides
<1>11. FlattenSeq(rows) \in Seq(R)
  BY <1>7, FlattenType
<1>12. FlattenSeq(rows) \o c1 \in Seq(R) /\ (FlattenSeq(rows) \o c1) \o c2 \in Seq(R)
  BY <1>11, ConcatProperties
<1>13. Decided((FlattenSeq(rows) \o c1) \o c2, pkt, as)
  <2>1. Decided(FlattenSeq(rows) \o c1, pkt, as)
    BY <1>10, <1>11, ConcatDecides
  <2> QED
    BY <2>1, <1>12, ConcatDecides
<1>14. AddClassifiers(c1, c2) = Optimize((FlattenSeq(rows) \o c1) \o c2)
  BY DEF AddClassifiers, rows, row
<1> QED
  BY <1>12, <1>13, <1>14, OptimizeExact DEF as

LEMMA AddType ==
    ASSUME NEW M, NEW As, Suited(M, As),
           NEW c1 \in Seq(Rules(M, As)), NEW c2 \in Seq(Rules(M, As))
    PROVE  AddClassifiers(c1, c2) \in Seq(Rules(M, As))
<1> DEFINE R == Rules(M, As)
           row(i) == [j \in DOMAIN c2 |-> Both(c1[i], c2[j])]
           rows == [i \in DOMAIN c1 |-> FlattenSeq(row(i))]
<1>1. /\ \A i \in DOMAIN c1 : c1[i] \in R
      /\ \A i \in DOMAIN c2 : c2[i] \in R
  BY LenProperties, ElementOfSeq
<1>2. ASSUME NEW i \in DOMAIN c1
      PROVE  rows[i] \in Seq(R)
  <2> DEFINE ss == row(i)
  <2>1. \A j \in DOMAIN c2 : ss[j] \in Seq(R)
    BY <1>1, BothExact
  <2>2. ss = [j \in DOMAIN c2 |-> ss[j]] /\ rows[i] = FlattenSeq(ss)
    OBVIOUS
  <2> HIDE DEF ss, rows
  <2>3. ss \in Seq(Seq(R))
    BY <2>1, <2>2, AsBlocks
  <2> QED
    BY <2>2, <2>3, FlattenType
<1>3. rows \in Seq(Seq(R))
  <2>1. rows = [i \in DOMAIN c1 |-> rows[i]]
    OBVIOUS
  <2> HIDE DEF rows
  <2> QED
    BY <2>1, <1>2, AsBlocks
<1> HIDE DEF rows
<1>4. FlattenSeq(rows) \in Seq(R)
  BY <1>3, FlattenType
<1>5. (FlattenSeq(rows) \o c1) \o c2 \in Seq(R)
  BY <1>4, ConcatProperties
<1>6. AddClassifiers(c1, c2) = Optimize((FlattenSeq(rows) \o c1) \o c2)
  BY DEF AddClassifiers, rows
<1> QED
  BY <1>5, <1>6, OptimizeExact

LEMMA DecidedType ==
    ASSUME NEW M, NEW As, NEW c \in Seq(Rules(M, As)), NEW pkt, NEW as, Decided(c, pkt, as)
    PROVE  as \in As
<1>1. \A i \in DOMAIN c : c[i] \in Rules(M, As)
  BY LenProperties, ElementOfSeq
<1> QED
  BY <1>1 DEF Decided, Rules

LEMMA Climb ==
    ASSUME NEW N \in Nat, N # 0, NEW T, 1 \in T, \A n \in 2 .. N : n - 1 \in T => n \in T
    PROVE  \A n \in 1 .. N : n \in T
<1> DEFINE U == {n \in Nat : n \in 1 .. N => n \in T}
<1>1. 0 \in U
  OBVIOUS
<1>2. ASSUME NEW n \in Nat, n \in U
      PROVE  n + 1 \in U
  <2>1. CASE n = 0
    BY <2>1
  <2>2. CASE n # 0 /\ n + 1 \in 1 .. N
    <3>1. n + 1 \in 2 .. N /\ (n + 1) - 1 = n /\ n \in 1 .. N
      BY <2>2
    <3> QED
      BY <1>2, <3>1
  <2> QED
    BY <2>1, <2>2
<1> HIDE DEF U
<1>3. Nat \subseteq U
  BY <1>1, <1>2, Induction
<1> QED
  BY <1>3 DEF U

LEMMA AddAllUnfolds ==
    ASSUME NEW M, NEW As, Suited(M, As), NEW cs \in Seq(Seq(Rules(M, As))), Len(cs) # 0
    PROVE  \E f : /\ AddAll(cs) = f[Len(cs)]
                  /\ f[1] = cs[1]
                  /\ \A n \in 2 .. Len(cs) : f[n] = AddClassifiers(f[n - 1], cs[n])
<1> DEFINE N == Len(cs)
           Q == Seq(Rules(M, As))
           R(h) == h = [n \in 1 .. N |-> IF n = 1 THEN cs[1] ELSE AddClassifiers(h[n - 1], cs[n])]
           f == CHOOSE h : R(h)
           step == [n \in 2 .. N |-> [x \in Q |-> AddClassifiers(x, cs[n])]]
<1>1. N \in Nat /\ N # 0 /\ \A n \in 1 .. N : cs[n] \in Q
  BY LenProperties, ElementOfSeq
<1>2. AddAll(cs) = f[N]
  BY DEF AddAll
<1>3. \A n \in 2 .. N, x \in Q : AddClassifiers(x, cs[n]) \in Q
  BY <1>1, AddType
<1>4. \A n \in 2 .. N, x \in Q : step[n][x] = AddClassifiers(x, cs[n])
  OBVIOUS
<1> HIDE DEF Q, N, f
<1>5. step \in [2 .. N -> [Q -> Q]]
  BY <1>3
<1> HIDE DEF step
<1>6. PICK g \in [1 .. N -> Q] : Follows(g, N, cs[1], step)
  <2>1. N \in Nat /\ N # 0 /\ cs[1] \in Q
    BY <1>1
  <2> QED
    BY <2>1, <1>5, RecursionExists
<1>7. g[1] = cs[1] /\ \A n \in 2 .. N : g[n] = AddClassifiers(g[n - 1], cs[n])
  <2>1. \A n \in 2 .. N : n - 1 \in 1 .. N
    BY <1>1
  <2>2. \A n \in 2 .. N : g[n - 1] \in Q
    BY <2>1, <1>6
  <2>3. g[1] = cs[1] /\ \A n \in 2 .. N : g[n] = step[n][g[n - 1]]
    BY <1>6 DEF Follows
  <2> QED
    BY <2>2, <2>3, <1>4
<1>8. R(g)
  <2>1. \A n \in 1 .. N : g[n] = IF n = 1 THEN cs[1] ELSE AddClassifiers(g[n - 1], cs[n])
    BY <1>1, <1>7
  <2> QED
    BY <2>1
<1>9. R(f)
  BY <1>8 DEF f
<1>10. f[1] = cs[1] /\ \A n \in 2 .. N : f[n] = AddClassifiers(f[n - 1], cs[n])
  BY <1>1, <1>9
<1> QED
  BY <1>2, <1>10 DEF N

\* What the classifiers cs do with a packet together, c does.
Sums(c, cs) ==
    \A pkt, ds : (\A i \in DOMAIN cs : Decided(cs[i], pkt, ds[i])) =>
        \E as : Decided(c, pkt, as) /\ Live(as) = UNION {Live(ds[i]) : i \in DOMAIN cs}

(* Adding classifiers one after the other does what all of them do. *)
LEMMA AddAllExact ==
    ASSUME NEW M, NEW As, Suited(M, As), NEW cs \in Seq(Seq(Rules(M, As))), Len(cs) # 0
    PROVE  AddAll(cs) \in Seq(Rules(M, As)) /\ Sums(AddAll(cs), cs)
<1> DEFINE N == Len(cs)
           Q == Seq(Rules(M, As))
<1>1. /\ N \in Nat /\ N # 0 /\ DOMAIN cs = 1 .. N /\ \A n \in 1 .. N : cs[n] \in Q
      /\ N \in 1 .. N /\ 1 \in 1 .. N
  BY LenProperties, ElementOfSeq
<1>2. PICK f : /\ AddAll(cs) = f[N]
               /\ f[1] = cs[1]
               /\ \A n \in 2 .. N : f[n] = AddClassifiers(f[n - 1], cs[n])
  BY AddAllUnfolds
<1> HIDE DEF N
<1>3. \A n \in 1 .. N : f[n] \in Q
  <2> DEFINE T == {n \in 1 .. N : f[n] \in Q}
  <2>1. 1 \in T
    BY <1>1, <1>2
  <2>2. ASSUME NEW n \in 2 .. N, n - 1 \in T PROVE n \in T
    BY <2>2, <1>1, <1>2, AddType
  <2> HIDE DEF T
  <2>3. \A n \in 1 .. N : n \in T
    BY <1>1, <2>1, <2>2, Climb
  <2> QED
    BY <2>3 DEF T
<1>4. ASSUME NEW pkt, NEW ds, \A i \in 1 .. N : Decided(cs[i], pkt, ds[i])
      PROVE  \E as : Decided(f[N], pkt, as) /\ Live(as) = UNION {Live(ds[i]) : i \in 1 .. N}
  <2> DEFINE U(n) == UNION {Live(ds[i]) : i \in 1 .. n}
             T == {n \in 1 .. N : \E as : Decided(f[n], pkt, as) /\ Live(as) = U(n)}
  <2>1. 1 \in T
    <3>1. U(1) = Live(ds[1])
      OBVIOUS
    <3> QED
      BY <3>1, <1>1, <1>2, <1>4
  <2>2. ASSUME NEW n \in 2 .. N, n - 1 \in T PROVE n \in T
    <3>1. n \in 1 .. N /\ n - 1 \in 1 .. N
      BY <1>1
    <3>2. PICK as : Decided(f[n - 1], pkt, as) /\ Live(as) = U(n - 1)
      BY <2>2
    <3>3. Decided(cs[n], pkt, ds[n]) /\ cs[n] \in Q /\ f[n - 1] \in Q
      BY <1>1, <1>3, <1>4, <3>1
    <3> DEFINE bs == JoinActions(as, ds[n])
    <3>4. Decided(AddClassifiers(f[n - 1], cs[n]), pkt, bs)
      BY <3>2, <3>3, AddExact
    <3>5. as \in Seq(Actions) /\ ds[n] \in Seq(Actions) /\ Drop \in Actions
      BY <3>2, <3>3, DecidedType DEF Suited, Actions
    <3>6. Live(bs) = Live(as) \union Live(ds[n])
      BY <3>5, JoinLive
    <3>7. 1 .. n = (1 .. n - 1) \union {n}
      BY <1>1
    <3>8. U(n) = U(n - 1) \union Live(ds[n])
      BY <3>7
    <3> HIDE DEF bs, U
    <3>9. Decided(f[n], pkt, bs) /\ Live(bs) = U(n)
      BY <1>2, <3>2, <3>4, <3>6, <3>8
    <3> QED
      BY <3>1, <3>9
  <2> HIDE DEF T
  <2>3. \A n \in 1 .. N : n \in T
    BY <1>1, <2>1, <2>2, Climb
  <2> QED
    BY <1>1, <2>3 DEF T
<1>5. AddAll(cs) \in Q
  BY <1>1, <1>2, <1>3
<1>6. ASSUME NEW pkt, NEW ds, \A i \in DOMAIN cs : Decided(cs[i], pkt, ds[i])
      PROVE  \E as : Decided(AddAll(cs), pkt, as) /\ Live(as) = UNION {Live(ds[i]) : i \in DOMAIN cs}
  <2>1. DOMAIN cs = 1 .. N /\ AddAll(cs) = f[N]
    BY <1>1, <1>2
  <2>2. \A i \in 1 .. N : Decided(cs[i], pkt, ds[i])
    BY <1>6, <2>1
  <2>3. PICK as : Decided(f[N], pkt, as) /\ Live(as) = UNION {Live(ds[i]) : i \in 1 .. N}
    BY <2>2, <1>4
  <2>4. UNION {Live(ds[i]) : i \in 1 .. N} = UNION {Live(ds[i]) : i \in DOMAIN cs}
    BY <2>1, Zenon
  <2> QED
    BY <2>1, <2>3, <2>4
<1> QED
  BY <1>5, <1>6 DEF Sums
-----------------------------------------------------------------------------
(* Classifiers in sequence *)

LEMMA ActionKinds ==
    ASSUME NEW a \in Actions
    PROVE  /\ a.k \in {"identity", "drop", "controller", "modify", "count"}
           /\ a.k = "identity" <=> a = True
           /\ a.k = "drop" <=> a = Drop
           /\ a.k = "controller" <=> a = Controller
           /\ a.k = "modify" => a.a \in ModOf /\ a = Modify(a.a)
  BY DEF Actions, True, Drop, Controller, Modify

\* Actions that a packet survives, and what they make of it.
Goes(a) == a.k \in {"identity", "modify"}
Moved(a, pkt) == IF a.k = "modify" THEN Modified(pkt, a.a) ELSE pkt

(* _commute_test: the test before the action, of the packets that pass it after. *)
LEMMA CommuteTestExact ==
    ASSUME NEW M, NEW As, Suited(M, As), NEW as \in As, NEW act \in Range(as), NEW m \in M
    PROVE  /\ CommuteTest(act, m) = {} \/ \E t \in M : CommuteTest(act, m) = {t}
           /\ Goes(act) => \A pkt : Sat(m, Moved(act, pkt)) <=> \E t \in CommuteTest(act, m) : Sat(t, pkt)
           /\ act.k \in {"controller", "count"} => CommuteTest(act, m) = {Identity}
           /\ act = Drop => CommuteTest(act, m) = {}
<1>1. act \in Actions
  <2>1. as \in Seq(Actions)
    BY DEF Suited
  <2>2. PICK i \in DOMAIN as : act = as[i]
    BY DEF Range
  <2>3. as[i] \in Actions
    BY <2>1, LenProperties, ElementOfSeq
  <2> QED
    BY <2>2, <2>3
<1>2. CASE act.k = "modify"
  <2>1. act.a \in ModOf /\ Compilable(act.a) /\ Exact(act.a, m) /\ Commuted(act.a, m) \in M
    BY <1>1, <1>2, ActionKinds DEF Suited
  <2>2. m \in MatchOf
    BY DEF Suited
  <2>3. DOMAIN m \subseteq Fields
    BY <2>2 DEF MatchOf
  <2>4. CommuteTest(act, m) = IF CommuteDrops(act.a, m) THEN {} ELSE {Commuted(act.a, m)}
    BY <1>2 DEF CommuteTest
  <2>5. ASSUME NEW pkt
        PROVE  /\ CommuteDrops(act.a, m) => ~Sat(m, Moved(act, pkt))
               /\ ~CommuteDrops(act.a, m) => (Sat(m, Moved(act, pkt)) <=> Sat(Commuted(act.a, m), pkt))
    BY <1>2, <2>1, <2>2, <2>3, CommuteExact DEF Moved
  <2>6. act # Drop
    BY <1>2 DEF Drop
  <2> QED
    BY <1>2, <2>1, <2>4, <2>5, <2>6
<1>3. CASE act.k = "identity"
  <2>1. CommuteTest(act, m) = {m}
    BY <1>3 DEF CommuteTest
  <2>2. \A pkt : Moved(act, pkt) = pkt
    BY <1>3 DEF Moved
  <2>3. act # Drop
    BY <1>3 DEF Drop
  <2> QED
    BY <1>3, <2>1, <2>2, <2>3
<1>4. CASE act.k = "drop"
  BY <1>4 DEF CommuteTest, Goes
<1>5. CASE act.k \in {"controller", "count"}
  BY <1>5 DEF CommuteTest, Goes, Drop, Suited
<1> QED
  BY <1>1, <1>2, <1>3, <1>4, <1>5, ActionKinds

LEMMA NothingDecides ==
    ASSUME NEW M, NEW As, Suited(M, As), NEW pkt
    PROVE  Nothing \in Seq(Rules(M, As)) /\ Decided(Nothing, pkt, <<Drop>>)
<1> DEFINE r == Rule(Identity, <<Drop>>)
<1>1. r \in Rules(M, As) /\ r.match = Identity /\ r.actions = <<Drop>>
  BY DEF Suited, Rules, Rule
<1>2. Sat(Identity, pkt)
  BY DEF Sat, Identity
<1> HIDE DEF r
<1>3. <<r>> \in Seq(Rules(M, As)) /\ Decided(<<r>>, pkt, <<Drop>>)
  BY <1>1, <1>2, SingleDecides
<1> QED
  BY <1>3 DEF Nothing, r

(* A classifier behind one action does to a packet what the classifier does to
   what the action makes of it. *)
THEOREM SequenceActionExact ==
    ASSUME NEW M, NEW As, Suited(M, As), NEW c \in Seq(Rules(M, As)),
           NEW as \in As, NEW act \in Range(as), NEW pkt
    PROVE  /\ SequenceActionClassifier(act, c) \in Seq(Rules(M, As))
           /\ \A bs : Goes(act) /\ Decided(c, Moved(act, pkt), bs) =>
                 Decided(SequenceActionClassifier(act, c), pkt, SequenceActions(act, bs))
           /\ act.k \in {"controller", "count"} /\ c # <<>> =>
                 Decided(SequenceActionClassifier(act, c), pkt, <<act>>)
           /\ act = Drop => Decided(SequenceActionClassifier(act, c), pkt, <<Drop>>)
<1> DEFINE R == Rules(M, As)
           tests == [i \in DOMAIN c |-> CommuteTest(act, c[i].match)]
           After(i) == {Rule(m, SequenceActions(act, c[i].actions)) : m \in tests[i]}
           stops(i) == \E j \in 1 .. i - 1 : tests[j] = {Identity}
           ss == [i \in DOMAIN c |-> IF tests[i] = {} \/ stops(i) THEN <<>>
                                     ELSE <<CHOOSE r \in After(i) : TRUE>>]
           new == FlattenSeq(ss)
           acts(i) == SequenceActions(act, c[i].actions)
<1>1. Len(c) \in Nat /\ DOMAIN c = 1 .. Len(c) /\ \A i \in DOMAIN c : c[i] \in R
  BY LenProperties, ElementOfSeq
<1>2. \A i \in DOMAIN c : c[i].match \in M /\ c[i].actions \in As /\ acts(i) \in As
  BY <1>1 DEF Rules, Suited
<1>3. SequenceActionClassifier(act, c) = IF new = <<>> THEN Nothing ELSE new
  BY DEF SequenceActionClassifier
<1>4. \A i \in DOMAIN c : tests[i] = CommuteTest(act, c[i].match)
  OBVIOUS
<1>5. \A i \in DOMAIN c : ss[i] = IF tests[i] = {} \/ stops(i) THEN <<>>
                                  ELSE <<CHOOSE r \in After(i) : TRUE>>
  OBVIOUS
<1>6. ss = [i \in DOMAIN c |-> ss[i]]
  OBVIOUS
<1> HIDE DEF tests, ss
<1>20. ASSUME NEW i \in DOMAIN c
       PROVE  /\ tests[i] = {} \/ \E t \in M : tests[i] = {t}
              /\ Goes(act) => (Sat(c[i].match, Moved(act, pkt)) <=> \E t \in tests[i] : Sat(t, pkt))
              /\ act.k \in {"controller", "count"} => tests[i] = {Identity}
              /\ act = Drop => tests[i] = {}
  <2> DEFINE m == c[i].match
  <2>1. m \in M /\ tests[i] = CommuteTest(act, m)
    BY <1>2, <1>4
  <2> HIDE DEF m
  <2>2. /\ CommuteTest(act, m) = {} \/ \E t \in M : CommuteTest(act, m) = {t}
        /\ Goes(act) => \A q : Sat(m, Moved(act, q)) <=> \E t \in CommuteTest(act, m) : Sat(t, q)
        /\ act.k \in {"controller", "count"} => CommuteTest(act, m) = {Identity}
        /\ act = Drop => CommuteTest(act, m) = {}
    BY <2>1, CommuteTestExact
  <2> QED
    BY <2>1, <2>2, Zenon DEF m
<1>7. ASSUME NEW i \in DOMAIN c
      PROVE  tests[i] = {} \/ \E t \in M : tests[i] = {t}
  BY <1>20
<1>8. ASSUME NEW i \in DOMAIN c, tests[i] = {} \/ stops(i)
      PROVE  ss[i] = <<>>
  BY <1>5, <1>8
<1>9. ASSUME NEW i \in DOMAIN c, NEW t \in M, tests[i] = {t}, ~stops(i)
      PROVE  /\ Rule(t, acts(i)) \in R
             /\ ss[i] = <<Rule(t, acts(i))>>
  <2> HIDE DEF stops
  <2> DEFINE r == Rule(t, acts(i))
  <2>1. After(i) = {r}
    BY <1>9
  <2>2. (CHOOSE x \in After(i) : TRUE) = r
    BY <2>1
  <2>3. r \in R
    BY <1>2 DEF Rules, Rule
  <2> HIDE DEF r
  <2>4. ss[i] = <<CHOOSE x \in After(i) : TRUE>>
    BY <1>5, <1>9
  <2> HIDE DEF After
  <2>5. ss[i] = <<r>>
    BY <2>2, <2>4
  <2> QED
    BY <2>3, <2>5 DEF r
<1> HIDE DEF After
<1>10. \A i \in DOMAIN c : ss[i] \in Seq(R)
  <2> SUFFICES ASSUME NEW i \in DOMAIN c PROVE ss[i] \in Seq(R)
    OBVIOUS
  <2>1. CASE tests[i] = {} \/ stops(i)
    <3>1. ss[i] = <<>>
      BY <2>1, <1>8
    <3> QED
      BY <3>1, SingleDecides
  <2>2. CASE ~(tests[i] = {} \/ stops(i))
    <3>1. PICK t \in M : tests[i] = {t}
      BY <2>2, <1>7
    <3>2. Rule(t, acts(i)) \in R /\ ss[i] = <<Rule(t, acts(i))>>
      BY <3>1, <2>2, <1>9
    <3> QED
      BY <3>2, SingleDecides
  <2> QED
    BY <2>1, <2>2
<1>11. ss \in Seq(Seq(R)) /\ DOMAIN ss = DOMAIN c
  BY <1>6, <1>10, AsBlocks
<1>12. new \in Seq(R)
  BY <1>11, FlattenType
<1>13. ASSUME NEW bs, Decided(new, pkt, bs)
       PROVE  Decided(SequenceActionClassifier(act, c), pkt, bs)
  <2>1. new # <<>>
    <3>1. ~Decided(<<>>, pkt, bs)
      BY SingleDecides
    <3> QED
      BY <3>1, <1>13, Zenon
  <2> QED
    BY <2>1, <1>3, <1>13
<1>14. SequenceActionClassifier(act, c) \in Seq(R)
  <2>1. Nothing \in Seq(R)
    BY NothingDecides
  <2> QED
    BY <2>1, <1>3, <1>12
<1>15. ASSUME NEW i \in DOMAIN c, NEW t \in M, tests[i] = {t}, ~stops(i), Sat(t, pkt)
       PROVE  Decided(ss[i], pkt, acts(i))
  <2> DEFINE r == Rule(t, acts(i))
  <2>1. r \in R /\ ss[i] = <<r>>
    BY <1>9, <1>15
  <2>2. r.match = t /\ r.actions = acts(i)
    BY DEF Rule
  <2> HIDE DEF r
  <2>3. Decided(<<r>>, pkt, acts(i))
    BY <2>1, <2>2, <1>15, SingleDecides
  <2> QED
    BY <2>1, <2>3
<1>16. ASSUME NEW i \in DOMAIN c, \A t \in tests[i] : ~Sat(t, pkt)
       PROVE  Silent(ss[i], pkt)
  <2>1. CASE tests[i] = {} \/ stops(i)
    BY <2>1, <1>8, SingleDecides
  <2>2. CASE ~(tests[i] = {} \/ stops(i))
    <3>1. PICK t \in M : tests[i] = {t}
      BY <2>2, <1>7
    <3> DEFINE r == Rule(t, acts(i))
    <3>2. r \in R /\ ss[i] = <<r>>
      BY <3>1, <2>2, <1>9
    <3>3. r.match = t
      BY DEF Rule
    <3> HIDE DEF r
    <3>4. Silent(<<r>>, pkt)
      BY <3>1, <3>2, <3>3, <1>16, SingleDecides
    <3> QED
      BY <3>2, <3>4
  <2> QED
    BY <2>1, <2>2
<1>17. ASSUME NEW bs, Goes(act), Decided(c, Moved(act, pkt), bs)
       PROVE  Decided(new, pkt, SequenceActions(act, bs))
  <2>1. PICK n \in DOMAIN c : /\ Sat(c[n].match, Moved(act, pkt)) /\ c[n].actions = bs
                              /\ \A j \in 1 .. n - 1 : ~Sat(c[j].match, Moved(act, pkt))
    BY <1>17 DEF Decided
  <2>2. \A i \in DOMAIN c : Sat(c[i].match, Moved(act, pkt)) <=> \E t \in tests[i] : Sat(t, pkt)
    BY <1>17, <1>20
  <2>3. \A j \in 1 .. n - 1 : j \in DOMAIN c /\ \A t \in tests[j] : ~Sat(t, pkt)
    BY <1>1, <2>1, <2>2
  <2>4. Sat(Identity, pkt)
    BY DEF Sat, Identity
  <2>5. ~stops(n)
    BY <2>3, <2>4
  <2>6. PICK t \in M : tests[n] = {t} /\ Sat(t, pkt)
    BY <2>1, <2>2, <1>7
  <2> HIDE DEF stops
  <2>7. Decided(ss[n], pkt, acts(n)) /\ acts(n) = SequenceActions(act, bs)
    BY <1>15, <2>1, <2>5, <2>6
  <2>8. \A j \in 1 .. n - 1 : Silent(ss[j], pkt)
    BY <1>16, <2>3
  <2> HIDE DEF acts
  <2> QED
    BY <2>7, <2>8, <1>11, FlattenDecides
<1>18. ASSUME act.k \in {"controller", "count"}, c # <<>>
       PROVE  Decided(new, pkt, <<act>>)
  <2>1. 1 \in DOMAIN c
    BY <1>1, <1>18, EmptySeq
  <2>2. tests[1] = {Identity} /\ Identity \in M
    BY <2>1, <1>18, <1>20 DEF Suited
  <2>3. ~stops(1)
    OBVIOUS
  <2>4. Sat(Identity, pkt)
    BY DEF Sat, Identity
  <2>5. acts(1) = <<act>>
    BY <1>18 DEF SequenceActions
  <2>6. Decided(ss[1], pkt, <<act>>)
    BY <2>1, <2>2, <2>3, <2>4, <2>5, <1>15
  <2>7. \A j \in 1 .. 1 - 1 : Silent(ss[j], pkt)
    OBVIOUS
  <2> QED
    BY <2>1, <2>6, <2>7, <1>11, FlattenDecides
<1>19. ASSUME act = Drop
       PROVE  Decided(SequenceActionClassifier(act, c), pkt, <<Drop>>)
  <2>1. \A i \in DOMAIN c : ss[i] = <<>>
    BY <1>8, <1>19, <1>20
  <2>2. \A i \in DOMAIN c : Range(ss[i]) = {}
    BY <2>1, SingleDecides, Zenon
  <2>3. Range(new) = {}
    BY <2>2, <1>11, FlattenRange
  <2>4. new = <<>>
    <3>0. DOMAIN new = {}
      <4> HIDE DEF new, R
      <4> QED
        BY <2>3 DEF Range
    <3>1. DOMAIN new = 1 .. Len(new) /\ Len(new) \in Nat
      <4> HIDE DEF new, R
      <4> QED
        BY <1>12, LenProperties
    <3>2. Len(new) = 0
      BY <3>0, <3>1
    <3> QED
      BY <3>2, <1>12, EmptySeq
  <2> QED
    BY <2>4, <1>3, NothingDecides
<1> QED
  BY <1>13, <1>14, <1>17, <1>18, <1>19

\* The action that is left of two in a row, and the actions that a1 leaves of those
\* that follow it.
Then(a1, a2) ==
    CASE a2.k = "identity" -> a1
      [] a2.k = "modify"   -> Modify(Merged(a1.a, a2.a))
      [] OTHER             -> a2
LiveAfter(a1, L) ==
    CASE a1.k = "identity" -> L
      [] a1.k = "modify"   -> {Then(a1, a2) : a2 \in L}
      [] a1.k = "drop"     -> {}
      [] OTHER             -> {a1}

\* The first rule of c that matches pkt does L.
Decides(c, pkt, L) == \E as : Decided(c, pkt, as) /\ Live(as) = L

\* d does to pkt what c does to what the actions as make of it.
Behind(d, pkt, as, c) ==
    \A ls : c # <<>> /\ (\A a \in Range(as) : Goes(a) => Decides(c, Moved(a, pkt), ls[a])) =>
        Decides(d, pkt, UNION {LiveAfter(a, ls[a]) : a \in Range(as)})

LEMMA SequenceActionsLive ==
    ASSUME NEW act \in Actions, Goes(act), NEW bs \in Seq(Actions)
    PROVE  Live(SequenceActions(act, bs)) = LiveAfter(act, Live(bs))
<1>1. CASE act.k = "identity"
  BY <1>1 DEF SequenceActions, LiveAfter
<1>2. CASE act.k = "modify"
  <2>1. act = Modify(act.a)
    BY <1>2, ActionKinds
  <2> DEFINE cs == SequenceActions(act, bs)
  <2>2. cs = [i \in DOMAIN bs |-> Then(act, bs[i])]
    BY <1>2 DEF SequenceActions, Then
  <2> HIDE DEF cs
  <2>3. DOMAIN cs = DOMAIN bs /\ \A i \in DOMAIN bs : cs[i] = Then(act, bs[i])
    BY <2>2
  <2>4. \A i \in DOMAIN bs : bs[i] \in Actions
    BY LenProperties, ElementOfSeq
  <2>5. \A b \in Actions : Then(act, b) = Drop <=> b = Drop
    <3> SUFFICES ASSUME NEW b \in Actions PROVE Then(act, b) = Drop <=> b = Drop
      OBVIOUS
    <3>1. b.k = "drop" <=> b = Drop
      BY ActionKinds
    <3>2. act # Drop
      BY <1>2 DEF Drop
    <3>3. \A m : Modify(m) # Drop
      BY DEF Modify, Drop
    <3> QED
      BY <3>1, <3>2, <3>3 DEF Then
  <2>6. \A x : x \in Live(cs) <=> \E i \in DOMAIN bs : x = Then(act, bs[i]) /\ bs[i] # Drop
    BY <2>3, <2>4, <2>5 DEF Live, Range
  <2>7. \A x : x \in LiveAfter(act, Live(bs)) <=> \E i \in DOMAIN bs : x = Then(act, bs[i]) /\ bs[i] # Drop
    <3>1. LiveAfter(act, Live(bs)) = {Then(act, b) : b \in Live(bs)}
      BY <1>2 DEF LiveAfter
    <3>2. \A b : b \in Live(bs) <=> \E i \in DOMAIN bs : b = bs[i] /\ b # Drop
      BY DEF Live, Range
    <3> QED
      BY <3>1, <3>2
  <2> QED
    BY <2>6, <2>7 DEF cs
<1> QED
  BY <1>1, <1>2 DEF Goes

LEMMA SequenceActionDecides ==
    ASSUME NEW M, NEW As, Suited(M, As), NEW c \in Seq(Rules(M, As)), c # <<>>,
           NEW as \in As, NEW act \in Range(as), NEW pkt, NEW L,
           Goes(act) => Decides(c, Moved(act, pkt), L)
    PROVE  Decides(SequenceActionClassifier(act, c), pkt, LiveAfter(act, L))
<1>1. act \in Actions
  <2>1. as \in Seq(Actions)
    BY DEF Suited
  <2>2. PICK i \in DOMAIN as : act = as[i]
    BY DEF Range
  <2>3. as[i] \in Actions
    BY <2>1, LenProperties, ElementOfSeq
  <2> QED
    BY <2>2, <2>3
<1>2. CASE Goes(act)
  <2>1. PICK bs : Decided(c, Moved(act, pkt), bs) /\ Live(bs) = L
    BY <1>2 DEF Decides
  <2>2. bs \in Seq(Actions)
    BY <2>1, DecidedType DEF Suited
  <2>3. Decided(SequenceActionClassifier(act, c), pkt, SequenceActions(act, bs))
    BY <1>2, <2>1, SequenceActionExact
  <2>4. Live(SequenceActions(act, bs)) = LiveAfter(act, L)
    BY <1>1, <1>2, <2>1, <2>2, SequenceActionsLive
  <2> QED
    BY <2>3, <2>4 DEF Decides
<1>3. CASE act.k = "drop"
  <2>1. Decided(SequenceActionClassifier(act, c), pkt, <<Drop>>)
    BY <1>1, <1>3, SequenceActionExact, ActionKinds
  <2>2. Live(<<Drop>>) = {}
    BY SingleDecides DEF Live
  <2>3. LiveAfter(act, L) = {}
    BY <1>3 DEF LiveAfter
  <2> QED
    BY <2>1, <2>2, <2>3 DEF Decides
<1>4. CASE act.k \in {"controller", "count"}
  <2>1. Decided(SequenceActionClassifier(act, c), pkt, <<act>>)
    BY <1>4, SequenceActionExact
  <2>2. act # Drop
    BY <1>4 DEF Drop
  <2>3. Live(<<act>>) = {act}
    BY <2>2, SingleDecides DEF Live
  <2>4. LiveAfter(act, L) = {act}
    BY <1>4 DEF LiveAfter
  <2> QED
    BY <2>1, <2>3, <2>4 DEF Decides
<1> QED
  BY <1>1, <1>2, <1>3, <1>4, ActionKinds DEF Goes

LEMMA SequenceActionsDecide ==
    ASSUME NEW M, NEW As, Suited(M, As), NEW c \in Seq(Rules(M, As)), NEW as \in As
    PROVE  /\ SequenceActionsClassifier(as, c) \in Seq(Rules(M, As))
           /\ \A pkt : Behind(SequenceActionsClassifier(as, c), pkt, as, c)
<1> DEFINE Q == Seq(Rules(M, As))
           n == Len(as)
           each == [i \in DOMAIN as |-> SequenceActionClassifier(as[i], c)]
           cs == <<Nothing>> \o each
<1>1. n \in Nat /\ DOMAIN as = 1 .. n /\ \A i \in DOMAIN as : as[i] \in Range(as)
  <2>1. as \in Seq(Actions)
    BY DEF Suited
  <2> QED
    BY <2>1, LenProperties DEF Range
<1>2. \A i \in DOMAIN as : SequenceActionClassifier(as[i], c) \in Q
  BY <1>1, SequenceActionExact
<1>3. Nothing \in Q
  BY NothingDecides
<1> HIDE DEF Q, n
<1>4. each \in Seq(Q) /\ Len(each) = n /\ \A i \in 1 .. n : each[i] = SequenceActionClassifier(as[i], c)
  <2>1. each \in [1 .. n -> Q] /\ \A i \in 1 .. n : each[i] = SequenceActionClassifier(as[i], c)
    BY <1>1, <1>2
  <2> HIDE DEF each
  <2> QED
    BY <1>1, <2>1, AsSequence
<1> HIDE DEF each
<1>5. <<Nothing>> \in Seq(Q) /\ Len(<<Nothing>>) = 1 /\ <<Nothing>>[1] = Nothing
  BY <1>3
<1>6. /\ cs \in Seq(Q) /\ Len(cs) = 1 + n /\ DOMAIN cs = 1 .. 1 + n
      /\ \A i \in 1 .. 1 + n : cs[i] = IF i <= 1 THEN Nothing ELSE SequenceActionClassifier(as[i - 1], c)
  <2>1. /\ cs \in Seq(Q) /\ Len(cs) = 1 + n
        /\ \A i \in 1 .. 1 + n : cs[i] = IF i <= 1 THEN <<Nothing>>[i] ELSE each[i - 1]
    BY <1>4, <1>5, ConcatProperties
  <2>2. DOMAIN cs = 1 .. 1 + n
    BY <2>1, LenProperties
  <2>3. ASSUME NEW i \in 1 .. 1 + n
        PROVE  cs[i] = IF i <= 1 THEN Nothing ELSE SequenceActionClassifier(as[i - 1], c)
    <3>1. CASE i = 1
      BY <3>1, <2>1, <1>1, <1>5
    <3>2. CASE i # 1
      <4>1. i - 1 \in 1 .. n /\ ~(i <= 1)
        BY <3>2, <1>1
      <4> QED
        BY <4>1, <2>1, <1>4
    <3> QED
      BY <3>1, <3>2
  <2> QED
    BY <2>1, <2>2, <2>3
<1>7. SequenceActionsClassifier(as, c) = AddAll(cs)
  BY DEF SequenceActionsClassifier, each
<1> HIDE DEF cs
<1>8. /\ AddAll(cs) \in Q
      /\ \A pkt, ds : (\A i \in DOMAIN cs : Decided(cs[i], pkt, ds[i])) =>
            \E bs : /\ Decided(AddAll(cs), pkt, bs)
                    /\ Live(bs) = UNION {Live(ds[i]) : i \in DOMAIN cs}
  <2>1. cs \in Seq(Q) /\ Len(cs) # 0
    BY <1>1, <1>6
  <2>2. cs \in Seq(Seq(Rules(M, As))) /\ Len(cs) # 0
    BY <2>1 DEF Q
  <2> HIDE DEF Q
  <2>3. AddAll(cs) \in Seq(Rules(M, As)) /\ Sums(AddAll(cs), cs)
    BY <2>2, AddAllExact
  <2>4. AddAll(cs) \in Q
    BY <2>3 DEF Q
  <2> QED
    BY <2>3, <2>4 DEF Sums
<1>9. ASSUME NEW pkt, NEW ls, c # <<>>,
             \A a \in Range(as) : Goes(a) => Decides(c, Moved(a, pkt), ls[a])
      PROVE  Decides(AddAll(cs), pkt, UNION {LiveAfter(a, ls[a]) : a \in Range(as)})
  <2> DEFINE Fits(i, bs) == Decided(cs[i], pkt, bs) /\ Live(bs) = LiveAfter(as[i - 1], ls[as[i - 1]])
             ds == [i \in 1 .. 1 + n |-> IF i = 1 THEN <<Drop>> ELSE CHOOSE bs : Fits(i, bs)]
  <2>0. 1 \in 1 .. 1 + n
    BY <1>1
  <2>1. cs[1] = Nothing /\ 1 \in 1 .. 1 + n
    <3>1. cs[1] = IF 1 <= 1 THEN Nothing ELSE SequenceActionClassifier(as[1 - 1], c)
      BY <2>0, <1>6
    <3> QED
      BY <2>0, <3>1
  <2>2. Decided(cs[1], pkt, ds[1]) /\ Live(ds[1]) = {}
    <3>1. ds[1] = <<Drop>>
      BY <2>1
    <3>2. Live(<<Drop>>) = {}
      BY SingleDecides DEF Live
    <3> QED
      BY <2>1, <3>1, <3>2, NothingDecides
  <2>3. ASSUME NEW i \in 1 .. n
        PROVE  Decided(cs[i + 1], pkt, ds[i + 1]) /\ Live(ds[i + 1]) = LiveAfter(as[i], ls[as[i]])
    <3>1. i + 1 \in 1 .. 1 + n /\ i + 1 # 1 /\ ~(i + 1 <= 1) /\ (i + 1) - 1 = i
      BY <1>1
    <3>2. as[i] \in Range(as) /\ cs[i + 1] = SequenceActionClassifier(as[i], c)
      BY <1>1, <1>6, <3>1
    <3>3. Decides(cs[i + 1], pkt, LiveAfter(as[i], ls[as[i]]))
      <4> DEFINE a == as[i]
      <4> HIDE DEF a
      <4>1. a \in Range(as) /\ (Goes(a) => Decides(c, Moved(a, pkt), ls[a]))
        BY <3>2, <1>9 DEF a
      <4>2. Decides(SequenceActionClassifier(a, c), pkt, LiveAfter(a, ls[a]))
        BY <4>1, <1>9, SequenceActionDecides
      <4> QED
        BY <3>2, <4>2 DEF a
    <3>4. \E bs : Fits(i + 1, bs)
      BY <3>1, <3>3 DEF Decides
    <3>5. ds[i + 1] = CHOOSE bs : Fits(i + 1, bs)
      BY <3>1
    <3> HIDE DEF ds
    <3>6. Fits(i + 1, ds[i + 1])
      <4> HIDE DEF Fits
      <4> QED
        BY <3>4, <3>5, Zenon
    <3> QED
      BY <3>1, <3>6
  <2> HIDE DEF ds
  <2>4. ASSUME NEW i \in 1 .. 1 + n
        PROVE  i = 1 \/ \E j \in 1 .. n : i = j + 1
    <3>1. i # 1 => i - 1 \in 1 .. n /\ i = (i - 1) + 1
      BY <1>1
    <3> QED
      BY <3>1
  <2>5. \A i \in DOMAIN cs : Decided(cs[i], pkt, ds[i])
    BY <1>6, <2>2, <2>3, <2>4
  <2>6. PICK bs : Decided(AddAll(cs), pkt, bs) /\ Live(bs) = UNION {Live(ds[i]) : i \in DOMAIN cs}
    BY <1>8, <2>5
  <2>7. \A i \in 1 .. n : i + 1 \in 1 .. 1 + n
    BY <1>1
  <2>8. ASSUME NEW x
        PROVE  x \in Live(bs) <=> x \in UNION {LiveAfter(a, ls[a]) : a \in Range(as)}
    <3>1. x \in Live(bs) <=> \E i \in 1 .. 1 + n : x \in Live(ds[i])
      BY <1>6, <2>6
    <3>2. x \in Live(bs) <=> \E i \in 1 .. n : x \in LiveAfter(as[i], ls[as[i]])
      BY <2>2, <2>3, <2>4, <2>7, <3>1
    <3>3. \A a : a \in Range(as) <=> \E i \in 1 .. n : a = as[i]
      BY <1>1 DEF Range
    <3>4. (\E i \in 1 .. n : x \in LiveAfter(as[i], ls[as[i]]))
             <=> \E a \in Range(as) : x \in LiveAfter(a, ls[a])
      BY <3>3, Zenon
    <3> QED
      BY <3>2, <3>4
  <2> QED
    BY <2>6, <2>8, Zenon DEF Decides
<1> DEFINE d == SequenceActionsClassifier(as, c)
<1>10. d \in Q
  BY <1>7, <1>8
<1>11. ASSUME NEW pkt, NEW ls, c # <<>>,
              \A a \in Range(as) : Goes(a) => Decides(c, Moved(a, pkt), ls[a])
       PROVE  Decides(d, pkt, UNION {LiveAfter(a, ls[a]) : a \in Range(as)})
  <2>1. Decides(AddAll(cs), pkt, UNION {LiveAfter(a, ls[a]) : a \in Range(as)})
    BY <1>9, <1>11
  <2> QED
    BY <1>7, <2>1
<1> HIDE DEF d
<1>12. d \in Seq(Rules(M, As))
  BY <1>10 DEF Q
<1>13. \A pkt : Behind(d, pkt, as, c)
  BY <1>11 DEF Behind
<1> QED
  BY <1>12, <1>13 DEF d

LEMMA WithinExact ==
    ASSUME NEW M, NEW As, Suited(M, As), NEW r \in Rules(M, As), NEW r2 \in Rules(M, As), NEW pkt
    PROVE  /\ Within(r, r2) \in Seq(Rules(M, As))
           /\ Silent(Within(r, r2), pkt) <=> ~(Sat(r.match, pkt) /\ Sat(r2.match, pkt))
           /\ \A as : Decided(Within(r, r2), pkt, as) <=>
                 Sat(r.match, pkt) /\ Sat(r2.match, pkt) /\ as = r2.actions
<1>1. /\ r.match \in M /\ r2.match \in M /\ r2.actions \in As
      /\ r.match \in MatchOf /\ r2.match \in MatchOf
  BY DEF Rules, Suited
<1> DEFINE m == Meet(r2.match, r.match)
           q == Rule(m, r2.actions)
<1>2. CASE Disjoint(r2.match, r.match)
  <2>1. Within(r, r2) = <<>>
    BY <1>2 DEF Within
  <2>2. ~(Sat(r.match, pkt) /\ Sat(r2.match, pkt))
    BY <1>1, <1>2, DisjointApart
  <2>3. /\ <<>> \in Seq(Rules(M, As))
        /\ Silent(<<>>, pkt) /\ \A bs : ~Decided(<<>>, pkt, bs)
    BY SingleDecides
  <2> QED
    BY <2>1, <2>2, <2>3, Zenon
<1>3. CASE ~Disjoint(r2.match, r.match)
  <2>1. Within(r, r2) = <<q>>
    BY <1>3 DEF Within
  <2>2. m \in M
    BY <1>1, <1>3 DEF Suited
  <2>3. Sat(m, pkt) <=> Sat(r.match, pkt) /\ Sat(r2.match, pkt)
    BY <1>1, <1>3, MeetExact
  <2> HIDE DEF m
  <2>4. q \in Rules(M, As) /\ q.match = m /\ q.actions = r2.actions
    BY <1>1, <2>2 DEF Rules, Rule
  <2> HIDE DEF q
  <2>5. /\ <<q>> \in Seq(Rules(M, As))
        /\ Silent(<<q>>, pkt) <=> ~Sat(q.match, pkt)
        /\ \A bs : Decided(<<q>>, pkt, bs) <=> Sat(q.match, pkt) /\ q.actions = bs
    BY <2>4, SingleDecides
  <2>6. /\ Silent(<<q>>, pkt) <=> ~Sat(m, pkt)
        /\ \A bs : Decided(<<q>>, pkt, bs) <=> Sat(m, pkt) /\ bs = r2.actions
    BY <2>4, <2>5, Zenon
  <2> QED
    BY <2>1, <2>3, <2>5, <2>6, Zenon
<1> QED
  BY <1>2, <1>3

(* A classifier behind a rule does nothing with the packets the rule does not
   match, and with the others what it does behind the rule's actions. *)
LEMMA SequenceRuleDecides ==
    ASSUME NEW M, NEW As, Suited(M, As), NEW r \in Rules(M, As), NEW c \in Seq(Rules(M, As))
    PROVE  /\ SequenceRuleClassifier(r, c) \in Seq(Rules(M, As))
           /\ \A pkt : ~Sat(r.match, pkt) => Silent(SequenceRuleClassifier(r, c), pkt)
           /\ \A pkt : Sat(r.match, pkt) => Behind(SequenceRuleClassifier(r, c), pkt, r.actions, c)
<1> DEFINE R == Rules(M, As)
           c2 == SequenceActionsClassifier(r.actions, c)
           ss == [i \in DOMAIN c2 |-> Within(r, c2[i])]
           d == FlattenSeq(ss)
           e == SequenceRuleClassifier(r, c)
<1>1. r.actions \in As
  BY DEF Rules
<1>2. c2 \in Seq(R)
  BY <1>1, SequenceActionsDecide
<1>3. \A pkt : Behind(c2, pkt, r.actions, c)
  BY <1>1, SequenceActionsDecide
<1>4. e = Optimize(d)
  BY DEF SequenceRuleClassifier
<1> HIDE DEF c2, e
<1>5. \A i \in DOMAIN c2 : c2[i] \in R
  BY <1>2, LenProperties, ElementOfSeq
<1>6. \A i \in DOMAIN c2 : ss[i] = Within(r, c2[i])
  OBVIOUS
<1>7. \A i \in DOMAIN c2 : ss[i] \in Seq(R)
  BY <1>5, WithinExact
<1>8. ss \in Seq(Seq(R)) /\ DOMAIN ss = DOMAIN c2
  <2>1. ss = [i \in DOMAIN c2 |-> ss[i]]
    OBVIOUS
  <2> HIDE DEF ss
  <2> QED
    BY <2>1, <1>2, <1>7, AsBlocks
<1> HIDE DEF ss
<1>9. d \in Seq(R)
  BY <1>8, FlattenType
<1>10. ASSUME NEW pkt, ~Sat(r.match, pkt)
       PROVE  Silent(e, pkt)
  <2>1. \A i \in DOMAIN ss : Silent(ss[i], pkt)
    BY <1>5, <1>6, <1>8, <1>10, WithinExact
  <2>2. Silent(d, pkt)
    BY <2>1, <1>8, FlattenDecides
  <2> HIDE DEF d
  <2> QED
    BY <2>2, <1>4, <1>9, OptimizeExact
<1>11. ASSUME NEW pkt, Sat(r.match, pkt), NEW as, Decided(c2, pkt, as)
       PROVE  Decided(e, pkt, as)
  <2>1. PICK n \in DOMAIN c2 : /\ Sat(c2[n].match, pkt) /\ c2[n].actions = as
                               /\ \A j \in 1 .. n - 1 : ~Sat(c2[j].match, pkt)
    BY <1>11 DEF Decided
  <2>2. \A j \in 1 .. n - 1 : j \in DOMAIN c2
    <3>1. DOMAIN c2 = 1 .. Len(c2) /\ Len(c2) \in Nat
      BY <1>2, LenProperties
    <3> QED
      BY <3>1
  <2>3. Decided(ss[n], pkt, as)
    BY <2>1, <1>5, <1>6, <1>11, WithinExact
  <2>4. \A j \in 1 .. n - 1 : Silent(ss[j], pkt)
    <3> SUFFICES ASSUME NEW j \in 1 .. n - 1 PROVE Silent(ss[j], pkt)
      OBVIOUS
    <3>1. j \in DOMAIN c2 /\ c2[j] \in R /\ ss[j] = Within(r, c2[j]) /\ ~Sat(c2[j].match, pkt)
      BY <2>1, <2>2, <1>5, <1>6
    <3>2. Silent(Within(r, c2[j]), pkt)
      BY <3>1, WithinExact
    <3> QED
      BY <3>1, <3>2
  <2>5. Decided(d, pkt, as)
    BY <2>3, <2>4, <1>8, FlattenDecides
  <2> HIDE DEF d
  <2> QED
    BY <2>5, <1>4, <1>9, OptimizeExact
<1>12. ASSUME NEW pkt, NEW ls, c # <<>>, Sat(r.match, pkt),
              \A a \in Range(r.actions) : Goes(a) => Decides(c, Moved(a, pkt), ls[a])
       PROVE  Decides(e, pkt, UNION {LiveAfter(a, ls[a]) : a \in Range(r.actions)})
  <2>1. Decides(c2, pkt, UNION {LiveAfter(a, ls[a]) : a \in Range(r.actions)})
    BY <1>3, <1>12 DEF Behind
  <2> DEFINE L == UNION {LiveAfter(a, ls[a]) : a \in Range(r.actions)}
  <2> HIDE DEF L
  <2>2. PICK as : Decided(c2, pkt, as) /\ Live(as) = L
    BY <2>1 DEF Decides, L
  <2>3. Decided(e, pkt, as)
    BY <2>2, <1>11, <1>12
  <2>4. Decides(e, pkt, L)
    BY <2>2, <2>3 DEF Decides
  <2> QED
    BY <2>4 DEF L
<1>13. e \in Seq(R)
  <2> HIDE DEF d
  <2> QED
    BY <1>4, <1>9, OptimizeExact
<1>14. \A pkt : Sat(r.match, pkt) => Behind(e, pkt, r.actions, c)
  BY <1>12 DEF Behind
<1> QED
  BY <1>10, <1>13, <1>14 DEF e

(* Classifier.__rshift__: where c1 decides, the classifiers in sequence do what
   c2 does with what the actions of c1 make of the packet. *)
THEOREM SequenceExact ==
    ASSUME NEW M, NEW As, Suited(M, As), NEW c1 \in Seq(Rules(M, As)), NEW c2 \in Seq(Rules(M, As))
    PROVE  /\ SequenceClassifiers(c1, c2) \in Seq(Rules(M, As))
           /\ \A pkt, as : Decided(c1, pkt, as) => Behind(SequenceClassifiers(c1, c2), pkt, as, c2)
<1> DEFINE R == Rules(M, As)
           ss == [i \in DOMAIN c1 |-> SequenceRuleClassifier(c1[i], c2)]
           d == FlattenSeq(ss)
           e == SequenceClassifiers(c1, c2)
<1>1. Len(c1) \in Nat /\ DOMAIN c1 = 1 .. Len(c1) /\ \A i \in DOMAIN c1 : c1[i] \in R
  BY LenProperties, ElementOfSeq
<1>2. e = Optimize(d)
  BY DEF SequenceClassifiers
<1>3. \A i \in DOMAIN c1 : ss[i] = SequenceRuleClassifier(c1[i], c2)
  OBVIOUS
<1> HIDE DEF e
<1>4. \A i \in DOMAIN c1 : ss[i] \in Seq(R)
  BY <1>1, SequenceRuleDecides
<1>5. ss \in Seq(Seq(R)) /\ DOMAIN ss = DOMAIN c1
  <2>1. ss = [i \in DOMAIN c1 |-> ss[i]]
    OBVIOUS
  <2> HIDE DEF ss
  <2> QED
    BY <2>1, <1>4, AsBlocks
<1> HIDE DEF ss
<1>6. d \in Seq(R)
  BY <1>5, FlattenType
<1>7. ASSUME NEW pkt, NEW as, Decided(c1, pkt, as)
      PROVE  Behind(e, pkt, as, c2)
  <2>0. SUFFICES ASSUME NEW ls, c2 # <<>>,
                       \A a \in Range(as) : Goes(a) => Decides(c2, Moved(a, pkt), ls[a])
                PROVE  Decides(e, pkt, UNION {LiveAfter(a, ls[a]) : a \in Range(as)})
    BY DEF Behind
  <2>1. PICK n \in DOMAIN c1 : /\ Sat(c1[n].match, pkt) /\ c1[n].actions = as
                               /\ \A j \in 1 .. n - 1 : ~Sat(c1[j].match, pkt)
    BY <1>7 DEF Decided
  <2> DEFINE L == UNION {LiveAfter(a, ls[a]) : a \in Range(as)}
  <2>2. Decides(ss[n], pkt, L)
    <3> DEFINE r == c1[n]
    <3>1. r \in R /\ Sat(r.match, pkt) /\ r.actions = as /\ ss[n] = SequenceRuleClassifier(r, c2)
      BY <2>1, <1>1, <1>3
    <3> HIDE DEF r
    <3>2. Behind(SequenceRuleClassifier(r, c2), pkt, r.actions, c2)
      BY <3>1, SequenceRuleDecides
    <3>3. \A a \in Range(r.actions) : Goes(a) => Decides(c2, Moved(a, pkt), ls[a])
      BY <3>1, <2>0
    <3>4. Decides(SequenceRuleClassifier(r, c2), pkt, UNION {LiveAfter(a, ls[a]) : a \in Range(r.actions)})
      BY <3>2, <3>3, <2>0 DEF Behind
    <3> QED
      BY <3>1, <3>4
  <2> HIDE DEF L
  <2>3. PICK bs : Decided(ss[n], pkt, bs) /\ Live(bs) = L
    BY <2>2 DEF Decides
  <2>4. \A j \in 1 .. n - 1 : Silent(ss[j], pkt)
    <3> SUFFICES ASSUME NEW j \in 1 .. n - 1 PROVE Silent(ss[j], pkt)
      OBVIOUS
    <3>1. j \in DOMAIN c1
      BY <1>1
    <3>2. c1[j] \in R /\ ss[j] = SequenceRuleClassifier(c1[j], c2) /\ ~Sat(c1[j].match, pkt)
      BY <3>1, <2>1, <1>1, <1>3
    <3>3. Silent(SequenceRuleClassifier(c1[j], c2), pkt)
      BY <3>2, SequenceRuleDecides
    <3> QED
      BY <3>2, <3>3
  <2>5. Decided(d, pkt, bs)
    BY <2>3, <2>4, <1>5, FlattenDecides
  <2> HIDE DEF d
  <2>6. Decided(e, pkt, bs)
    BY <2>5, <1>2, <1>6, OptimizeExact
  <2>7. Decides(e, pkt, L)
    BY <2>3, <2>6 DEF Decides
  <2> QED
    BY <2>7 DEF L
<1>8. e \in Seq(R)
  <2> HIDE DEF d
  <2> QED
    BY <1>2, <1>6, OptimizeExact
<1> QED
  BY <1>7, <1>8 DEF e

\* Classifiers, one after the other.
LEMMA SequenceAllUnfolds ==
    ASSUME NEW M, NEW As, Suited(M, As), NEW cs \in Seq(Seq(Rules(M, As))), Len(cs) # 0
    PROVE  \E f : /\ SequenceAll(cs) = f[Len(cs)]
                  /\ f[1] = cs[1]
                  /\ \A n \in 2 .. Len(cs) : f[n] = SequenceClassifiers(f[n - 1], cs[n])
<1> DEFINE N == Len(cs)
           Q == Seq(Rules(M, As))
           R(h) == h = [n \in 1 .. N |-> IF n = 1 THEN cs[1] ELSE SequenceClassifiers(h[n - 1], cs[n])]
           f == CHOOSE h : R(h)
           step == [n \in 2 .. N |-> [x \in Q |-> SequenceClassifiers(x, cs[n])]]
<1>1. N \in Nat /\ N # 0 /\ \A n \in 1 .. N : cs[n] \in Q
  BY LenProperties, ElementOfSeq
<1>2. SequenceAll(cs) = f[N]
  BY DEF SequenceAll
<1>3. \A n \in 2 .. N, x \in Q : SequenceClassifiers(x, cs[n]) \in Q
  BY <1>1, SequenceExact
<1>4. \A n \in 2 .. N, x \in Q : step[n][x] = SequenceClassifiers(x, cs[n])
  OBVIOUS
<1> HIDE DEF Q, N, f
<1>5. step \in [2 .. N -> [Q -> Q]]
  BY <1>3
<1> HIDE DEF step
<1>6. PICK g \in [1 .. N -> Q] : Follows(g, N, cs[1], step)
  <2>1. N \in Nat /\ N # 0 /\ cs[1] \in Q
    BY <1>1
  <2> QED
    BY <2>1, <1>5, RecursionExists
<1>7. g[1] = cs[1] /\ \A n \in 2 .. N : g[n] = SequenceClassifiers(g[n - 1], cs[n])
  <2>1. \A n \in 2 .. N : n - 1 \in 1 .. N
    BY <1>1
  <2>2. \A n \in 2 .. N : g[n - 1] \in Q
    BY <2>1, <1>6
  <2>3. g[1] = cs[1] /\ \A n \in 2 .. N : g[n] = step[n][g[n - 1]]
    BY <1>6 DEF Follows
  <2> QED
    BY <2>2, <2>3, <1>4
<1>8. R(g)
  <2>1. \A n \in 1 .. N : g[n] = IF n = 1 THEN cs[1] ELSE SequenceClassifiers(g[n - 1], cs[n])
    BY <1>1, <1>7
  <2> QED
    BY <2>1
<1>9. R(f)
  BY <1>8 DEF f
<1>10. f[1] = cs[1] /\ \A n \in 2 .. N : f[n] = SequenceClassifiers(f[n - 1], cs[n])
  BY <1>1, <1>9
<1> QED
  BY <1>2, <1>10 DEF N
-----------------------------------------------------------------------------
(* Negated classifiers *)

\* The actions of the rules of filters: all of them pass, or all drop.
Verdicts == {as \in Seq({True, Drop}) : Range(as) \in {{True}, {Drop}}}

LEMMA VerdictKinds ==
    ASSUME NEW as \in Verdicts
    PROVE  /\ as[1] = True => Live(as) = {True}
           /\ as[1] # True => Live(as) = {}
<1>1. as \in Seq({True, Drop}) /\ (Range(as) = {True} \/ Range(as) = {Drop})
  BY DEF Verdicts
<1>2. DOMAIN as = 1 .. Len(as) /\ Len(as) \in Nat
  BY <1>1, LenProperties
<1>3. PICK x : x \in Range(as)
  BY <1>1
<1>4. PICK i \in DOMAIN as : x = as[i]
  BY <1>3 DEF Range
<1>5. 1 \in DOMAIN as
  <2> DEFINE n == Len(as)
  <2>1. DOMAIN as = 1 .. n /\ n \in Nat
    BY <1>2
  <2> HIDE DEF n
  <2>2. \A j \in 1 .. n : 1 \in 1 .. n
    BY <2>1
  <2> QED
    BY <2>1, <2>2, <1>4, Zenon
<1>6. as[1] \in Range(as)
  BY <1>5 DEF Range
<1>7. True # Drop
  BY DEF True, Drop
<1>8. CASE Range(as) = {True}
  <2>1. as[1] = True
    BY <1>6, <1>8
  <2>2. Live(as) = {True}
    BY <1>7, <1>8 DEF Live
  <2> QED
    BY <2>1, <2>2
<1>9. CASE Range(as) = {Drop}
  <2>1. as[1] = Drop
    BY <1>6, <1>9
  <2>2. Live(as) = {}
    BY <1>9 DEF Live
  <2> QED
    BY <1>7, <2>1, <2>2
<1> QED
  BY <1>1, <1>8, <1>9

(* negate.compile: the other verdict on every packet. *)
THEOREM NegateExact ==
    ASSUME NEW M, NEW c \in Seq(Rules(M, Verdicts))
    PROVE  /\ NegateRules(c) \in Seq(Rules(M, Verdicts))
           /\ \A pkt : /\ Decides(c, pkt, {True}) => Decides(NegateRules(c), pkt, {})
                       /\ Decides(c, pkt, {}) => Decides(NegateRules(c), pkt, {True})
<1> DEFINE flip(as) == IF as[1] = True THEN <<Drop>> ELSE <<True>>
           d == NegateRules(c)
<1>1. Len(c) \in Nat /\ DOMAIN c = 1 .. Len(c) /\ \A i \in DOMAIN c : c[i] \in Rules(M, Verdicts)
  BY LenProperties, ElementOfSeq
<1>2. d = [i \in DOMAIN c |-> Rule(c[i].match, flip(c[i].actions))]
  BY DEF NegateRules
<1>3. <<Drop>> \in Verdicts /\ <<True>> \in Verdicts /\ Live(<<Drop>>) = {} /\ Live(<<True>>) = {True}
  <2>1. /\ <<Drop>> \in Seq({True, Drop}) /\ Range(<<Drop>>) = {Drop}
        /\ <<True>> \in Seq({True, Drop}) /\ Range(<<True>>) = {True}
    BY SingleDecides
  <2>2. True # Drop
    BY DEF True, Drop
  <2> QED
    BY <2>1, <2>2 DEF Verdicts, Live
<1>4. \A as : flip(as) \in Verdicts
  BY <1>3
<1> HIDE DEF d
<1>5. ASSUME NEW i \in DOMAIN c
      PROVE  /\ d[i] \in Rules(M, Verdicts)
             /\ d[i].match = c[i].match /\ d[i].actions = flip(c[i].actions)
             /\ c[i].actions \in Verdicts
  <2> HIDE DEF flip
  <2>1. c[i].match \in M /\ c[i].actions \in Verdicts
    BY <1>1 DEF Rules
  <2> QED
    BY <2>1, <1>2, <1>4 DEF Rules, Rule
<1> HIDE DEF flip
<1>6. d \in Seq(Rules(M, Verdicts)) /\ DOMAIN d = DOMAIN c
  <2>1. d \in [1 .. Len(c) -> Rules(M, Verdicts)]
    <3>1. d = [i \in 1 .. Len(c) |-> d[i]]
      BY <1>1, <1>2
    <3> QED
      BY <3>1, <1>1, <1>5
  <2> QED
    BY <2>1, <1>1, AsSequence
<1>7. ASSUME NEW pkt, NEW as, Decided(c, pkt, as)
      PROVE  as \in Verdicts /\ Decided(d, pkt, flip(as))
  <2>1. PICK i \in DOMAIN c : /\ Sat(c[i].match, pkt) /\ c[i].actions = as
                              /\ \A j \in 1 .. i - 1 : ~Sat(c[j].match, pkt)
    BY <1>7 DEF Decided
  <2>2. \A j \in 1 .. i - 1 : j \in DOMAIN c
    BY <1>1
  <2>3. /\ Sat(d[i].match, pkt) /\ d[i].actions = flip(as)
        /\ \A j \in 1 .. i - 1 : ~Sat(d[j].match, pkt)
    BY <2>1, <2>2, <1>5
  <2> QED
    BY <2>1, <2>3, <1>5, <1>6 DEF Decided
<1>8. \A as \in Verdicts : /\ Live(as) = {True} => Live(flip(as)) = {}
                           /\ Live(as) = {} => Live(flip(as)) = {True}
  BY <1>3, VerdictKinds DEF flip
<1>9. ASSUME NEW pkt, Decides(c, pkt, {True}) PROVE Decides(d, pkt, {})
  BY <1>7, <1>8, <1>9 DEF Decides
<1>10. ASSUME NEW pkt, Decides(c, pkt, {}) PROVE Decides(d, pkt, {True})
  BY <1>7, <1>8, <1>10 DEF Decides
<1> QED
  BY <1>6, <1>9, <1>10 DEF d
-----------------------------------------------------------------------------
(* Induction and recursion over policies *)

\* The leaves L, and combinations of the policies K.
Grown(L, K) == L \union {p \in [k : Combinators, ps : Seq(K)] : WellBuilt(p)}

\* The levels h grow from the leaves L, up to N.
Grows(h, L, N) == h[0] = L /\ \A n \in 1 .. N : h[n] = Grown(L, h[n - 1])

LEMMA LevelsGrow ==
    ASSUME NEW L, NEW N \in Nat
    PROVE  Grows(Levels(L, N), L, N)
<1> DEFINE R(h) == h = [n \in 0 .. N |->
                          IF n = 0 THEN L
                          ELSE L \union {p \in [k : Combinators, ps : Seq(h[n - 1])] : WellBuilt(p)}]
           Solves(f, m) == f[0] = L /\ \A n \in 1 .. m : f[n] = Grown(L, f[n - 1])
           T == {m \in Nat : \E f : Solves(f, m)}
<1>1. 0 \in T
  <2>1. Solves([n \in 0 .. 0 |-> L], 0)
    OBVIOUS
  <2> QED
    BY <2>1
<1>2. ASSUME NEW m \in Nat, m \in T
      PROVE  m + 1 \in T
  <2>1. PICK f : Solves(f, m)
    BY <1>2
  <2> DEFINE g == [n \in 0 .. m + 1 |-> IF n <= m THEN f[n] ELSE Grown(L, f[m])]
  <2>2. g[0] = L
    BY <2>1
  <2>3. ASSUME NEW n \in 1 .. m + 1
        PROVE  g[n] = Grown(L, g[n - 1])
    <3>1. n \in 0 .. m + 1 /\ n - 1 \in 0 .. m + 1 /\ n - 1 <= m
      OBVIOUS
    <3>2. g[n - 1] = f[n - 1]
      BY <3>1
    <3>3. CASE n <= m
      <4>1. g[n] = f[n] /\ n \in 1 .. m
        BY <3>1, <3>3
      <4> QED
        BY <2>1, <3>2, <4>1
    <3>4. CASE ~(n <= m)
      <4>1. g[n] = Grown(L, f[m]) /\ n - 1 = m
        BY <3>1, <3>4
      <4> QED
        BY <3>2, <4>1
    <3> QED
      BY <3>3, <3>4
  <2> HIDE DEF g
  <2>4. Solves(g, m + 1)
    BY <2>2, <2>3
  <2> QED
    BY <2>4
<1>3. N \in T
  <2> HIDE DEF T
  <2>1. Nat \subseteq T
    BY <1>1, <1>2, Induction
  <2> QED
    BY <2>1
<1>4. PICK f : Solves(f, N)
  BY <1>3
<1> DEFINE g == [n \in 0 .. N |-> f[n]]
<1>5. \A n \in 0 .. N : g[n] = f[n]
  OBVIOUS
<1>6. \A n \in 1 .. N : n \in 0 .. N /\ n - 1 \in 0 .. N
  OBVIOUS
<1>7. ASSUME NEW n \in 0 .. N
      PROVE  g[n] = IF n = 0 THEN L ELSE Grown(L, g[n - 1])
  <2>1. CASE n = 0
    BY <1>4, <1>5, <2>1
  <2>2. CASE n # 0
    <3>1. n \in 1 .. N
      BY <2>2
    <3>2. g[n - 1] = f[n - 1] /\ g[n] = f[n]
      BY <3>1, <1>5, <1>6
    <3> QED
      BY <1>4, <2>2, <3>1, <3>2
  <2> QED
    BY <2>1, <2>2
<1> DEFINE G(h) == [n \in 0 .. N |-> IF n = 0 THEN L ELSE Grown(L, h[n - 1])]
<1>8. g = G(g)
  <2>1. g = [n \in 0 .. N |-> g[n]]
    OBVIOUS
  <2> HIDE DEF g
  <2> QED
    BY <1>7, <2>1
<1> HIDE DEF g
<1>9. R(g)
  BY <1>8 DEF Grown
<1>10. Levels(L, N) = CHOOSE h : R(h)
  BY DEF Levels
<1>11. R(Levels(L, N))
  BY <1>9, <1>10
<1>12. Levels(L, N) = G(Levels(L, N))
  BY <1>11 DEF Grown
<1> DEFINE h == Levels(L, N)
<1> HIDE DEF h
<1>13. \A n \in 0 .. N : h[n] = IF n = 0 THEN L ELSE Grown(L, h[n - 1])
  <2>1. h = [n \in 0 .. N |-> IF n = 0 THEN L ELSE Grown(L, h[n - 1])]
    BY <1>12 DEF h
  <2> QED
    BY <2>1
<1>14. h[0] = L /\ \A n \in 1 .. N : h[n] = Grown(L, h[n - 1])
  BY <1>6, <1>13
<1> QED
  BY <1>14 DEF h, Grows

LEMMA ClimbFromZero ==
    ASSUME NEW N \in Nat, NEW T, 0 \in T, \A n \in 1 .. N : n - 1 \in T => n \in T
    PROVE  \A n \in 0 .. N : n \in T
<1> DEFINE U == {n \in Nat : n \in 0 .. N => n \in T}
<1>1. 0 \in U
  OBVIOUS
<1>2. ASSUME NEW n \in Nat, n \in U
      PROVE  n + 1 \in U
  <2> SUFFICES ASSUME n + 1 \in 0 .. N PROVE n + 1 \in T
    OBVIOUS
  <2>1. n + 1 \in 1 .. N /\ (n + 1) - 1 = n /\ n \in 0 .. N
    OBVIOUS
  <2> QED
    BY <1>2, <2>1
<1> HIDE DEF U
<1>3. Nat \subseteq U
  BY <1>1, <1>2, Induction
<1> QED
  BY <1>3 DEF U

LEMMA LevelsRise ==
    ASSUME NEW L, NEW N \in Nat, NEW h, Grows(h, L, N)
    PROVE  \A n \in 1 .. N : h[n - 1] \subseteq h[n]
<1> DEFINE T == {m \in Nat : m + 1 <= N => h[m] \subseteq h[m + 1]}
<1>1. h[0] = L /\ \A n \in 1 .. N : h[n] = Grown(L, h[n - 1])
  BY DEF Grows
<1>2. \A m \in Nat : m + 1 <= N => h[m + 1] = Grown(L, h[m])
  <2> SUFFICES ASSUME NEW m \in Nat, m + 1 <= N PROVE h[m + 1] = Grown(L, h[m])
    OBVIOUS
  <2>1. m + 1 \in 1 .. N /\ (m + 1) - 1 = m
    OBVIOUS
  <2> QED
    BY <1>1, <2>1
<1>3. 0 \in T
  BY <1>1, <1>2 DEF Grown
<1>4. ASSUME NEW m \in Nat, m \in T
      PROVE  m + 1 \in T
  <2> SUFFICES ASSUME (m + 1) + 1 <= N PROVE h[m + 1] \subseteq h[(m + 1) + 1]
    OBVIOUS
  <2>1. h[m] \subseteq h[m + 1]
    BY <1>4
  <2>2. \A J, K : J \subseteq K => Grown(L, J) \subseteq Grown(L, K)
    BY DEF Grown
  <2>3. h[m + 1] = Grown(L, h[m]) /\ h[(m + 1) + 1] = Grown(L, h[m + 1])
    BY <1>2
  <2> QED
    BY <2>1, <2>2, <2>3
<1>5. Nat \subseteq T
  <2> HIDE DEF T
  <2> QED
    BY <1>3, <1>4, Induction
<1>6. ASSUME NEW n \in 1 .. N
      PROVE  h[n - 1] \subseteq h[n]
  <2>1. n - 1 \in Nat /\ (n - 1) + 1 = n /\ n <= N
    OBVIOUS
  <2> QED
    BY <1>5, <2>1
<1> QED
  BY <1>6

LEMMA LevelsBelow ==
    ASSUME NEW L, NEW N \in Nat, NEW h, Grows(h, L, N)
    PROVE  \A n \in 0 .. N : h[n] \subseteq h[N]
<1> DEFINE T == {d \in Nat : d <= N => h[N - d] \subseteq h[N]}
<1>1. \A n \in 1 .. N : h[n - 1] \subseteq h[n]
  BY LevelsRise
<1>2. 0 \in T
  <2>1. N - 0 = N
    OBVIOUS
  <2> QED
    BY <2>1
<1>3. ASSUME NEW d \in Nat, d \in T
      PROVE  d + 1 \in T
  <2> SUFFICES ASSUME d + 1 <= N PROVE h[N - (d + 1)] \subseteq h[N]
    OBVIOUS
  <2>1. d <= N /\ N - d \in 1 .. N /\ N - (d + 1) = (N - d) - 1
    OBVIOUS
  <2>2. h[N - d] \subseteq h[N]
    BY <1>3, <2>1
  <2>3. h[(N - d) - 1] \subseteq h[N - d]
    BY <1>1, <2>1
  <2> QED
    BY <2>1, <2>2, <2>3
<1>4. Nat \subseteq T
  <2> HIDE DEF T
  <2> QED
    BY <1>2, <1>3, Induction
<1>5. ASSUME NEW n \in 0 .. N
      PROVE  h[n] \subseteq h[N]
  <2>1. N - n \in Nat /\ N - n <= N /\ N - (N - n) = n
    OBVIOUS
  <2> QED
    BY <1>4, <2>1
<1> QED
  BY <1>5

\* A combination of policies of the level below n.
Combines(h, n, p) ==
    /\ p \in [k : Combinators, ps : Seq(h[n - 1])]
    /\ WellBuilt(p) /\ Subs(p) = p.ps /\ p.ps # <<>> /\ p.k \in Combinators
    /\ \A i \in DOMAIN p.ps : p.ps[i] \in h[n - 1]

LEMMA LevelKinds ==
    ASSUME NEW L, NEW N \in Nat, NEW h, Grows(h, L, N)
    PROVE  \A n \in 0 .. N : \A p \in h[n] : p \in L \/ (n \in 1 .. N /\ Combines(h, n, p))
<1>1. h[0] = L /\ \A m \in 1 .. N : h[m] = Grown(L, h[m - 1])
  BY DEF Grows
<1> SUFFICES ASSUME NEW n \in 0 .. N, NEW p \in h[n], p \notin L
             PROVE  n \in 1 .. N /\ Combines(h, n, p)
  OBVIOUS
<1>2. n \in 1 .. N
  BY <1>1
<1>3. p \in [k : Combinators, ps : Seq(h[n - 1])] /\ WellBuilt(p)
  BY <1>1, <1>2 DEF Grown
<1>4. p.k \in Combinators /\ p.ps # <<>> /\ p.ps \in Seq(h[n - 1])
  BY <1>3 DEF WellBuilt
<1>5. \A i \in DOMAIN p.ps : p.ps[i] \in h[n - 1]
  BY <1>4, LenProperties, ElementOfSeq
<1> QED
  BY <1>2, <1>3, <1>4, <1>5 DEF Subs, Combines

LEMMA LevelsInduction ==
    ASSUME NEW L, NEW N \in Nat, NEW h, Grows(h, L, N), NEW T, L \subseteq T,
           \A p \in h[N] : p \notin L /\ (\A i \in DOMAIN p.ps : p.ps[i] \in T) => p \in T
    PROVE  h[N] \subseteq T
<1> DEFINE U == {n \in 0 .. N : h[n] \subseteq T}
<1>1. 0 \in U
  BY DEF Grows
<1>2. ASSUME NEW n \in 1 .. N, n - 1 \in U
      PROVE  n \in U
  <2> SUFFICES ASSUME NEW p \in h[n], p \notin L PROVE p \in T
    OBVIOUS
  <2>1. n \in 0 .. N /\ h[n] \subseteq h[N]
    BY LevelsBelow
  <2>2. Combines(h, n, p)
    BY <2>1, LevelKinds
  <2>3. \A i \in DOMAIN p.ps : p.ps[i] \in h[n - 1]
    BY <2>2 DEF Combines
  <2> QED
    BY <1>2, <2>1, <2>3
<1> HIDE DEF U
<1>3. \A n \in 0 .. N : n \in U
  BY <1>1, <1>2, ClimbFromZero
<1> QED
  BY <1>3 DEF U

\* What f makes of the policies in p.
Parts(f, p) == [i \in DOMAIN Subs(p) |-> f[Subs(p)[i]]]

\* f is defined on the policies P by what it makes of the policies in them, which step
\* says; and the values V are closed under that.
ObeysOn(P, f, step) == \A p \in P : f[p] = step[p][Parts(f, p)]
Closed(P, V, step)  == \A p \in P : \A v \in [DOMAIN Subs(p) -> V] : step[p][v] \in V

(* A function defined by what it makes of the policies in a policy: there is one,
   and it keeps a relation S[n] between the policies of level n and their values. *)
Keeps(S, h, N, V, step) ==
    /\ \A n \in 0 .. N : S[n] \subseteq h[N] \X V
    /\ \A n \in 0 .. N : \A p \in h[n] : \A v \in [DOMAIN Subs(p) -> V] :
          (\A i \in DOMAIN Subs(p) : <<Subs(p)[i], v[i]>> \in S[n - 1]) => <<p, step[p][v]>> \in S[n]
Solved(f, S, h, N, V, step) ==
    /\ f \in [h[N] -> V]
    /\ ObeysOn(h[N], f, step)
    /\ \A n \in 0 .. N : \A p \in h[n] : <<p, f[p]>> \in S[n]

LEMMA LevelsRecursion ==
    ASSUME NEW L, NEW N \in Nat, NEW h, Grows(h, L, N), \A p \in L : Subs(p) = <<>>,
           NEW V, NEW step, NEW S, Keeps(S, h, N, V, step)
    PROVE  \E f : Solved(f, S, h, N, V, step)
<1> DEFINE Solves(f, m) == /\ f = [p \in h[m] |-> f[p]]
                           /\ \A p \in h[m] : f[p] = step[p][Parts(f, p)]
                           /\ \A n \in 0 .. m : \A p \in h[n] : <<p, f[p]>> \in S[n]
           U == {m \in 0 .. N : \E f : Solves(f, m)}
<1>1. h[0] = L
  BY DEF Grows
<1>0. /\ \A n \in 0 .. N : S[n] \subseteq h[N] \X V
      /\ \A n \in 0 .. N : \A p \in h[n] : \A v \in [DOMAIN Subs(p) -> V] :
            (\A i \in DOMAIN Subs(p) : <<Subs(p)[i], v[i]>> \in S[n - 1]) => <<p, step[p][v]>> \in S[n]
  BY DEF Keeps
<1>2. \A n \in 0 .. N : h[n] \subseteq h[N]
  BY LevelsBelow
<1>3. \A n \in 1 .. N : h[n - 1] \subseteq h[n]
  BY LevelsRise
<1>4. ASSUME NEW n \in 1 .. N, NEW p \in h[n], NEW i \in DOMAIN Subs(p)
      PROVE  Subs(p)[i] \in h[n - 1]
  <2>1. n \in 0 .. N
    OBVIOUS
  <2>2. p \notin L
    OBVIOUS
  <2>3. Combines(h, n, p)
    BY <2>1, <2>2, LevelKinds
  <2> QED
    BY <2>3 DEF Combines
<1>5. 0 \in U
  <2> DEFINE f == [p \in h[0] |-> step[p][Parts(<<>>, p)]]
  <2>1. ASSUME NEW p \in h[0]
        PROVE  /\ \A g : Parts(g, p) = Parts(<<>>, p)
               /\ Parts(<<>>, p) \in [DOMAIN Subs(p) -> V]
               /\ DOMAIN Subs(p) = {}
    <3>1. DOMAIN Subs(p) = {}
      BY <1>1
    <3> QED
      BY <3>1 DEF Parts
  <2>2. \A p \in h[0] : f[p] = step[p][Parts(<<>>, p)]
    OBVIOUS
  <2>3. f = [p \in h[0] |-> f[p]]
    OBVIOUS
  <2> HIDE DEF f
  <2>4. \A p \in h[0] : <<p, f[p]>> \in S[0]
    BY <1>0, <2>1, <2>2
  <2>5. \A p \in h[0] : f[p] = step[p][Parts(f, p)]
    BY <2>1, <2>2
  <2>6. \A n \in 0 .. 0 : n = 0
    OBVIOUS
  <2>7. Solves(f, 0)
    BY <2>3, <2>4, <2>5, <2>6
  <2> QED
    BY <2>7
<1>6. ASSUME NEW m \in 1 .. N, m - 1 \in U
      PROVE  m \in U
  <2>1. PICK f : Solves(f, m - 1)
    BY <1>6
  <2>2. m \in 0 .. N /\ m - 1 \in 0 .. N /\ m - 1 \in 0 .. m - 1
    OBVIOUS
  <2>3. h[m] \subseteq h[N] /\ h[m - 1] \subseteq h[m]
    BY <1>2, <1>3, <2>2
  <2>4. \A p \in h[m - 1] : <<p, f[p]>> \in S[m - 1] /\ f[p] \in V
    BY <1>0, <2>1, <2>2
  <2> DEFINE g == [p \in h[m] |-> step[p][Parts(f, p)]]
  <2>5. g = [p \in h[m] |-> g[p]] /\ \A p \in h[m] : g[p] = step[p][Parts(f, p)]
    OBVIOUS
  <2>6. ASSUME NEW p \in h[m]
        PROVE  /\ Parts(f, p) \in [DOMAIN Subs(p) -> V]
               /\ \A i \in DOMAIN Subs(p) : Parts(f, p)[i] = f[Subs(p)[i]] /\ Subs(p)[i] \in h[m - 1]
    BY <1>4, <2>4 DEF Parts
  <2> HIDE DEF g
  <2>7. \A p \in h[m] : <<p, g[p]>> \in S[m]
    <3> SUFFICES ASSUME NEW p \in h[m] PROVE <<p, g[p]>> \in S[m]
      OBVIOUS
    <3>1. \A i \in DOMAIN Subs(p) : <<Subs(p)[i], Parts(f, p)[i]>> \in S[m - 1]
      BY <2>4, <2>6
    <3>2. <<p, step[p][Parts(f, p)]>> \in S[m]
      BY <1>0, <2>2, <2>6, <3>1
    <3> QED
      BY <2>5, <3>2
  <2>8. \A p \in h[m - 1] : g[p] = f[p]
    BY <2>1, <2>3, <2>5
  <2>9. \A p \in h[m] : Parts(g, p) = Parts(f, p)
    BY <2>6, <2>8 DEF Parts
  <2>10. ASSUME NEW n \in 0 .. m, NEW p \in h[n]
         PROVE  <<p, g[p]>> \in S[n]
    <3>1. CASE n = m
      BY <2>7, <2>10, <3>1
    <3>2. CASE n # m
      <4>1. n \in 0 .. m - 1 /\ m - 1 \in Nat
        BY <3>2
      <4>2. h[n] \subseteq h[m - 1]
        <5> DEFINE M == m - 1
        <5>1. M \in Nat /\ n \in 0 .. M /\ Grows(h, L, M)
          BY <4>1 DEF Grows
        <5> HIDE DEF M
        <5>2. h[n] \subseteq h[M]
          BY <5>1, LevelsBelow
        <5> QED
          BY <5>2 DEF M
      <4> QED
        BY <2>1, <2>8, <4>1, <4>2
    <3> QED
      BY <3>1, <3>2
  <2>11. Solves(g, m)
    BY <2>5, <2>9, <2>10
  <2> QED
    BY <2>2, <2>11
<1>7. N \in U
  <2> HIDE DEF U
  <2>1. \A n \in 0 .. N : n \in U
    BY <1>5, <1>6, ClimbFromZero
  <2> QED
    BY <2>1
<1>8. PICK f : Solves(f, N)
  BY <1>7
<1>9. f \in [h[N] -> V]
  <2>1. N \in 0 .. N
    OBVIOUS
  <2>2. \A p \in h[N] : f[p] \in V
    BY <1>0, <1>8, <2>1
  <2>3. f = [p \in h[N] |-> f[p]]
    BY <1>8
  <2> QED
    BY <2>2, <2>3
<1> QED
  BY <1>8, <1>9 DEF Solved, ObeysOn
\* There is one if it keeps to some values, and only one.
LEMMA PlainRecursion ==
    ASSUME NEW L, NEW N \in Nat, NEW h, Grows(h, L, N), \A p \in L : Subs(p) = <<>>,
           NEW V, NEW step, Closed(h[N], V, step)
    PROVE  \E f \in [h[N] -> V] : ObeysOn(h[N], f, step)
<1> DEFINE R == [n \in 0 .. N |-> h[n] \X V]
<1>1. \A n \in 0 .. N : R[n] = h[n] \X V
  OBVIOUS
<1> HIDE DEF R
<1>2. \A n \in 0 .. N : h[n] \subseteq h[N]
  BY LevelsBelow
<1>3. Keeps(R, h, N, V, step)
  BY <1>1, <1>2 DEF Keeps, Closed
<1>4. PICK f : Solved(f, R, h, N, V, step)
  BY <1>3, LevelsRecursion
<1> QED
  BY <1>4 DEF Solved

LEMMA LevelsUnique ==
    ASSUME NEW L, NEW N \in Nat, NEW h, Grows(h, L, N), \A p \in L : Subs(p) = <<>>,
           NEW step, NEW f, ObeysOn(h[N], f, step), NEW g, ObeysOn(h[N], g, step)
    PROVE  \A p \in h[N] : f[p] = g[p]
<1> DEFINE T == {p \in h[N] : f[p] = g[p]}
<1>1. ASSUME NEW p \in h[N], Parts(f, p) = Parts(g, p)
      PROVE  p \in T
  BY <1>1 DEF ObeysOn
<1>2. L \subseteq T
  <2> SUFFICES ASSUME NEW p \in L PROVE p \in T
    OBVIOUS
  <2>1. h[0] \subseteq h[N] /\ h[0] = L
    <3>1. 0 \in 0 .. N
      OBVIOUS
    <3>2. h[0] \subseteq h[N]
      BY <3>1, LevelsBelow
    <3> QED
      BY <3>2 DEF Grows
  <2>2. DOMAIN Subs(p) = {}
    OBVIOUS
  <2>3. Parts(f, p) = Parts(g, p)
    BY <2>2 DEF Parts
  <2> QED
    BY <1>1, <2>1, <2>3
<1>3. ASSUME NEW p \in h[N], p \notin L, \A i \in DOMAIN p.ps : p.ps[i] \in T
      PROVE  p \in T
  <2>1. Subs(p) = p.ps
    <3>1. N \in 0 .. N
      OBVIOUS
    <3>2. Combines(h, N, p)
      BY <1>3, <3>1, LevelKinds
    <3> QED
      BY <3>2 DEF Combines
  <2>2. \A i \in DOMAIN Subs(p) : f[Subs(p)[i]] = g[Subs(p)[i]]
    BY <1>3, <2>1
  <2>3. Parts(f, p) = Parts(g, p)
    BY <2>2 DEF Parts
  <2> QED
    BY <1>1, <2>3
<1> HIDE DEF T
<1>4. h[N] \subseteq T
  BY <1>2, <1>3, LevelsInduction
<1> QED
  BY <1>4 DEF T
-----------------------------------------------------------------------------
(* The policies of a program *)

LEMMA LeafKinds ==
    ASSUME NEW p \in Leaves
    PROVE  p.k \notin Combinators /\ Subs(p) = <<>>
  BY DEF Leaves, Constants, Others, True, Drop, Match, Modify, Combinators, Parallels, Sequentials, Subs

LEMMA PolicyLevels ==
    /\ MaxDepth \in Nat
    /\ Grows(Levels(Leaves, MaxDepth), Leaves, MaxDepth)
    /\ Policy = Levels(Leaves, MaxDepth)[MaxDepth]
  BY LevelsGrow, PoliciesAssumption DEF Policy

\* A policy is a leaf, or a combination of policies.
LEMMA PolicyKinds ==
    /\ Leaves \subseteq Policy
    /\ \A p \in Policy : \/ p \in Leaves
                         \/ /\ p \in [k : Combinators, ps : Seq(Policy)]
                            /\ WellBuilt(p) /\ Subs(p) = p.ps /\ p.ps # <<>>
<1> DEFINE N == MaxDepth
           h == Levels(Leaves, MaxDepth)
<1>1. N \in Nat /\ Grows(h, Leaves, N) /\ Policy = h[N]
  BY PolicyLevels
<1> HIDE DEF N, h
<1>2. \A n \in 0 .. N : h[n] \subseteq Policy
  BY <1>1, LevelsBelow
<1>3. Leaves \subseteq Policy
  <2>1. h[0] = Leaves /\ 0 \in 0 .. N
    BY <1>1 DEF Grows
  <2> QED
    BY <1>2, <2>1
<1>4. ASSUME NEW p \in Policy, p \notin Leaves
      PROVE  p \in [k : Combinators, ps : Seq(Policy)] /\ WellBuilt(p) /\ Subs(p) = p.ps /\ p.ps # <<>>
  <2>1. N \in 0 .. N /\ p \in h[N]
    BY <1>1
  <2>2. N \in 1 .. N /\ Combines(h, N, p)
    BY <1>1, <1>4, <2>1, LevelKinds
  <2>3. h[N - 1] \subseteq Policy
    <3>1. N - 1 \in 0 .. N
      BY <1>1, <2>2
    <3> QED
      BY <1>2, <3>1
  <2>4. Seq(h[N - 1]) \subseteq Seq(Policy)
    BY <2>3
  <2> QED
    BY <2>2, <2>4 DEF Combines
<1> QED
  BY <1>3, <1>4

LEMMA PolicyInduction ==
    ASSUME NEW T, Leaves \subseteq T,
           \A p \in Policy : p \notin Leaves /\ (\A i \in DOMAIN p.ps : p.ps[i] \in T) => p \in T
    PROVE  Policy \subseteq T
  BY PolicyLevels, LevelsInduction

\* A recursion over policies that f follows.
Obeys(f, step) == \A p \in Policy : f[p] = step[p][Parts(f, p)]

LEMMA PolicyRecursion ==
    ASSUME NEW S, NEW step,
           \A p \in Policy : \A v \in [DOMAIN Subs(p) -> S] : step[p][v] \in S
    PROVE  \E f \in [Policy -> S] : Obeys(f, step)
<1> DEFINE N == MaxDepth
           h == Levels(Leaves, MaxDepth)
<1>1. N \in Nat /\ Grows(h, Leaves, N) /\ Policy = h[N]
  BY PolicyLevels
<1>2. \A p \in Leaves : Subs(p) = <<>>
  BY LeafKinds
<1> HIDE DEF N, h
<1>3. Closed(h[N], S, step)
  BY <1>1 DEF Closed
<1>4. N \in Nat /\ Grows(h, Leaves, N)
  BY <1>1
<1>5. \E f \in [h[N] -> S] : ObeysOn(h[N], f, step)
  BY <1>2, <1>3, <1>4, PlainRecursion
<1> QED
  BY <1>1, <1>5 DEF Obeys, ObeysOn
-----------------------------------------------------------------------------
(* Policies in sequence *)

\* What a policy evals to.
Evaluations == [Frames -> SUBSET Frames]

\* What e makes of the packets X.
Onward(e, X) == UNION {e[x] : x \in X}

LEMMA ThroughExact ==
    ASSUME NEW es \in Seq(Evaluations), NEW pkt \in Frames
    PROVE  /\ Through(es, pkt) \in [0 .. Len(es) -> SUBSET Frames]
           /\ Through(es, pkt)[0] = {pkt}
           /\ \A n \in 1 .. Len(es) : Through(es, pkt)[n] = Onward(es[n], Through(es, pkt)[n - 1])
<1> DEFINE N == Len(es)
           S == SUBSET Frames
           R(h) == h = [n \in 0 .. N |-> IF n = 0 THEN {pkt} ELSE UNION {es[n][x] : x \in h[n - 1]}]
           G(h) == [n \in 0 .. N |-> IF n = 0 THEN {pkt} ELSE Onward(es[n], h[n - 1])]
           f == CHOOSE h : R(h)
           step == [n \in 2 .. N + 1 |-> [X \in S |-> Onward(es[n - 1], X)]]
<1>1. N \in Nat /\ \A n \in 1 .. N : es[n] \in Evaluations
  BY LenProperties, ElementOfSeq
<1>2. Through(es, pkt) = f
  BY DEF Through
<1>3. \A e \in Evaluations, X \in S : Onward(e, X) \in S
  BY DEF Onward, Evaluations
<1>4. \A n \in 2 .. N + 1, X \in S : step[n][X] = Onward(es[n - 1], X)
  OBVIOUS
<1> HIDE DEF N, f
<1>5. step \in [2 .. N + 1 -> [S -> S]]
  <2>1. \A n \in 2 .. N + 1 : n - 1 \in 1 .. N
    BY <1>1
  <2>2. \A n \in 2 .. N + 1 : \A X \in S : Onward(es[n - 1], X) \in S
    BY <1>1, <1>3, <2>1
  <2> HIDE DEF S
  <2> QED
    BY <2>2
<1> HIDE DEF step
<1>6. PICK g \in [1 .. N + 1 -> S] : Follows(g, N + 1, {pkt}, step)
  <2>1. N + 1 \in Nat /\ N + 1 # 0 /\ {pkt} \in S
    BY <1>1
  <2> HIDE DEF S
  <2> QED
    BY <2>1, <1>5, RecursionExists
<1>7. g[1] = {pkt} /\ \A n \in 2 .. N + 1 : g[n] = Onward(es[n - 1], g[n - 1])
  <2>1. \A n \in 2 .. N + 1 : n - 1 \in 1 .. N + 1
    BY <1>1
  <2>2. \A n \in 2 .. N + 1 : g[n - 1] \in S
    BY <2>1, <1>6
  <2>3. g[1] = {pkt} /\ \A n \in 2 .. N + 1 : g[n] = step[n][g[n - 1]]
    BY <1>6 DEF Follows
  <2> QED
    BY <2>2, <2>3, <1>4
<1> DEFINE h == [n \in 0 .. N |-> g[n + 1]]
<1>8. \A n \in 0 .. N : h[n] = g[n + 1]
  OBVIOUS
<1>9. h = [n \in 0 .. N |-> h[n]]
  OBVIOUS
<1> HIDE DEF h
<1>10. \A n \in 0 .. N : h[n] = IF n = 0 THEN {pkt} ELSE Onward(es[n], h[n - 1])
  <2> SUFFICES ASSUME NEW n \in 0 .. N
               PROVE  h[n] = IF n = 0 THEN {pkt} ELSE Onward(es[n], h[n - 1])
    OBVIOUS
  <2>1. CASE n = 0
    BY <1>7, <1>8, <2>1
  <2>2. CASE n # 0
    <3>1. n + 1 \in 2 .. N + 1 /\ (n + 1) - 1 = n /\ n - 1 \in 0 .. N /\ (n - 1) + 1 = n
      BY <1>1, <2>2
    <3>2. h[n - 1] = g[n]
      BY <1>8, <3>1
    <3>3. h[n] = g[n + 1] /\ g[n + 1] = Onward(es[(n + 1) - 1], g[(n + 1) - 1])
      BY <1>7, <1>8, <3>1
    <3> QED
      BY <2>2, <3>1, <3>2, <3>3
  <2> QED
    BY <2>1, <2>2
<1>11. h = G(h)
  BY <1>9, <1>10
<1>12. R(h)
  BY <1>11 DEF Onward
<1>13. R(f)
  BY <1>12 DEF f
<1>14. f = G(f)
  BY <1>13 DEF Onward
<1>15. f = [n \in 0 .. N |-> f[n]] /\ \A n \in 0 .. N : f[n] = IF n = 0 THEN {pkt} ELSE Onward(es[n], f[n - 1])
  BY <1>14
<1>16. f[0] = {pkt} /\ \A n \in 1 .. N : f[n] = Onward(es[n], f[n - 1])
  <2>1. 0 \in 0 .. N /\ \A n \in 1 .. N : n \in 0 .. N /\ n # 0
    BY <1>1
  <2> QED
    BY <2>1, <1>15
<1>17. \A n \in 0 .. N : f[n] \in S
  <2> DEFINE T == {n \in 0 .. N : f[n] \in S}
  <2>1. 0 \in T
    BY <1>1, <1>16
  <2>2. ASSUME NEW n \in 1 .. N, n - 1 \in T PROVE n \in T
    <3>1. n \in 0 .. N /\ f[n - 1] \in S
      BY <2>2, <1>1
    <3>2. f[n] = Onward(es[n], f[n - 1])
      BY <1>16
    <3>3. es[n] \in Evaluations
      BY <1>1
    <3>4. f[n] \in S
      <4> HIDE DEF S
      <4>1. Onward(es[n], f[n - 1]) \in S
        BY <1>3, <3>1, <3>3
      <4> QED
        BY <3>2, <4>1
    <3> QED
      BY <3>1, <3>4
  <2> HIDE DEF T
  <2>3. \A n \in 0 .. N : n \in T
    BY <1>1, <2>1, <2>2, ClimbFromZero
  <2> QED
    BY <2>3 DEF T
<1>18. f \in [0 .. N -> S]
  <2> HIDE DEF S
  <2> QED
    BY <1>15, <1>17
<1> QED
  BY <1>2, <1>16, <1>18 DEF N

\* A packet goes through es1 and es2 together as it goes through one, then the other.
Joined(es1, es2, pkt) ==
    /\ \A i \in 0 .. Len(es1) : Through(es1 \o es2, pkt)[i] = Through(es1, pkt)[i]
    /\ \A j \in 0 .. Len(es2) : Through(es1 \o es2, pkt)[Len(es1) + j] =
          UNION {Through(es2, x)[j] : x \in Through(es1, pkt)[Len(es1)]}

LEMMA ThroughConcat ==
    ASSUME NEW es1 \in Seq(Evaluations), NEW es2 \in Seq(Evaluations), NEW pkt \in Frames
    PROVE  Joined(es1, es2, pkt)
<1> DEFINE es == es1 \o es2
           m == Len(es1)
           k == Len(es2)
           A(i) == Through(es, pkt)[i]
           B(i) == Through(es1, pkt)[i]
           C(x, j) == Through(es2, x)[j]
<1>1. m \in Nat /\ k \in Nat /\ es \in Seq(Evaluations) /\ Len(es) = m + k
  BY ConcatProperties, LenProperties
<1>2. \A i \in 1 .. m : es[i] = es1[i]
  BY <1>1, ConcatProperties
<1>3. \A j \in 1 .. k : es[m + j] = es2[j]
  <2> SUFFICES ASSUME NEW j \in 1 .. k PROVE es[m + j] = es2[j]
    OBVIOUS
  <2>1. m + j \in 1 .. m + k /\ ~(m + j <= m) /\ (m + j) - m = j
    BY <1>1
  <2> QED
    BY <2>1, ConcatProperties
<1> HIDE DEF es, m, k
<1>4. A(0) = {pkt} /\ \A i \in 1 .. m + k : A(i) = Onward(es[i], A(i - 1))
  <2>1. A(0) = {pkt} /\ \A i \in 1 .. Len(es) : A(i) = Onward(es[i], A(i - 1))
    BY <1>1, ThroughExact
  <2> HIDE DEF A
  <2> QED
    BY <1>1, <2>1
<1>5. /\ B(0) = {pkt} /\ \A i \in 1 .. m : B(i) = Onward(es1[i], B(i - 1))
      /\ \A i \in 0 .. m : B(i) \subseteq Frames
  <2>1. B(0) = {pkt} /\ \A i \in 1 .. m : B(i) = Onward(es1[i], B(i - 1))
    BY ThroughExact DEF m
  <2>2. Through(es1, pkt) \in [0 .. m -> SUBSET Frames]
    BY ThroughExact DEF m
  <2>3. \A i \in 0 .. m : B(i) \subseteq Frames
    BY <2>2
  <2> QED
    BY <2>1, <2>3
<1>6. \A x \in Frames : /\ C(x, 0) = {x}
                        /\ \A j \in 1 .. k : C(x, j) = Onward(es2[j], C(x, j - 1))
  BY ThroughExact DEF k
<1> HIDE DEF A, B, C
<1>7. \A i \in 0 .. m : A(i) = B(i)
  <2> DEFINE T == {i \in 0 .. m : A(i) = B(i)}
  <2>1. 0 \in T
    <3>1. 0 \in 0 .. m
      BY <1>1
    <3>2. A(0) = B(0)
      BY <1>4, <1>5, Zenon
    <3> QED
      BY <3>1, <3>2
  <2>2. ASSUME NEW i \in 1 .. m, i - 1 \in T PROVE i \in T
    <3>1. i \in 1 .. m + k /\ i \in 0 .. m
      BY <1>1
    <3>2. A(i) = Onward(es[i], A(i - 1)) /\ B(i) = Onward(es1[i], B(i - 1)) /\ es[i] = es1[i]
      BY <1>2, <1>4, <1>5, <3>1
    <3> QED
      BY <2>2, <3>1, <3>2
  <2> HIDE DEF T
  <2>3. \A i \in 0 .. m : i \in T
    BY <1>1, <2>1, <2>2, ClimbFromZero
  <2> QED
    BY <2>3 DEF T
<1> DEFINE D(j) == UNION {C(x, j) : x \in B(m)}
<1>8. \A j \in 0 .. k : A(m + j) = D(j)
  <2> DEFINE T == {j \in 0 .. k : A(m + j) = D(j)}
  <2>0. m \in 0 .. m
    BY <1>1
  <2>1. 0 \in T
    <3>1. A(m + 0) = B(m)
      <4>1. m + 0 = m
        BY <1>1
      <4> QED
        BY <4>1, <2>0, <1>7
    <3>2. D(0) = B(m)
      BY <2>0, <1>5, <1>6
    <3> QED
      BY <3>1, <3>2, <1>1
  <2>2. ASSUME NEW j \in 1 .. k, j - 1 \in T PROVE j \in T
    <3>1. m + j \in 1 .. m + k /\ (m + j) - 1 = m + (j - 1) /\ j \in 0 .. k
      BY <1>1
    <3>2. A(m + j) = Onward(es2[j], A(m + (j - 1)))
      BY <1>3, <1>4, <3>1
    <3>3. A(m + (j - 1)) = D(j - 1)
      BY <2>2
    <3>4. \A x \in B(m) : C(x, j) = Onward(es2[j], C(x, j - 1))
      BY <2>0, <1>5, <1>6
    <3>5. Onward(es2[j], D(j - 1)) = D(j)
      BY <3>4 DEF Onward
    <3> HIDE DEF D
    <3> QED
      BY <3>1, <3>2, <3>3, <3>5
  <2> HIDE DEF T
  <2>3. \A j \in 0 .. k : j \in T
    BY <1>1, <2>1, <2>2, ClimbFromZero
  <2> QED
    BY <2>3 DEF T
<1> QED
  BY <1>7, <1>8 DEF A, B, C, es, m, k, Joined
-----------------------------------------------------------------------------
(* Evaluation *)

LEMMA ModifiedFrame ==
    ASSUME NEW pkt \in Frames, NEW a \in ModOf
    PROVE  Modified(pkt, a) \in Frames
<1>1. \A f \in DOMAIN a : a[f] \in Values \union Fields
  BY DEF ModOf
<1> QED
  BY <1>1 DEF Modified, Frames

LEMMA LeafModify ==
    ASSUME NEW p \in Policy, p.k = "modify"
    PROVE  p.a \in Mods \union Tags /\ p.a \in ModOf /\ p = Modify(p.a) /\ p \in Leaves
<1>1. p \in Leaves
  BY PolicyKinds DEF Combinators, Parallels, Sequentials
<1>2. PICK a \in Mods \union Tags : p = Modify(a)
  BY <1>1 DEF Leaves, Constants, Others, True, Drop, Match
<1>3. p.a = a
  BY <1>2 DEF Modify
<1> QED
  BY <1>1, <1>2, <1>3, PoliciesAssumption DEF ModOf

\* The classes of policies.
LEMMA PolicyClasses ==
    ASSUME NEW p \in Policy
    PROVE  /\ p.k \in {"match", "modify", "identity", "drop", "bucket", "count"} \union Combinators
           /\ p.k \in Combinators <=> p \notin Leaves
           /\ p.k \in Combinators => /\ Subs(p) = p.ps /\ p.ps \in Seq(Policy) /\ p.ps # <<>> /\ WellBuilt(p)
                                     /\ 1 \in DOMAIN p.ps
           /\ p.k = "if" => DOMAIN p.ps = 1 .. 4
<1>1. CASE p \in Leaves
  <2>1. p.k \notin Combinators
    BY <1>1, LeafKinds
  <2>2. p.k \in {"match", "modify", "identity", "drop", "bucket", "count"}
    BY <1>1 DEF Leaves, Constants, Others, True, Drop, Match, Modify
  <2>3. p.k # "if"
    BY <2>1 DEF Combinators
  <2> QED
    BY <1>1, <2>1, <2>2, <2>3
<1>2. CASE p \notin Leaves
  <2>1. p \in [k : Combinators, ps : Seq(Policy)] /\ WellBuilt(p) /\ Subs(p) = p.ps /\ p.ps # <<>>
    BY <1>2, PolicyKinds
  <2>2. p.k \in Combinators /\ p.ps \in Seq(Policy)
    BY <2>1
  <2>3. DOMAIN p.ps = 1 .. Len(p.ps) /\ Len(p.ps) \in Nat /\ Len(p.ps) # 0
    BY <2>1, <2>2, LenProperties, EmptySeq
  <2>4. 1 \in DOMAIN p.ps
    <3> DEFINE n == Len(p.ps)
    <3>1. DOMAIN p.ps = 1 .. n /\ n \in Nat /\ n # 0
      BY <2>3
    <3> HIDE DEF n
    <3>2. 1 \in 1 .. n
      BY <3>1
    <3> QED
      BY <3>1, <3>2
  <2>5. p.k = "if" => Len(p.ps) = 4
    BY <2>1 DEF WellBuilt
  <2> QED
    BY <1>2, <2>1, <2>2, <2>3, <2>4, <2>5
<1> QED
  BY <1>1, <1>2

LEMMA SubsPolicy ==
    ASSUME NEW p \in Policy
    PROVE  \A i \in DOMAIN Subs(p) : Subs(p)[i] \in Policy
<1>1. CASE p \in Leaves
  <2>1. Subs(p) = <<>>
    BY <1>1, LeafKinds
  <2> QED
    BY <2>1
<1>2. CASE p \notin Leaves
  <2>1. Subs(p) \in Seq(Policy)
    BY <1>2, PolicyClasses
  <2> QED
    BY <2>1, LenProperties, ElementOfSeq
<1> QED
  BY <1>1, <1>2

LEMMA PartsType ==
    ASSUME NEW S, NEW f \in [Policy -> S], NEW p \in Policy
    PROVE  Parts(f, p) \in [DOMAIN Subs(p) -> S]
  BY SubsPolicy DEF Parts

\* What the policies in a combination do, as a sequence.
LEMMA PartsSequence ==
    ASSUME NEW S, NEW p \in Policy, p.k \in Combinators, NEW v \in [DOMAIN Subs(p) -> S]
    PROVE  /\ v \in Seq(S) /\ Len(v) = Len(Subs(p)) /\ DOMAIN v = 1 .. Len(v) /\ DOMAIN v = DOMAIN Subs(p)
           /\ Len(v) \in Nat /\ Len(v) # 0 /\ 1 \in DOMAIN v /\ Len(v) \in DOMAIN v
           /\ \A i \in DOMAIN v : v[i] \in S
           /\ p.k = "if" => Len(v) = 4
<1> DEFINE n == Len(Subs(p))
<1>1. Subs(p) \in Seq(Policy) /\ Subs(p) # <<>>
  BY PolicyClasses
<1>2. n \in Nat /\ n # 0 /\ DOMAIN Subs(p) = 1 .. n
  BY <1>1, LenProperties, EmptySeq
<1>3. p.k = "if" => n = 4
  BY PolicyClasses DEF WellBuilt
<1> HIDE DEF n
<1>4. v \in [1 .. n -> S]
  BY <1>2
<1>5. v \in Seq(S) /\ Len(v) = n /\ DOMAIN v = 1 .. n
  BY <1>2, <1>4, AsSequence
<1>6. 1 \in 1 .. n /\ n \in 1 .. n
  BY <1>2
<1> QED
  BY <1>2, <1>3, <1>4, <1>5, <1>6 DEF n

LEMMA EvalKinds ==
    ASSUME NEW p, NEW es, NEW pkt
    PROVE  /\ p.k = "match" => EvalOf(p, es, pkt) = IF Sat(p.m, pkt) THEN {pkt} ELSE {}
           /\ p.k = "modify" => EvalOf(p, es, pkt) = EvalModify(p, pkt)
           /\ p.k = "identity" => EvalOf(p, es, pkt) = {pkt}
           /\ p.k = "negate" => EvalOf(p, es, pkt) = EvalNegate(es, pkt)
           /\ p.k \in Parallels => EvalOf(p, es, pkt) = EvalParallel(es, pkt)
           /\ p.k \in Sequentials => EvalOf(p, es, pkt) = EvalSequential(es, pkt)
           /\ p.k = "if" => EvalOf(p, es, pkt) = EvalIf(es, pkt)
           /\ p.k \in {"drop", "controller", "bucket", "count"} => EvalOf(p, es, pkt) = {}
<1>1. p.k = "match" => EvalOf(p, es, pkt) = IF Sat(p.m, pkt) THEN {pkt} ELSE {}
  BY DEF EvalOf, Parallels, Sequentials
<1>2. p.k = "modify" => EvalOf(p, es, pkt) = EvalModify(p, pkt)
  BY DEF EvalOf, Parallels, Sequentials
<1>3. p.k = "identity" => EvalOf(p, es, pkt) = {pkt}
  BY DEF EvalOf, Parallels, Sequentials
<1>4. p.k = "negate" => EvalOf(p, es, pkt) = EvalNegate(es, pkt)
  BY DEF EvalOf, Parallels, Sequentials
<1>5. p.k \in Parallels => EvalOf(p, es, pkt) = EvalParallel(es, pkt)
  BY DEF EvalOf, Parallels, Sequentials
<1>6. p.k \in Sequentials => EvalOf(p, es, pkt) = EvalSequential(es, pkt)
  BY DEF EvalOf, Parallels, Sequentials
<1>7. p.k = "if" => EvalOf(p, es, pkt) = EvalIf(es, pkt)
  BY DEF EvalOf, Parallels, Sequentials
<1>8. p.k \in {"drop", "controller", "bucket", "count"} => EvalOf(p, es, pkt) = {}
  BY DEF EvalOf, Parallels, Sequentials
<1> QED
  BY <1>1, <1>2, <1>3, <1>4, <1>5, <1>6, <1>7, <1>8

\* A policy of one of the language's classes; v is what the policies in it eval to.
Evaluable(p, v) ==
    /\ p.k \in {"match", "modify", "identity", "drop", "bucket", "count"} \union Combinators
    /\ p.k = "modify" => p.a \in ModOf
    /\ p.k \in Combinators => v \in Seq(Evaluations)
    /\ p.k = "if" => Len(v) = 4

LEMMA EvalOfFrames ==
    ASSUME NEW p, NEW v, Evaluable(p, v), NEW pkt \in Frames
    PROVE  EvalOf(p, v, pkt) \in SUBSET Frames
<1>1. CASE p.k \notin Combinators
  <2>1. p.k \in {"match", "modify", "identity", "drop", "bucket", "count"}
    BY <1>1 DEF Evaluable
  <2>2. CASE p.k = "modify"
    BY <2>2, ModifiedFrame, EvalKinds DEF EvalModify, Evaluable
  <2>3. CASE p.k # "modify"
    BY <2>1, <2>3, EvalKinds
  <2> QED
    BY <2>2, <2>3
<1>2. CASE p.k \in Combinators
  <2>1. /\ v \in Seq(Evaluations) /\ DOMAIN v = 1 .. Len(v) /\ Len(v) \in Nat
        /\ \A i \in DOMAIN v : v[i] \in Evaluations
        /\ p.k = "if" => Len(v) = 4
    BY <1>2, LenProperties, ElementOfSeq DEF Evaluable
  <2>2. p.k \in Parallels \union Sequentials \union {"negate", "if"}
    BY <1>2 DEF Combinators
  <2>3. CASE p.k \in Parallels
    <3>1. EvalOf(p, v, pkt) = UNION {v[i][pkt] : i \in DOMAIN v}
      BY <2>3, EvalKinds DEF EvalParallel
    <3> QED
      BY <2>1, <3>1 DEF Evaluations
  <2>4. CASE p.k \in Sequentials
    <3>1. EvalOf(p, v, pkt) = Through(v, pkt)[Len(v)]
      BY <2>4, EvalKinds DEF EvalSequential
    <3>2. Through(v, pkt) \in [0 .. Len(v) -> SUBSET Frames]
      BY <2>1, ThroughExact
    <3> QED
      BY <2>1, <3>1, <3>2
  <2>5. CASE p.k = "negate"
    BY <2>5, EvalKinds DEF EvalNegate
  <2>6. CASE p.k = "if"
    <3>1. EvalOf(p, v, pkt) = v[Chosen(v, pkt)][pkt]
      BY <2>6, EvalKinds DEF EvalIf
    <3>2. Chosen(v, pkt) \in {2, 3}
      BY DEF Chosen
    <3>3. v[Chosen(v, pkt)] \in Evaluations
      BY <2>1, <2>6, <3>2
    <3> QED
      BY <3>1, <3>3 DEF Evaluations
  <2> QED
    BY <2>2, <2>3, <2>4, <2>5, <2>6
<1> QED
  BY <1>1, <1>2

LEMMA EvalOfType ==
    ASSUME NEW p \in Policy, NEW v \in [DOMAIN Subs(p) -> Evaluations], NEW pkt \in Frames
    PROVE  EvalOf(p, v, pkt) \in SUBSET Frames
<1>1. p.k \in {"match", "modify", "identity", "drop", "bucket", "count"} \union Combinators
  BY PolicyClasses
<1>2. p.k = "modify" => p.a \in ModOf
  BY LeafModify
<1>3. p.k \in Combinators => v \in Seq(Evaluations) /\ (p.k = "if" => Len(v) = 4)
  BY PartsSequence
<1>4. p.k = "if" => p.k \in Combinators
  BY DEF Combinators
<1>5. Evaluable(p, v)
  BY <1>1, <1>2, <1>3, <1>4 DEF Evaluable
<1> QED
  BY <1>5, EvalOfFrames

LEMMA EvalExact ==
    /\ Eval \in [Policy -> Evaluations]
    /\ \A p \in Policy, pkt \in Frames : Eval[p][pkt] = EvalOf(p, Parts(Eval, p), pkt)
<1> DEFINE R(h) == h = [p \in Policy |->
                         LET es == [i \in DOMAIN Subs(p) |-> h[Subs(p)[i]]]
                         IN  [pkt \in Frames |-> EvalOf(p, es, pkt)]]
           G(h) == [p \in Policy |-> [pkt \in Frames |-> EvalOf(p, Parts(h, p), pkt)]]
           step == [p \in Policy |-> [v \in [DOMAIN Subs(p) -> Evaluations] |->
                                        [pkt \in Frames |-> EvalOf(p, v, pkt)]]]
           S == Evaluations
<1>1. ASSUME NEW p \in Policy, NEW v \in [DOMAIN Subs(p) -> S]
      PROVE  step[p][v] = [pkt \in Frames |-> EvalOf(p, v, pkt)] /\ step[p][v] \in S
  <2>1. step[p][v] = [pkt \in Frames |-> EvalOf(p, v, pkt)]
    OBVIOUS
  <2>2. [pkt \in Frames |-> EvalOf(p, v, pkt)] \in [Frames -> SUBSET Frames]
    BY EvalOfType
  <2> QED
    BY <2>1, <2>2 DEF Evaluations
<1> HIDE DEF step, S
<1>2. PICK f \in [Policy -> S] : Obeys(f, step)
  BY <1>1, PolicyRecursion
<1>3. \A p \in Policy : f[p] = [pkt \in Frames |-> EvalOf(p, Parts(f, p), pkt)]
  BY <1>1, <1>2, PartsType DEF Obeys
<1>4. f = G(f)
  <2>1. f = [p \in Policy |-> f[p]]
    BY <1>2
  <2> QED
    BY <1>3, <2>1
<1>5. R(f)
  BY <1>4 DEF Parts
<1>6. Eval = CHOOSE h : R(h)
  BY DEF Eval
<1>7. R(Eval)
  BY <1>5, <1>6
<1>8. Eval = G(Eval)
  BY <1>7 DEF Parts
<1> DEFINE h == Eval
<1> HIDE DEF h
<1>9. h = [p \in Policy |-> [pkt \in Frames |-> EvalOf(p, Parts(h, p), pkt)]]
  BY <1>8 DEF h
<1> DEFINE T == {p \in Policy : h[p] \in Evaluations}
<1>10. Policy \subseteq T
  <2>1. ASSUME NEW p \in Policy, Parts(h, p) \in [DOMAIN Subs(p) -> Evaluations]
        PROVE  p \in T
    <3>1. h[p] = [pkt \in Frames |-> EvalOf(p, Parts(h, p), pkt)]
      BY <1>9
    <3>2. \A pkt \in Frames : EvalOf(p, Parts(h, p), pkt) \in SUBSET Frames
      BY <2>1, EvalOfType
    <3> QED
      BY <3>1, <3>2 DEF Evaluations
  <2>2. Leaves \subseteq T
    <3> SUFFICES ASSUME NEW p \in Leaves PROVE p \in T
      OBVIOUS
    <3>1. p \in Policy /\ Subs(p) = <<>>
      BY PolicyKinds, LeafKinds
    <3>2. Parts(h, p) \in [DOMAIN Subs(p) -> Evaluations]
      BY <3>1 DEF Parts
    <3> QED
      BY <2>1, <3>1, <3>2
  <2>3. ASSUME NEW p \in Policy, p \notin Leaves, \A i \in DOMAIN p.ps : p.ps[i] \in T
        PROVE  p \in T
    <3>1. Subs(p) = p.ps
      BY <2>3, PolicyClasses
    <3>2. \A i \in DOMAIN Subs(p) : h[Subs(p)[i]] \in Evaluations
      BY <2>3, <3>1
    <3>3. Parts(h, p) \in [DOMAIN Subs(p) -> Evaluations]
      BY <3>2 DEF Parts
    <3> QED
      BY <2>1, <3>3
  <2> HIDE DEF T
  <2> QED
    BY <2>2, <2>3, PolicyInduction
<1>11. h \in [Policy -> Evaluations]
  BY <1>9, <1>10
<1>12. \A p \in Policy, pkt \in Frames : h[p][pkt] = EvalOf(p, Parts(h, p), pkt)
  BY <1>9
<1> QED
  BY <1>11, <1>12 DEF h
-----------------------------------------------------------------------------
(* The policies an evaluation reaches *)

Reaches == [Frames -> SUBSET Leaves]

LEMMA ReachedKinds ==
    ASSUME NEW p, NEW es, NEW rs, NEW pkt
    PROVE  /\ p.k \in {"bucket", "count"} => ReachedOf(p, es, rs, pkt) = {p}
           /\ p.k = "modify" => ReachedOf(p, es, rs, pkt) = IF HasVirtualHeaders(p.a) THEN {p} ELSE {}
           /\ p.k \in Parallels => ReachedOf(p, es, rs, pkt) = ReachedParallel(rs, pkt)
           /\ p.k \in Sequentials => ReachedOf(p, es, rs, pkt) = ReachedSequential(es, rs, pkt)
           /\ p.k = "if" => ReachedOf(p, es, rs, pkt) = rs[Chosen(es, pkt)][pkt]
           /\ p.k \in {"match", "identity", "drop", "negate"} => ReachedOf(p, es, rs, pkt) = {}
<1>1. p.k \in {"bucket", "count"} => ReachedOf(p, es, rs, pkt) = {p}
  BY DEF ReachedOf, Parallels, Sequentials
<1>2. p.k = "modify" => ReachedOf(p, es, rs, pkt) = IF HasVirtualHeaders(p.a) THEN {p} ELSE {}
  BY DEF ReachedOf, Parallels, Sequentials
<1>5. p.k \in Parallels => ReachedOf(p, es, rs, pkt) = ReachedParallel(rs, pkt)
  BY DEF ReachedOf, Parallels, Sequentials
<1>6. p.k \in Sequentials => ReachedOf(p, es, rs, pkt) = ReachedSequential(es, rs, pkt)
  BY DEF ReachedOf, Parallels, Sequentials
<1>7. p.k = "if" => ReachedOf(p, es, rs, pkt) = rs[Chosen(es, pkt)][pkt]
  BY DEF ReachedOf, Parallels, Sequentials
<1>8. p.k \in {"match", "identity", "drop", "negate"} => ReachedOf(p, es, rs, pkt) = {}
  BY DEF ReachedOf, Parallels, Sequentials
<1> QED
  BY <1>1, <1>2, <1>5, <1>6, <1>7, <1>8

LEMMA ReachedOfType ==
    ASSUME NEW p \in Policy, NEW v \in [DOMAIN Subs(p) -> Reaches], NEW pkt \in Frames
    PROVE  ReachedOf(p, Parts(Eval, p), v, pkt) \in SUBSET Leaves
<1> DEFINE es == Parts(Eval, p)
<1>0. es \in [DOMAIN Subs(p) -> Evaluations]
  BY EvalExact, PartsType
<1> HIDE DEF es
<1>1. CASE p.k \notin Combinators
  <2>1. p.k \in {"match", "modify", "identity", "drop", "bucket", "count"} /\ p \in Leaves
    BY <1>1, PolicyClasses
  <2> QED
    BY <2>1, ReachedKinds DEF es
<1>2. CASE p.k \in Combinators
  <2>1. /\ DOMAIN v = 1 .. Len(v) /\ Len(v) \in Nat
        /\ \A i \in DOMAIN v : v[i] \in Reaches
        /\ p.k = "if" => Len(v) = 4
        /\ es \in Seq(Evaluations) /\ Len(es) = Len(v)
    BY <1>0, <1>2, PartsSequence
  <2>2. p.k \in Parallels \union Sequentials \union {"negate", "if"}
    BY <1>2 DEF Combinators
  <2>3. CASE p.k \in Parallels
    <3>1. ReachedOf(p, es, v, pkt) = ReachedParallel(v, pkt)
      BY <2>3, ReachedKinds
    <3>2. ReachedParallel(v, pkt) \in SUBSET Leaves
      BY <2>1 DEF Reaches, ReachedParallel
    <3> QED
      BY <3>1, <3>2 DEF es
  <2>4. CASE p.k \in Sequentials
    <3>1. ReachedOf(p, es, v, pkt) = ReachedSequential(es, v, pkt)
      BY <2>4, ReachedKinds
    <3>2. Through(es, pkt) \in [0 .. Len(v) -> SUBSET Frames]
      BY <2>1, ThroughExact
    <3>3. \A i \in DOMAIN v : i - 1 \in 0 .. Len(v)
      BY <2>1
    <3>4. \A i \in DOMAIN v : Through(es, pkt)[i - 1] \subseteq Frames
      BY <3>2, <3>3
    <3>5. ReachedSequential(es, v, pkt) \in SUBSET Leaves
      BY <2>1, <3>4 DEF Reaches, ReachedSequential
    <3> QED
      BY <3>1, <3>5 DEF es
  <2>5. CASE p.k = "negate"
    BY <2>5, ReachedKinds DEF es
  <2>6. CASE p.k = "if"
    <3>1. ReachedOf(p, es, v, pkt) = v[Chosen(es, pkt)][pkt]
      BY <2>6, ReachedKinds
    <3>2. Chosen(es, pkt) \in {2, 3}
      BY DEF Chosen
    <3>3. v[Chosen(es, pkt)] \in Reaches
      BY <2>1, <2>6, <3>2
    <3> QED
      BY <3>1, <3>3 DEF Reaches, es
  <2> QED
    BY <2>2, <2>3, <2>4, <2>5, <2>6
<1> QED
  BY <1>1, <1>2

LEMMA ReachedExact ==
    /\ Reached \in [Policy -> Reaches]
    /\ \A p \in Policy, pkt \in Frames :
          Reached[p][pkt] = ReachedOf(p, Parts(Eval, p), Parts(Reached, p), pkt)
<1> DEFINE R(h) == h = [p \in Policy |->
                         LET es == [i \in DOMAIN Subs(p) |-> Eval[Subs(p)[i]]]
                             rs == [i \in DOMAIN Subs(p) |-> h[Subs(p)[i]]]
                         IN  [pkt \in Frames |-> ReachedOf(p, es, rs, pkt)]]
           G(h) == [p \in Policy |-> [pkt \in Frames |-> ReachedOf(p, Parts(Eval, p), Parts(h, p), pkt)]]
           step == [p \in Policy |-> [v \in [DOMAIN Subs(p) -> Reaches] |->
                                        [pkt \in Frames |-> ReachedOf(p, Parts(Eval, p), v, pkt)]]]
           S == Reaches
<1>1. ASSUME NEW p \in Policy, NEW v \in [DOMAIN Subs(p) -> S]
      PROVE  /\ step[p][v] = [pkt \in Frames |-> ReachedOf(p, Parts(Eval, p), v, pkt)]
             /\ step[p][v] \in S
  <2>1. step[p][v] = [pkt \in Frames |-> ReachedOf(p, Parts(Eval, p), v, pkt)]
    OBVIOUS
  <2>2. [pkt \in Frames |-> ReachedOf(p, Parts(Eval, p), v, pkt)] \in [Frames -> SUBSET Leaves]
    BY ReachedOfType
  <2> QED
    BY <2>1, <2>2 DEF Reaches
<1> HIDE DEF step, S
<1>2. PICK f \in [Policy -> S] : Obeys(f, step)
  BY <1>1, PolicyRecursion
<1>3. \A p \in Policy : f[p] = [pkt \in Frames |-> ReachedOf(p, Parts(Eval, p), Parts(f, p), pkt)]
  BY <1>1, <1>2, PartsType DEF Obeys
<1>4. f = G(f)
  <2>1. f = [p \in Policy |-> f[p]]
    BY <1>2
  <2> QED
    BY <1>3, <2>1
<1>5. R(f)
  BY <1>4 DEF Parts
<1>6. Reached = CHOOSE h : R(h)
  BY DEF Reached
<1>7. R(Reached)
  BY <1>5, <1>6
<1>8. Reached = G(Reached)
  BY <1>7 DEF Parts
<1> DEFINE h == Reached
<1> HIDE DEF h
<1>9. h = [p \in Policy |-> [pkt \in Frames |-> ReachedOf(p, Parts(Eval, p), Parts(h, p), pkt)]]
  BY <1>8 DEF h
<1> DEFINE T == {p \in Policy : h[p] \in Reaches}
<1>10. Policy \subseteq T
  <2>1. ASSUME NEW p \in Policy, Parts(h, p) \in [DOMAIN Subs(p) -> Reaches]
        PROVE  p \in T
    <3>1. h[p] = [pkt \in Frames |-> ReachedOf(p, Parts(Eval, p), Parts(h, p), pkt)]
      BY <1>9
    <3>2. \A pkt \in Frames : ReachedOf(p, Parts(Eval, p), Parts(h, p), pkt) \in SUBSET Leaves
      BY <2>1, ReachedOfType
    <3> QED
      BY <3>1, <3>2 DEF Reaches
  <2>2. Leaves \subseteq T
    <3> SUFFICES ASSUME NEW p \in Leaves PROVE p \in T
      OBVIOUS
    <3>1. p \in Policy /\ Subs(p) = <<>>
      BY PolicyKinds, LeafKinds
    <3>2. Parts(h, p) \in [DOMAIN Subs(p) -> Reaches]
      BY <3>1 DEF Parts
    <3> QED
      BY <2>1, <3>1, <3>2
  <2>3. ASSUME NEW p \in Policy, p \notin Leaves, \A i \in DOMAIN p.ps : p.ps[i] \in T
        PROVE  p \in T
    <3>1. Subs(p) = p.ps
      BY <2>3, PolicyClasses
    <3>2. \A i \in DOMAIN Subs(p) : h[Subs(p)[i]] \in Reaches
      BY <2>3, <3>1
    <3>3. Parts(h, p) \in [DOMAIN Subs(p) -> Reaches]
      BY <3>2 DEF Parts
    <3> QED
      BY <2>1, <3>3
  <2> HIDE DEF T
  <2> QED
    BY <2>2, <2>3, PolicyInduction
<1>11. h \in [Policy -> Reaches]
  BY <1>9, <1>10
<1>12. \A p \in Policy, pkt \in Frames : h[p][pkt] = ReachedOf(p, Parts(Eval, p), Parts(h, p), pkt)
  BY <1>9
<1> QED
  BY <1>11, <1>12 DEF h
-----------------------------------------------------------------------------
(* Combinations: what the policies in them do *)

LEMMA Combination ==
    ASSUME NEW p \in Policy, p.k \in Combinators
    PROVE  \E n \in Nat :
              /\ n # 0 /\ DOMAIN p.ps = 1 .. n /\ Len(p.ps) = n /\ (p.k = "if" => n = 4)
              /\ Parts(Eval, p) \in Seq(Evaluations) /\ Len(Parts(Eval, p)) = n
              /\ DOMAIN Parts(Eval, p) = 1 .. n /\ DOMAIN Parts(Reached, p) = 1 .. n
              /\ \A i \in 1 .. n : /\ p.ps[i] \in Policy
                                   /\ Parts(Eval, p)[i] = Eval[p.ps[i]]
                                   /\ Parts(Reached, p)[i] = Reached[p.ps[i]]
<1> DEFINE n == Len(p.ps)
<1>1. Subs(p) = p.ps /\ p.ps \in Seq(Policy)
  BY PolicyClasses
<1>2. n \in Nat /\ DOMAIN p.ps = 1 .. n
  BY <1>1, LenProperties
<1>a. Eval \in [Policy -> Evaluations] /\ Reached \in [Policy -> Reaches]
  BY EvalExact, ReachedExact
<1>3. Parts(Eval, p) \in [DOMAIN Subs(p) -> Evaluations] /\ Parts(Reached, p) \in [DOMAIN Subs(p) -> Reaches]
  BY <1>a, PartsType
<1>4. \A i \in DOMAIN Subs(p) : /\ Subs(p)[i] \in Policy
                                /\ Parts(Eval, p)[i] = Eval[Subs(p)[i]]
                                /\ Parts(Reached, p)[i] = Reached[Subs(p)[i]]
  BY SubsPolicy DEF Parts
<1>5. /\ Parts(Eval, p) \in Seq(Evaluations) /\ Len(Parts(Eval, p)) = n /\ n # 0
      /\ p.k = "if" => n = 4
  BY <1>1, <1>3, PartsSequence
<1> HIDE DEF n
<1>6. DOMAIN Parts(Eval, p) = 1 .. n /\ DOMAIN Parts(Reached, p) = 1 .. n
  BY <1>1, <1>2, <1>3, <1>4
<1>7. \A i \in 1 .. n : /\ p.ps[i] \in Policy
                         /\ Parts(Eval, p)[i] = Eval[p.ps[i]]
                         /\ Parts(Reached, p)[i] = Reached[p.ps[i]]
  <2> SUFFICES ASSUME NEW i \in 1 .. n
               PROVE  /\ p.ps[i] \in Policy
                      /\ Parts(Eval, p)[i] = Eval[p.ps[i]]
                      /\ Parts(Reached, p)[i] = Reached[p.ps[i]]
    OBVIOUS
  <2>1. i \in DOMAIN Subs(p)
    BY <1>1, <1>2
  <2> QED
    BY <2>1, <1>1, <1>3, <1>4
<1>8. Len(p.ps) = n
  BY DEF n
<1> QED
  BY <1>2, <1>5, <1>6, <1>7, <1>8

(* A filter lets a packet through as it is or not at all, and no bucket, counter or
   virtual header is met on the way. *)
LEMMA FilterEvals ==
    ASSUME NEW p \in Policy, IsFilter(p), NEW pkt \in Frames
    PROVE  Eval[p][pkt] \in {{}, {pkt}} /\ Reached[p][pkt] = {}
<1> DEFINE Fine(q) == \A x \in Frames : Eval[q][x] \in {{}, {x}} /\ Reached[q][x] = {}
           T == {q \in Policy : IsFilter(q) => Fine(q)}
<1>1. ASSUME NEW q \in Leaves
      PROVE  q \in T
  <2>1. q \in Policy /\ q.k \notin Combinators
    BY PolicyKinds, LeafKinds
  <2> SUFFICES ASSUME IsFilter(q), NEW x \in Frames
               PROVE  Eval[q][x] \in {{}, {x}} /\ Reached[q][x] = {}
    BY <2>1
  <2>2. q.k \in {"match", "identity", "drop"}
    BY <2>1 DEF IsFilter, Combinators, Parallels, Sequentials
  <2>3. EvalOf(q, Parts(Eval, q), x) \in {{}, {x}}
    BY <2>2, EvalKinds
  <2>4. ReachedOf(q, Parts(Eval, q), Parts(Reached, q), x) = {}
    BY <2>2, ReachedKinds
  <2> QED
    BY <2>1, <2>3, <2>4, EvalExact, ReachedExact
<1>2. ASSUME NEW q \in Policy, q \notin Leaves, \A i \in DOMAIN q.ps : q.ps[i] \in T
      PROVE  q \in T
  <2> SUFFICES ASSUME IsFilter(q), NEW x \in Frames
               PROVE  Eval[q][x] \in {{}, {x}} /\ Reached[q][x] = {}
    OBVIOUS
  <2>1. q.k \in Combinators /\ WellBuilt(q)
    BY <1>2, PolicyClasses
  <2>2. q.k \in {"union", "intersection", "negate"}
    BY <2>1 DEF IsFilter, Combinators, Parallels, Sequentials
  <2> DEFINE es == Parts(Eval, q)
             rs == Parts(Reached, q)
  <2>3. PICK n \in Nat :
            /\ n # 0 /\ DOMAIN q.ps = 1 .. n /\ es \in Seq(Evaluations) /\ Len(es) = n
            /\ DOMAIN es = 1 .. n /\ DOMAIN rs = 1 .. n
            /\ \A i \in 1 .. n : q.ps[i] \in Policy /\ es[i] = Eval[q.ps[i]] /\ rs[i] = Reached[q.ps[i]]
    BY <2>1, Combination
  <2>4. \A i \in 1 .. n : IsFilter(q.ps[i])
    BY <2>1, <2>2, <2>3 DEF WellBuilt
  <2>5. \A i \in 1 .. n : q.ps[i] \in T
    BY <1>2, <2>3
  <2>6. \A i \in 1 .. n : \A y \in Frames : es[i][y] \in {{}, {y}} /\ rs[i][y] = {}
    BY <2>3, <2>4, <2>5
  <2>7. Eval[q][x] = EvalOf(q, es, x) /\ Reached[q][x] = ReachedOf(q, es, rs, x)
    BY EvalExact, ReachedExact
  <2> HIDE DEF es, rs
  <2>8. CASE q.k = "negate"
    BY <2>7, <2>8, EvalKinds, ReachedKinds DEF EvalNegate
  <2>9. CASE q.k = "union"
    <3>1. q.k \in Parallels
      BY <2>9 DEF Parallels
    <3>2. Eval[q][x] = EvalParallel(es, x) /\ Reached[q][x] = ReachedParallel(rs, x)
      BY <2>7, <3>1, EvalKinds, ReachedKinds
    <3>3. EvalParallel(es, x) \in {{}, {x}}
      BY <2>3, <2>6 DEF EvalParallel
    <3>4. ReachedParallel(rs, x) = {}
      BY <2>3, <2>6 DEF ReachedParallel
    <3> QED
      BY <3>2, <3>3, <3>4
  <2>10. CASE q.k = "intersection"
    <3>1. q.k \in Sequentials
      BY <2>10 DEF Sequentials
    <3> DEFINE A(i) == Through(es, x)[i]
               U == {i \in 0 .. n : A(i) \in {{}, {x}}}
    <3>2. Eval[q][x] = A(n) /\ Reached[q][x] = ReachedSequential(es, rs, x)
      BY <2>3, <2>7, <3>1, EvalKinds, ReachedKinds DEF EvalSequential
    <3>3. A(0) = {x} /\ \A i \in 1 .. n : A(i) = Onward(es[i], A(i - 1))
      BY <2>3, ThroughExact
    <3>a. ReachedSequential(es, rs, x) = UNION {UNION {rs[i][y] : y \in A(i - 1)} : i \in 1 .. n}
      BY <2>3 DEF ReachedSequential
    <3> HIDE DEF A
    <3>4. 0 \in U
      BY <2>3, <3>3
    <3>5. ASSUME NEW i \in 1 .. n, i - 1 \in U
          PROVE  i \in U
      <4>1. A(i - 1) \in {{}, {x}} /\ A(i) = Onward(es[i], A(i - 1)) /\ es[i][x] \in {{}, {x}}
        BY <2>6, <3>3, <3>5
      <4>2. A(i) \in {{}, {x}}
        BY <4>1 DEF Onward
      <4>3. i \in 0 .. n
        BY <2>3
      <4> QED
        BY <4>2, <4>3
    <3> HIDE DEF U
    <3>6. \A i \in 0 .. n : i \in U
      BY <2>3, <3>4, <3>5, ClimbFromZero
    <3>7. \A i \in 0 .. n : A(i) \in {{}, {x}}
      BY <3>6 DEF U
    <3>8. n \in 0 .. n /\ \A i \in 1 .. n : i - 1 \in 0 .. n
      BY <2>3
    <3>9. \A i \in 1 .. n : UNION {rs[i][y] : y \in A(i - 1)} = {}
      BY <2>6, <3>7, <3>8
    <3>10. ReachedSequential(es, rs, x) = {}
      BY <3>a, <3>9
    <3> QED
      BY <3>2, <3>7, <3>8, <3>10
  <2> QED
    BY <2>2, <2>8, <2>9, <2>10
<1> HIDE DEF T
<1>3. Policy \subseteq T
  BY <1>1, <1>2, PolicyInduction
<1> QED
  BY <1>3 DEF T

\* What each of the policies ps evals to, and what each reaches.
EachEval(ps)    == [i \in DOMAIN ps |-> Eval[ps[i]]]
EachReached(ps) == [i \in DOMAIN ps |-> Reached[ps[i]]]

LEMMA EachType ==
    ASSUME NEW ps \in Seq(Policy)
    PROVE  /\ EachEval(ps) \in Seq(Evaluations) /\ Len(EachEval(ps)) = Len(ps)
           /\ DOMAIN EachEval(ps) = 1 .. Len(ps) /\ DOMAIN EachReached(ps) = 1 .. Len(ps)
           /\ Len(ps) \in Nat /\ DOMAIN ps = 1 .. Len(ps)
           /\ \A i \in 1 .. Len(ps) : /\ ps[i] \in Policy
                                      /\ EachEval(ps)[i] = Eval[ps[i]]
                                      /\ EachReached(ps)[i] = Reached[ps[i]]
<1> DEFINE n == Len(ps)
           es == EachEval(ps)
           rs == EachReached(ps)
<1>1. n \in Nat /\ DOMAIN ps = 1 .. n /\ \A i \in 1 .. n : ps[i] \in Policy
  BY LenProperties, ElementOfSeq
<1>2. \A p \in Policy : Eval[p] \in Evaluations
  BY EvalExact
<1> HIDE DEF n
<1>3. es = [i \in 1 .. n |-> Eval[ps[i]]] /\ rs = [i \in 1 .. n |-> Reached[ps[i]]]
  BY <1>1 DEF EachEval, EachReached
<1> HIDE DEF es, rs
<1>4. es \in [1 .. n -> Evaluations]
  BY <1>1, <1>2, <1>3
<1>5. es \in Seq(Evaluations) /\ Len(es) = n /\ DOMAIN es = 1 .. n
  BY <1>1, <1>4, AsSequence
<1> QED
  BY <1>1, <1>3, <1>5 DEF n, es, rs

LEMMA EachConcat ==
    ASSUME NEW ps \in Seq(Policy), NEW qs \in Seq(Policy)
    PROVE  /\ ps \o qs \in Seq(Policy) /\ Len(ps \o qs) = Len(ps) + Len(qs)
           /\ EachEval(ps \o qs) = EachEval(ps) \o EachEval(qs)
           /\ \A i \in 1 .. Len(ps) : EachReached(ps \o qs)[i] = EachReached(ps)[i]
           /\ \A j \in 1 .. Len(qs) : EachReached(ps \o qs)[Len(ps) + j] = EachReached(qs)[j]
<1> DEFINE m == Len(ps)
           k == Len(qs)
           xs == ps \o qs
           e1 == EachEval(ps)
           e2 == EachEval(qs)
           e == EachEval(xs)
<1>1. xs \in Seq(Policy) /\ Len(xs) = m + k /\ m \in Nat /\ k \in Nat
  BY ConcatProperties, LenProperties
<1>2. \A i \in 1 .. m + k : xs[i] = IF i <= m THEN ps[i] ELSE qs[i - m]
  BY ConcatProperties
<1>3. /\ e1 \in Seq(Evaluations) /\ Len(e1) = m /\ \A i \in 1 .. m : e1[i] = Eval[ps[i]]
      /\ e2 \in Seq(Evaluations) /\ Len(e2) = k /\ \A i \in 1 .. k : e2[i] = Eval[qs[i]]
  BY EachType
<1> HIDE DEF e, e1, e2
<1>4. DOMAIN e = 1 .. m + k /\ \A i \in 1 .. m + k : e[i] = Eval[xs[i]]
  <2> HIDE DEF xs
  <2>1. DOMAIN EachEval(xs) = 1 .. Len(xs) /\ \A i \in 1 .. Len(xs) : EachEval(xs)[i] = Eval[xs[i]]
    BY <1>1, EachType
  <2> QED
    BY <1>1, <2>1 DEF e
<1>5. /\ e1 \o e2 \in Seq(Evaluations) /\ Len(e1 \o e2) = m + k
      /\ \A i \in 1 .. m + k : (e1 \o e2)[i] = IF i <= m THEN e1[i] ELSE e2[i - m]
  <2> DEFINE f == e1 \o e2
  <2> HIDE DEF m, k
  <2>1. /\ f \in Seq(Evaluations) /\ Len(f) = Len(e1) + Len(e2)
        /\ \A i \in 1 .. Len(e1) + Len(e2) : f[i] = IF i <= Len(e1) THEN e1[i] ELSE e2[i - Len(e1)]
    BY <1>3, ConcatProperties
  <2> HIDE DEF f
  <2>2. Len(e1) = m /\ Len(e2) = k
    BY <1>3
  <2>3. /\ f \in Seq(Evaluations) /\ Len(f) = m + k
        /\ \A i \in 1 .. m + k : f[i] = IF i <= m THEN e1[i] ELSE e2[i - m]
    BY <2>1, <2>2
  <2> QED
    BY <2>3 DEF f
<1>6. DOMAIN (e1 \o e2) = 1 .. m + k
  BY <1>5, LenProperties
<1> DEFINE d == e1 \o e2
<1> HIDE DEF d, xs, m, k
<1>7. ASSUME NEW i \in 1 .. m + k
      PROVE  e[i] = d[i]
  <2>1. CASE i <= m
    <3>1. i \in 1 .. m
      BY <1>1, <2>1
    <3>2. xs[i] = ps[i] /\ d[i] = e1[i]
      BY <1>2, <1>5, <2>1 DEF d
    <3> QED
      BY <1>3, <1>4, <3>1, <3>2
  <2>2. CASE ~(i <= m)
    <3>1. i - m \in 1 .. k
      BY <1>1, <2>2
    <3>2. xs[i] = qs[i - m] /\ d[i] = e2[i - m]
      BY <1>2, <1>5, <2>2 DEF d
    <3> QED
      BY <1>3, <1>4, <3>1, <3>2
  <2> QED
    BY <2>1, <2>2
<1>8. d = [i \in 1 .. m + k |-> d[i]]
  <2>0. d \in Seq(Evaluations) /\ Len(d) = m + k
    BY <1>5 DEF d
  <2>1. d \in [1 .. m + k -> Evaluations]
    BY <2>0, LenProperties
  <2> QED
    BY <2>1
<1>9. e = [i \in 1 .. m + k |-> e[i]]
  <2>1. e = [i \in DOMAIN xs |-> Eval[xs[i]]]
    BY DEF e, EachEval
  <2>2. DOMAIN xs = 1 .. m + k
    BY <2>1, <1>4
  <2> QED
    BY <2>1, <2>2
<1>10. e = d
  BY <1>7, <1>8, <1>9
<1>11. \A i \in 1 .. m + k : EachReached(xs)[i] = Reached[xs[i]]
  <2>1. \A i \in 1 .. Len(xs) : EachReached(xs)[i] = Reached[xs[i]]
    BY <1>1, EachType
  <2> QED
    BY <1>1, <2>1
<1>12. /\ \A i \in 1 .. m : EachReached(ps)[i] = Reached[ps[i]]
       /\ \A i \in 1 .. k : EachReached(qs)[i] = Reached[qs[i]]
  BY EachType DEF m, k
<1>13. \A i \in 1 .. m : EachReached(xs)[i] = EachReached(ps)[i]
  <2> SUFFICES ASSUME NEW i \in 1 .. m PROVE EachReached(xs)[i] = EachReached(ps)[i]
    OBVIOUS
  <2>1. i \in 1 .. m + k /\ i <= m
    BY <1>1
  <2> QED
    BY <2>1, <1>2, <1>11, <1>12
<1>14. \A j \in 1 .. k : EachReached(xs)[m + j] = EachReached(qs)[j]
  <2> SUFFICES ASSUME NEW j \in 1 .. k PROVE EachReached(xs)[m + j] = EachReached(qs)[j]
    OBVIOUS
  <2>1. m + j \in 1 .. m + k /\ ~(m + j <= m) /\ (m + j) - m = j
    BY <1>1
  <2> QED
    BY <2>1, <1>2, <1>11, <1>12
<1> QED
  BY <1>1, <1>10, <1>13, <1>14 DEF e, e1, e2, d, xs, m, k

LEMMA OperandsExact ==
    ASSUME NEW p \in Policy
    PROVE  LET ops == Operands(p, Sequentials)
           IN  /\ ops \in Seq(Policy)
               /\ \A x \in Frames :
                    /\ Through(EachEval(ops), x)[Len(ops)] = Eval[p][x]
                    /\ ReachedSequential(EachEval(ops), EachReached(ops), x) = Reached[p][x]
<1> DEFINE ops == Operands(p, Sequentials)
           es == EachEval(ops)
           rs == EachReached(ops)
<1>1. CASE p.k \in Sequentials
  <2>1. p.k \in Combinators
    BY <1>1 DEF Combinators
  <2>2. ops = p.ps /\ Subs(p) = p.ps /\ p.ps \in Seq(Policy)
    BY <1>1, <2>1, PolicyClasses DEF Operands
  <2>3. Parts(Eval, p) = es /\ Parts(Reached, p) = rs
    BY <2>2 DEF Parts, EachEval, EachReached
  <2>4. ops \in Seq(Policy)
    BY <2>2
  <2> HIDE DEF ops
  <2>5. Len(es) = Len(ops)
    BY <2>4, EachType
  <2>6. ASSUME NEW x \in Frames
        PROVE  Through(es, x)[Len(ops)] = Eval[p][x] /\ ReachedSequential(es, rs, x) = Reached[p][x]
    <3>1. Eval[p][x] = EvalOf(p, es, x) /\ Reached[p][x] = ReachedOf(p, es, rs, x)
      BY <2>3, EvalExact, ReachedExact
    <3>2. EvalOf(p, es, x) = EvalSequential(es, x) /\ ReachedOf(p, es, rs, x) = ReachedSequential(es, rs, x)
      BY <1>1, EvalKinds, ReachedKinds
    <3> QED
      BY <3>1, <3>2, <2>5 DEF EvalSequential
  <2> QED
    BY <2>4, <2>6 DEF ops
<1>2. CASE p.k \notin Sequentials
  <2>1. ops = <<p>>
    BY <1>2 DEF Operands
  <2>2. <<p>> \in Seq(Policy) /\ Len(<<p>>) = 1 /\ <<p>>[1] = p
    OBVIOUS
  <2>3. ops \in Seq(Policy) /\ Len(ops) = 1 /\ ops[1] = p
    BY <2>1, <2>2
  <2> HIDE DEF ops
  <2>4. /\ es \in Seq(Evaluations) /\ Len(es) = 1 /\ es[1] = Eval[p] /\ rs[1] = Reached[p]
        /\ DOMAIN rs = 1 .. 1
    <3>1. 1 \in 1 .. 1
      OBVIOUS
    <3> QED
      BY <2>3, <3>1, EachType
  <2> HIDE DEF es, rs
  <2>5. ASSUME NEW x \in Frames
        PROVE  Through(es, x)[Len(ops)] = Eval[p][x] /\ ReachedSequential(es, rs, x) = Reached[p][x]
    <3> DEFINE A(i) == Through(es, x)[i]
    <3>1. A(0) = {x} /\ \A i \in 1 .. 1 : A(i) = Onward(es[i], A(i - 1))
      BY <2>4, ThroughExact
    <3>2. A(1) = Onward(es[1], A(1 - 1)) /\ 1 - 1 = 0 /\ DOMAIN rs = {1}
      <4> HIDE DEF A
      <4> QED
        BY <2>4, <3>1
    <3>3. A(1) = Eval[p][x]
      <4>1. Onward(es[1], {x}) = es[1][x]
        BY DEF Onward
      <4> HIDE DEF A
      <4> QED
        BY <2>4, <3>1, <3>2, <4>1
    <3>4. ReachedSequential(es, rs, x) = UNION {rs[1][y] : y \in A(1 - 1)}
      BY <3>2 DEF ReachedSequential
    <3>5. UNION {rs[1][y] : y \in {x}} = rs[1][x]
      OBVIOUS
    <3>6. Len(ops) = 1 /\ rs[1] = Reached[p]
      BY <2>3, <2>4
    <3>7. Through(es, x)[Len(ops)] = A(1)
      BY <3>6
    <3> HIDE DEF A
    <3>8. A(1 - 1) = {x}
      BY <3>1, <3>2
    <3>9. ReachedSequential(es, rs, x) = Reached[p][x]
      BY <3>4, <3>5, <3>6, <3>8
    <3> QED
      BY <3>3, <3>7, <3>9
  <2> QED
    BY <2>3, <2>5 DEF ops, es, rs
<1> QED
  BY <1>1, <1>2

LEMMA ReachedThroughConcat ==
    ASSUME NEW ps \in Seq(Policy), NEW qs \in Seq(Policy), NEW pkt \in Frames
    PROVE  LET there(x) == ReachedSequential(EachEval(qs), EachReached(qs), x)
           IN  ReachedSequential(EachEval(ps \o qs), EachReached(ps \o qs), pkt) =
                  ReachedSequential(EachEval(ps), EachReached(ps), pkt)
                     \union UNION {there(x) : x \in Through(EachEval(ps), pkt)[Len(ps)]}
<1> DEFINE m == Len(ps)
           k == Len(qs)
           xs == ps \o qs
           A(i) == Through(EachEval(xs), pkt)[i]
           B(i) == Through(EachEval(ps), pkt)[i]
           C(x, j) == Through(EachEval(qs), x)[j]
           r == EachReached(xs)
           r1 == EachReached(ps)
           r2 == EachReached(qs)
           there(x) == ReachedSequential(EachEval(qs), EachReached(qs), x)
<1>1. /\ m \in Nat /\ k \in Nat /\ xs \in Seq(Policy) /\ Len(xs) = m + k
      /\ DOMAIN r1 = 1 .. m /\ DOMAIN r2 = 1 .. k
      /\ EachEval(ps) \in Seq(Evaluations) /\ EachEval(qs) \in Seq(Evaluations)
      /\ Len(EachEval(ps)) = m /\ Len(EachEval(qs)) = k
      /\ EachEval(xs) = EachEval(ps) \o EachEval(qs)
      /\ \A i \in 1 .. m : r[i] = r1[i]
      /\ \A j \in 1 .. k : r[m + j] = r2[j]
  BY EachType, EachConcat
<1>2. DOMAIN r = 1 .. m + k
  <2> HIDE DEF xs
  <2>1. DOMAIN EachReached(xs) = 1 .. Len(xs)
    BY <1>1, EachType
  <2> QED
    BY <1>1, <2>1
<1>3. /\ \A i \in 0 .. m : A(i) = B(i)
      /\ \A j \in 0 .. k : A(m + j) = UNION {C(x, j) : x \in B(m)}
  <2> DEFINE e1 == EachEval(ps)
             e2 == EachEval(qs)
  <2>1. e1 \in Seq(Evaluations) /\ e2 \in Seq(Evaluations) /\ Len(e1) = m /\ Len(e2) = k /\ EachEval(xs) = e1 \o e2
    BY <1>1
  <2> HIDE DEF e1, e2, m, k
  <2>2. /\ \A i \in 0 .. Len(e1) : Through(e1 \o e2, pkt)[i] = Through(e1, pkt)[i]
        /\ \A j \in 0 .. Len(e2) : Through(e1 \o e2, pkt)[Len(e1) + j] =
                 UNION {Through(e2, x)[j] : x \in Through(e1, pkt)[Len(e1)]}
    <3>1. Joined(e1, e2, pkt)
      BY <2>1, ThroughConcat
    <3> QED
      BY <3>1 DEF Joined
  <2>3. /\ \A i \in 0 .. m : Through(EachEval(xs), pkt)[i] = Through(e1, pkt)[i]
        /\ \A j \in 0 .. k : Through(EachEval(xs), pkt)[m + j] =
                 UNION {Through(e2, x)[j] : x \in Through(e1, pkt)[m]}
    BY <2>1, <2>2
  <2> QED
    BY <2>3 DEF e1, e2
<1>4. /\ ReachedSequential(EachEval(xs), r, pkt) = UNION {UNION {r[i][x] : x \in A(i - 1)} : i \in 1 .. m + k}
      /\ ReachedSequential(EachEval(ps), r1, pkt) = UNION {UNION {r1[i][x] : x \in B(i - 1)} : i \in 1 .. m}
  BY <1>1, <1>2 DEF ReachedSequential
<1>5. \A x : there(x) = UNION {UNION {r2[j][y] : y \in C(x, j - 1)} : j \in 1 .. k}
  BY <1>1 DEF ReachedSequential
<1> HIDE DEF m, k, A, B, C, r, r1, r2, there
<1>6. \A i \in 1 .. m : i - 1 \in 0 .. m /\ i \in 1 .. m + k
  BY <1>1
<1>7. \A j \in 1 .. k : j - 1 \in 0 .. k /\ m + j \in 1 .. m + k /\ (m + j) - 1 = m + (j - 1)
  BY <1>1
<1>8. \A i \in 1 .. m + k : i \in 1 .. m \/ \E j \in 1 .. k : i = m + j
  <2> SUFFICES ASSUME NEW i \in 1 .. m + k, i \notin 1 .. m PROVE \E j \in 1 .. k : i = m + j
    OBVIOUS
  <2>1. i - m \in 1 .. k /\ i = m + (i - m)
    BY <1>1
  <2> QED
    BY <2>1
<1> DEFINE Here(y) == \E i \in 1 .. m : \E x \in B(i - 1) : y \in r1[i][x]
           There(y) == \E j \in 1 .. k : \E x \in B(m) : \E z \in C(x, j - 1) : y \in r2[j][z]
<1>9. ASSUME NEW y
      PROVE  y \in ReachedSequential(EachEval(xs), r, pkt) <=> Here(y) \/ There(y)
  <2>1. y \in ReachedSequential(EachEval(xs), r, pkt) <=> \E i \in 1 .. m + k : \E x \in A(i - 1) : y \in r[i][x]
    BY <1>4
  <2>2. ASSUME NEW i \in 1 .. m
        PROVE  (\E x \in A(i - 1) : y \in r[i][x]) <=> (\E x \in B(i - 1) : y \in r1[i][x])
    BY <1>1, <1>3, <1>6
  <2>3. ASSUME NEW j \in 1 .. k
        PROVE  (\E x \in A((m + j) - 1) : y \in r[m + j][x])
                  <=> (\E x \in B(m) : \E z \in C(x, j - 1) : y \in r2[j][z])
    <3>1. A((m + j) - 1) = UNION {C(x, j - 1) : x \in B(m)} /\ r[m + j] = r2[j]
      BY <1>1, <1>3, <1>7
    <3>2. \A z : z \in A((m + j) - 1) <=> \E x \in B(m) : z \in C(x, j - 1)
      BY <3>1
    <3> QED
      BY <3>1, <3>2, Zenon
  <2>4. (\E i \in 1 .. m + k : \E x \in A(i - 1) : y \in r[i][x]) <=> Here(y) \/ There(y)
    <3> DEFINE D(i) == \E x \in A(i - 1) : y \in r[i][x]
               H(i) == \E x \in B(i - 1) : y \in r1[i][x]
               K(j) == \E x \in B(m) : \E z \in C(x, j - 1) : y \in r2[j][z]
    <3>1. (\A i \in 1 .. m : D(i) <=> H(i)) /\ (\A j \in 1 .. k : D(m + j) <=> K(j))
      BY <2>2, <2>3
    <3>2. (Here(y) <=> \E i \in 1 .. m : H(i)) /\ (There(y) <=> \E j \in 1 .. k : K(j))
      OBVIOUS
    <3> HIDE DEF D, H, K, Here, There
    <3>3. (\E i \in 1 .. m + k : D(i)) <=> Here(y) \/ There(y)
      BY <3>1, <3>2, <1>6, <1>7, <1>8
    <3> QED
      BY <3>3 DEF D
  <2> QED
    BY <2>1, <2>4
<1>10. \A y : y \in ReachedSequential(EachEval(ps), r1, pkt) <=> Here(y)
  BY <1>4
<1>11. \A y : y \in UNION {there(x) : x \in B(m)} <=> There(y)
  BY <1>5
<1> HIDE DEF Here, There
<1>12. ReachedSequential(EachEval(xs), r, pkt) =
          ReachedSequential(EachEval(ps), r1, pkt) \union UNION {there(x) : x \in B(m)}
  BY <1>9, <1>10, <1>11
<1> QED
  BY <1>12 DEF xs, r, r1, there, B, m

(* p >> q evaluates q on what p leaves, however its operands are nested. *)
THEOREM RshiftExact ==
    ASSUME NEW p \in Policy, NEW q \in Policy, Rshift(p, q) \in Policy, NEW pkt \in Frames
    PROVE  /\ Eval[Rshift(p, q)][pkt] = UNION {Eval[q][x] : x \in Eval[p][pkt]}
           /\ Reached[Rshift(p, q)][pkt] = Reached[p][pkt] \union UNION {Reached[q][x] : x \in Eval[p][pkt]}
<1> DEFINE s == Rshift(p, q)
           ps == Operands(p, Sequentials)
           qs == Operands(q, Sequentials)
           xs == ps \o qs
<1>1. /\ ps \in Seq(Policy)
      /\ \A x \in Frames : /\ Through(EachEval(ps), x)[Len(ps)] = Eval[p][x]
                           /\ ReachedSequential(EachEval(ps), EachReached(ps), x) = Reached[p][x]
  BY OperandsExact
<1>2. /\ qs \in Seq(Policy)
      /\ \A x \in Frames : /\ Through(EachEval(qs), x)[Len(qs)] = Eval[q][x]
                           /\ ReachedSequential(EachEval(qs), EachReached(qs), x) = Reached[q][x]
  BY OperandsExact
<1>3. s.k = "sequential" /\ s.ps = xs /\ s \in Policy
  BY DEF Rshift
<1> HIDE DEF s, ps, qs
<1>4. s.k \in Sequentials /\ Operands(s, Sequentials) = xs
  BY <1>3 DEF Sequentials, Operands
<1>5. /\ Through(EachEval(xs), pkt)[Len(xs)] = Eval[s][pkt]
      /\ ReachedSequential(EachEval(xs), EachReached(xs), pkt) = Reached[s][pkt]
  <2> HIDE DEF xs
  <2> QED
    BY <1>3, <1>4, OperandsExact
<1>6. Eval[p][pkt] \subseteq Frames
  BY EvalExact DEF Evaluations
<1>7. Eval[s][pkt] = UNION {Eval[q][x] : x \in Eval[p][pkt]}
  <2> DEFINE e1 == EachEval(ps)
             e2 == EachEval(qs)
             m == Len(ps)
             k == Len(qs)
  <2>1. /\ e1 \in Seq(Evaluations) /\ e2 \in Seq(Evaluations) /\ Len(e1) = m /\ Len(e2) = k
        /\ k \in Nat /\ EachEval(xs) = e1 \o e2 /\ Len(xs) = m + k
    BY <1>1, <1>2, EachType, EachConcat
  <2> HIDE DEF e1, e2, m, k, xs
  <2>2. \A j \in 0 .. Len(e2) : Through(e1 \o e2, pkt)[Len(e1) + j] =
                 UNION {Through(e2, x)[j] : x \in Through(e1, pkt)[Len(e1)]}
    <3>1. Joined(e1, e2, pkt)
      BY <2>1, ThroughConcat
    <3> QED
      BY <3>1 DEF Joined
  <2>3. k \in 0 .. k
    BY <2>1
  <2>4. Through(EachEval(xs), pkt)[Len(xs)] = UNION {Through(e2, x)[k] : x \in Through(e1, pkt)[m]}
    BY <2>1, <2>2, <2>3
  <2>5. Through(e1, pkt)[m] = Eval[p][pkt] /\ \A x \in Frames : Through(e2, x)[k] = Eval[q][x]
    BY <1>1, <1>2 DEF e1, e2, m, k
  <2>6. UNION {Through(e2, x)[k] : x \in Eval[p][pkt]} = UNION {Eval[q][x] : x \in Eval[p][pkt]}
    BY <1>6, <2>5
  <2> QED
    BY <1>5, <2>4, <2>5, <2>6
<1>8. Reached[s][pkt] = Reached[p][pkt] \union UNION {Reached[q][x] : x \in Eval[p][pkt]}
  <2> DEFINE there(x) == ReachedSequential(EachEval(qs), EachReached(qs), x)
  <2>1. ReachedSequential(EachEval(xs), EachReached(xs), pkt) =
           ReachedSequential(EachEval(ps), EachReached(ps), pkt)
              \union UNION {there(x) : x \in Through(EachEval(ps), pkt)[Len(ps)]}
    BY <1>1, <1>2, ReachedThroughConcat
  <2>2. UNION {there(x) : x \in Eval[p][pkt]} = UNION {Reached[q][x] : x \in Eval[p][pkt]}
    BY <1>2, <1>6
  <2> HIDE DEF there
  <2> QED
    BY <1>1, <1>5, <2>1, <2>2
<1> QED
  BY <1>7, <1>8 DEF s

LEMMA TwoInARow ==
    ASSUME NEW x, NEW y
    PROVE  <<x>> \o <<y>> = <<x, y>>
<1> DEFINE S == {x, y}
           s == <<x>>
           t == <<y>>
           u == <<x, y>>
<1>1. /\ s \in Seq(S) /\ Len(s) = 1 /\ s[1] = x
      /\ t \in Seq(S) /\ Len(t) = 1 /\ t[1] = y
      /\ u \in Seq(S) /\ Len(u) = 2 /\ u[1] = x /\ u[2] = y
  OBVIOUS
<1> HIDE DEF s, t, u
<1>2. /\ s \o t \in Seq(S) /\ Len(s \o t) = Len(s) + Len(t)
      /\ \A i \in 1 .. Len(s) + Len(t) : (s \o t)[i] = IF i <= Len(s) THEN s[i] ELSE t[i - Len(s)]
  BY <1>1, ConcatProperties
<1> DEFINE c == s \o t
<1> HIDE DEF c
<1>3. c \in Seq(S) /\ Len(c) = 2 /\ \A i \in 1 .. 2 : c[i] = IF i <= 1 THEN s[i] ELSE t[i - 1]
  BY <1>1, <1>2 DEF c
<1>4. c[1] = x
  <2>1. 1 \in 1 .. 2
    OBVIOUS
  <2> QED
    BY <1>1, <1>3, <2>1
<1>5. c[2] = y
  <2>1. 2 \in 1 .. 2 /\ ~(2 <= 1) /\ 2 - 1 = 1
    OBVIOUS
  <2> QED
    BY <1>1, <1>3, <2>1
<1>6. \A i \in 1 .. 2 : c[i] = u[i]
  <2>1. \A i \in 1 .. 2 : i = 1 \/ i = 2
    OBVIOUS
  <2> QED
    BY <1>1, <1>4, <1>5, <2>1
<1>7. c = u
  BY <1>1, <1>3, <1>6, SeqEqual
<1> QED
  BY <1>7 DEF c, s, t, u

LEMMA IfParts ==
    ASSUME NEW p \in Policy, p.k = "if"
    PROVE  LET f == p.ps[1]
               s1 == Rshift(f, p.ps[2])
               s2 == Rshift(Invert(f), p.ps[3])
           IN  /\ \A i \in 1 .. 4 : p.ps[i] \in Policy
               /\ IsFilter(f) /\ s1 \in Policy /\ s2 \in Policy /\ Invert(f) \in Policy
               /\ p.ps[4].k = "parallel" /\ p.ps[4].ps = <<s1, s2>>
<1> DEFINE f == p.ps[1]
           s1 == Rshift(f, p.ps[2])
           s2 == Rshift(Invert(f), p.ps[3])
           g == p.ps[4]
<1>1. p.k \in Combinators
  BY DEF Combinators
<1>2. WellBuilt(p) /\ p.ps \in Seq(Policy) /\ DOMAIN p.ps = 1 .. 4
  BY <1>1, PolicyClasses
<1>3. \A i \in 1 .. 4 : p.ps[i] \in Policy
  BY <1>2, ElementOfSeq, LenProperties
<1>4. IsFilter(f) /\ p = If(f, p.ps[2], p.ps[3])
  BY <1>2 DEF WellBuilt
<1>5. g = Guarded(f, p.ps[2], p.ps[3])
  <2>1. p.ps = <<f, p.ps[2], p.ps[3], Guarded(f, p.ps[2], p.ps[3])>>
    BY <1>4 DEF If
  <2> DEFINE t == <<f, p.ps[2], p.ps[3], Guarded(f, p.ps[2], p.ps[3])>>
  <2>2. t[4] = Guarded(f, p.ps[2], p.ps[3])
    OBVIOUS
  <2> HIDE DEF t
  <2>3. p.ps = t
    BY <2>1 DEF t
  <2> QED
    BY <2>2, <2>3
<1>6. s1.k = "sequential" /\ s2.k = "sequential"
  BY DEF Rshift
<1>7. g = Plus(s1, s2)
  BY <1>5 DEF Guarded
<1> HIDE DEF s1
<1>8. s2.ps = Operands(Invert(f), Sequentials) \o Operands(p.ps[3], Sequentials)
  BY DEF Rshift
<1>9. Operands(Invert(f), Sequentials) = <<Invert(f)>>
  BY DEF Invert, Operands, Sequentials
<1>10. Operands(p.ps[3], Sequentials) \in Seq(Policy)
  BY <1>3, OperandsExact
<1> HIDE DEF s2
<1>11. g.k = "parallel" /\ g.ps = <<s1>> \o <<s2>>
  BY <1>6, <1>7 DEF Plus, Operands, Parallels
<1>12. g.ps = <<s1, s2>>
  BY <1>11, TwoInARow
<1>13. g \in Policy
  BY <1>3
<1> HIDE DEF g
<1>14. g.ps \in Seq(Policy)
  <2>1. g.k \in Combinators
    BY <1>11 DEF Combinators, Parallels
  <2> QED
    BY <1>13, <2>1, PolicyClasses
<1>15. s1 \in Policy /\ s2 \in Policy
  <2> DEFINE t == <<s1, s2>>
  <2>1. t[1] = s1 /\ t[2] = s2 /\ Len(t) = 2 /\ 1 \in 1 .. 2 /\ 2 \in 1 .. 2
    OBVIOUS
  <2>2. t \in Seq(Policy)
    BY <1>12, <1>14
  <2> HIDE DEF t
  <2> QED
    BY <2>1, <2>2, ElementOfSeq
<1>16. Invert(f) \in Policy
  <2> DEFINE i == Invert(f)
             o == Operands(p.ps[3], Sequentials)
  <2>1. s2.k \in Combinators
    BY <1>6 DEF Combinators, Sequentials
  <2>2. s2.ps \in Seq(Policy) /\ s2.ps = <<i>> \o o
    BY <1>8, <1>9, <1>15, <2>1, PolicyClasses
  <2>3. o \in Seq(Policy)
    BY <1>10
  <2> HIDE DEF i, o
  <2>4. (<<i>> \o o)[1] = i /\ 1 \in 1 .. Len(<<i>> \o o)
    <3>1. <<i>> \in Seq({i}) /\ Len(<<i>>) = 1 /\ <<i>>[1] = i /\ Len(o) \in Nat
      BY <2>3, LenProperties
    <3>2. <<i>> \in Seq({i} \union Policy) /\ o \in Seq({i} \union Policy)
      BY <2>3
    <3> DEFINE t == <<i>>
    <3> HIDE DEF t
    <3>3. /\ Len(t \o o) = Len(t) + Len(o)
          /\ \A j \in 1 .. Len(t) + Len(o) : (t \o o)[j] = IF j <= Len(t) THEN t[j] ELSE o[j - Len(t)]
      BY <3>2, ConcatProperties DEF t
    <3>4. Len(t) = 1 /\ t[1] = i
      BY <3>1 DEF t
    <3>5. 1 \in 1 .. Len(t) + Len(o)
      BY <3>1, <3>4
    <3>6. (t \o o)[1] = i
      BY <3>3, <3>4, <3>5
    <3> QED
      BY <3>3, <3>5, <3>6 DEF t
  <2>5. i \in Policy
    BY <2>2, <2>4, ElementOfSeq
  <2> QED
    BY <2>5 DEF i
<1> QED
  BY <1>3, <1>4, <1>11, <1>12, <1>15, <1>16 DEF s1, s2, g

LEMMA InvertExact ==
    ASSUME NEW f \in Policy, Invert(f) \in Policy, NEW pkt \in Frames
    PROVE  /\ Eval[Invert(f)][pkt] = IF Eval[f][pkt] = {} THEN {pkt} ELSE {}
           /\ Reached[Invert(f)][pkt] = {}
<1> DEFINE i == Invert(f)
<1>1. i.k = "negate" /\ i.ps = <<f>> /\ i \in Policy
  BY DEF Invert
<1>2. <<f>>[1] = f
  OBVIOUS
<1> HIDE DEF i
<1>3. i.k \in Combinators /\ 1 \in DOMAIN i.ps /\ i.ps[1] = f
  BY <1>1, <1>2, PolicyClasses DEF Combinators
<1>4. Parts(Eval, i)[1] = Eval[f]
  BY <1>1, <1>3, Combination
<1>5. Eval[i][pkt] = EvalNegate(Parts(Eval, i), pkt)
  BY <1>1, EvalExact, EvalKinds
<1>6. Reached[i][pkt] = {}
  BY <1>1, ReachedExact, ReachedKinds
<1> QED
  BY <1>4, <1>5, <1>6 DEF EvalNegate, i

(* if_: what it evaluates is what the policy it is derived to evaluates. *)
THEOREM IfExact ==
    ASSUME NEW p \in Policy, p.k = "if", NEW pkt \in Frames
    PROVE  Eval[p.ps[4]][pkt] = Eval[p][pkt] /\ Reached[p.ps[4]][pkt] = Reached[p][pkt]
<1> DEFINE f == p.ps[1]
           a == p.ps[2]
           b == p.ps[3]
           g == p.ps[4]
           s1 == Rshift(f, a)
           s2 == Rshift(Invert(f), b)
           es == Parts(Eval, p)
           rs == Parts(Reached, p)
<1>1. /\ \A i \in 1 .. 4 : p.ps[i] \in Policy
      /\ IsFilter(f) /\ s1 \in Policy /\ s2 \in Policy /\ Invert(f) \in Policy
      /\ g.k = "parallel" /\ g.ps = <<s1, s2>>
  BY IfParts
<1>2. f \in Policy /\ a \in Policy /\ b \in Policy /\ g \in Policy
  BY <1>1
<1>3. \A i \in 1 .. 4 : es[i] = Eval[p.ps[i]] /\ rs[i] = Reached[p.ps[i]]
  <2>1. p.k \in Combinators
    BY DEF Combinators
  <2> QED
    BY <2>1, Combination
<1>4. /\ Eval[p][pkt] = es[Chosen(es, pkt)][pkt]
      /\ Reached[p][pkt] = rs[Chosen(es, pkt)][pkt]
  <2>1. EvalOf(p, es, pkt) = EvalIf(es, pkt)
    BY EvalKinds
  <2>2. ReachedOf(p, es, rs, pkt) = rs[Chosen(es, pkt)][pkt]
    BY ReachedKinds
  <2> QED
    BY <2>1, <2>2, EvalExact, ReachedExact DEF EvalIf
<1>5. es[1] = Eval[f] /\ es[2] = Eval[a] /\ es[3] = Eval[b] /\ rs[2] = Reached[a] /\ rs[3] = Reached[b]
  BY <1>3
<1>6. Eval[f][pkt] \in {{}, {pkt}} /\ Reached[f][pkt] = {}
  BY <1>1, <1>2, FilterEvals
<1>7. /\ Eval[Invert(f)][pkt] = IF Eval[f][pkt] = {} THEN {pkt} ELSE {}
      /\ Reached[Invert(f)][pkt] = {}
  BY <1>1, <1>2, InvertExact
<1>8. /\ Eval[s1][pkt] = UNION {Eval[a][x] : x \in Eval[f][pkt]}
      /\ Reached[s1][pkt] = Reached[f][pkt] \union UNION {Reached[a][x] : x \in Eval[f][pkt]}
  BY <1>1, <1>2, RshiftExact
<1>9. /\ Eval[s2][pkt] = UNION {Eval[b][x] : x \in Eval[Invert(f)][pkt]}
      /\ Reached[s2][pkt] = Reached[Invert(f)][pkt] \union UNION {Reached[b][x] : x \in Eval[Invert(f)][pkt]}
  BY <1>1, <1>2, RshiftExact
<1>10. /\ Eval[g][pkt] = Eval[s1][pkt] \union Eval[s2][pkt]
       /\ Reached[g][pkt] = Reached[s1][pkt] \union Reached[s2][pkt]
  <2> DEFINE t == <<s1, s2>>
  <2> HIDE DEF s1, s2, g, f, a, b
  <2>1. g.k \in Parallels /\ g.k \in Combinators
    BY <1>1 DEF Parallels, Combinators
  <2>2. t[1] = s1 /\ t[2] = s2 /\ DOMAIN t = 1 .. 2
    OBVIOUS
  <2> HIDE DEF t
  <2>3. g.ps = t
    BY <1>1 DEF t
  <2> DEFINE ge == Parts(Eval, g)
             gr == Parts(Reached, g)
  <2>4. PICK n \in Nat :
           /\ DOMAIN g.ps = 1 .. n /\ DOMAIN ge = 1 .. n /\ DOMAIN gr = 1 .. n
           /\ \A i \in 1 .. n : ge[i] = Eval[g.ps[i]] /\ gr[i] = Reached[g.ps[i]]
    BY <1>2, <2>1, Combination
  <2>5. DOMAIN ge = 1 .. 2 /\ DOMAIN gr = 1 .. 2
    BY <2>2, <2>3, <2>4, Zenon
  <2>6. Eval[g][pkt] = EvalParallel(ge, pkt) /\ Reached[g][pkt] = ReachedParallel(gr, pkt)
    BY <1>2, <2>1, EvalExact, ReachedExact, EvalKinds, ReachedKinds
  <2>7. ge[1] = Eval[s1] /\ ge[2] = Eval[s2] /\ gr[1] = Reached[s1] /\ gr[2] = Reached[s2]
    <3>1. DOMAIN g.ps = 1 .. 2
      BY <2>2, <2>3
    <3>2. 1 \in 1 .. n /\ 2 \in 1 .. n
      <4>1. 1 .. n = 1 .. 2
        BY <2>4, <3>1, Zenon
      <4> QED
        BY <4>1
    <3> QED
      BY <2>2, <2>3, <2>4, <3>2
  <2> HIDE DEF ge, gr
  <2>8. 1 .. 2 = {1, 2}
    OBVIOUS
  <2>9. DOMAIN ge = {1, 2} /\ DOMAIN gr = {1, 2}
    BY <2>5, <2>8
  <2>10. UNION {ge[i][pkt] : i \in {1, 2}} = ge[1][pkt] \union ge[2][pkt]
    OBVIOUS
  <2>11. UNION {gr[i][pkt] : i \in {1, 2}} = gr[1][pkt] \union gr[2][pkt]
    OBVIOUS
  <2> QED
    BY <2>6, <2>7, <2>9, <2>10, <2>11 DEF EvalParallel, ReachedParallel
<1> HIDE DEF es, rs, f, a, b, g, s1, s2
<1>11. CASE Eval[f][pkt] = {}
  <2>1. Chosen(es, pkt) = 3
    BY <1>5, <1>11 DEF Chosen
  <2>2. Eval[s1][pkt] = {} /\ Reached[s1][pkt] = {}
    BY <1>6, <1>8, <1>11
  <2>3. Eval[Invert(f)][pkt] = {pkt}
    BY <1>7, <1>11
  <2>4. Eval[s2][pkt] = Eval[b][pkt] /\ Reached[s2][pkt] = Reached[b][pkt]
    BY <1>7, <1>9, <2>3
  <2> QED
    BY <1>4, <1>5, <1>10, <2>1, <2>2, <2>4 DEF g
<1>12. CASE Eval[f][pkt] = {pkt}
  <2>1. Chosen(es, pkt) = 2
    BY <1>5, <1>12 DEF Chosen
  <2>2. Eval[s1][pkt] = Eval[a][pkt] /\ Reached[s1][pkt] = Reached[a][pkt]
    BY <1>6, <1>8, <1>12
  <2>3. Eval[Invert(f)][pkt] = {}
    BY <1>7, <1>12
  <2>4. Eval[s2][pkt] = {} /\ Reached[s2][pkt] = {}
    BY <1>7, <1>9, <2>3
  <2> QED
    BY <1>4, <1>5, <1>10, <2>1, <2>2, <2>4 DEF g
<1> QED
  BY <1>6, <1>11, <1>12 DEF g
-----------------------------------------------------------------------------
(* Queries in evaluations *)

Finders == [Found -> Found]

LEMMA FoundType ==
    /\ \A acc \in Found : acc.res \in SUBSET Leaves /\ acc.pkts \in SUBSET Frames
    /\ \A R \in SUBSET Leaves, X \in SUBSET Frames :
          /\ [res |-> R, pkts |-> X] \in Found
          /\ [res |-> R, pkts |-> X].res = R /\ [res |-> R, pkts |-> X].pkts = X
    /\ \A acc \in Found, X \in SUBSET Frames :
          /\ [acc EXCEPT !.pkts = X] \in Found
          /\ [acc EXCEPT !.pkts = X].res = acc.res /\ [acc EXCEPT !.pkts = X].pkts = X
  BY DEF Found

LEMMA QueriesKinds ==
    ASSUME NEW p, NEW qs, NEW acc
    PROVE  /\ p.k = "drop" => QueriesOf(p, qs, acc) = [acc EXCEPT !.pkts = {}]
           /\ p.k \in {"match", "modify", "negate"} => QueriesOf(p, qs, acc) = FindPackets(p, acc)
           /\ p.k \in {"bucket", "count"} => QueriesOf(p, qs, acc) = [res |-> acc.res \union {p}, pkts |-> {}]
           /\ p.k = "if" => QueriesOf(p, qs, acc) = qs[4][acc]
           /\ p.k \in Parallels => QueriesOf(p, qs, acc) = FindParallel(qs, acc)
           /\ p.k \in Sequentials => QueriesOf(p, qs, acc) = FindSequential(qs, acc)
           /\ p.k = "identity" => QueriesOf(p, qs, acc) = acc
<1>1. p.k = "drop" => QueriesOf(p, qs, acc) = [acc EXCEPT !.pkts = {}]
  BY DEF QueriesOf, Parallels, Sequentials
<1>2. p.k \in {"match", "modify", "negate"} => QueriesOf(p, qs, acc) = FindPackets(p, acc)
  BY DEF QueriesOf, Parallels, Sequentials
<1>3. p.k \in {"bucket", "count"} => QueriesOf(p, qs, acc) = [res |-> acc.res \union {p}, pkts |-> {}]
  BY DEF QueriesOf, Parallels, Sequentials
<1>4. p.k = "if" => QueriesOf(p, qs, acc) = qs[4][acc]
  BY DEF QueriesOf, Parallels, Sequentials
<1>5. p.k \in Parallels => QueriesOf(p, qs, acc) = FindParallel(qs, acc)
  BY DEF QueriesOf, Parallels, Sequentials
<1>6. p.k \in Sequentials => QueriesOf(p, qs, acc) = FindSequential(qs, acc)
  BY DEF QueriesOf, Parallels, Sequentials
<1>7. p.k = "identity" => QueriesOf(p, qs, acc) = acc
  BY DEF QueriesOf, Parallels, Sequentials
<1> QED
  BY <1>1, <1>2, <1>3, <1>4, <1>5, <1>6, <1>7

LEMMA FindSequentialUnfolds ==
    ASSUME NEW qs \in Seq(Finders), Len(qs) # 0, NEW acc \in Found
    PROVE  \E f \in [1 .. Len(qs) -> Found] :
              /\ FindSequential(qs, acc) = f[Len(qs)]
              /\ f[1] = qs[1][acc]
              /\ \A n \in 2 .. Len(qs) : f[n] = FindNext(qs[n], f[n - 1])
<1> DEFINE N == Len(qs)
           S == Found
           first == qs[1][acc]
           R(h) == h = [n \in 1 .. N |-> IF n = 1 THEN first ELSE FindNext(qs[n], h[n - 1])]
           f == CHOOSE h : R(h)
           step == [n \in 2 .. N |-> [x \in S |-> FindNext(qs[n], x)]]
<1>1. N \in Nat /\ N # 0 /\ \A n \in 1 .. N : qs[n] \in Finders
  BY LenProperties, ElementOfSeq
<1>2. FindSequential(qs, acc) = f[N]
  BY DEF FindSequential
<1>3. \A n \in 2 .. N, x \in S : FindNext(qs[n], x) \in S
  BY <1>1 DEF FindNext, Finders
<1>4. \A n \in 2 .. N, x \in S : step[n][x] = FindNext(qs[n], x)
  OBVIOUS
<1>5. first \in S
  BY <1>1 DEF Finders
<1> HIDE DEF S, N, f, first
<1>6. step \in [2 .. N -> [S -> S]]
  BY <1>3
<1> HIDE DEF step
<1>7. PICK g \in [1 .. N -> S] : Follows(g, N, first, step)
  <2>1. N \in Nat /\ N # 0
    BY <1>1
  <2> QED
    BY <2>1, <1>5, <1>6, RecursionExists
<1>8. g[1] = first /\ \A n \in 2 .. N : g[n] = FindNext(qs[n], g[n - 1])
  <2>1. \A n \in 2 .. N : n - 1 \in 1 .. N
    BY <1>1
  <2>2. \A n \in 2 .. N : g[n - 1] \in S
    BY <2>1, <1>7
  <2>3. g[1] = first /\ \A n \in 2 .. N : g[n] = step[n][g[n - 1]]
    BY <1>7 DEF Follows
  <2> QED
    BY <2>2, <2>3, <1>4
<1>9. R(g)
  <2>1. \A n \in 1 .. N : g[n] = IF n = 1 THEN first ELSE FindNext(qs[n], g[n - 1])
    BY <1>1, <1>8
  <2> QED
    BY <2>1
<1>10. R(f)
  BY <1>9 DEF f
<1>11. /\ f = [n \in 1 .. N |-> f[n]]
       /\ \A n \in 1 .. N : f[n] = IF n = 1 THEN first ELSE FindNext(qs[n], f[n - 1])
  BY <1>10
<1>12. f[1] = first /\ \A n \in 2 .. N : f[n] = FindNext(qs[n], f[n - 1])
  <2>1. 1 \in 1 .. N /\ \A n \in 2 .. N : n \in 1 .. N /\ n # 1
    BY <1>1
  <2>2. f[1] = first
    BY <2>1, <1>11
  <2>3. \A n \in 2 .. N : f[n] = FindNext(qs[n], f[n - 1])
    BY <2>1, <1>11
  <2> QED
    BY <2>2, <2>3
<1> DEFINE T == {n \in 1 .. N : f[n] \in S}
<1>13. 1 \in T
  BY <1>1, <1>5, <1>12
<1>14. ASSUME NEW n \in 2 .. N, n - 1 \in T
       PROVE  n \in T
  BY <1>1, <1>3, <1>12, <1>14
<1>15. \A n \in 1 .. N : n \in T
  <2> HIDE DEF T
  <2> QED
    BY <1>1, <1>13, <1>14, Climb
<1>16. f \in [1 .. N -> S]
  BY <1>11, <1>15
<1> QED
  BY <1>2, <1>12, <1>16 DEF N, S, first

LEMMA QueriesOfType ==
    ASSUME NEW p \in Policy, NEW v \in [DOMAIN Subs(p) -> Finders], NEW acc \in Found
    PROVE  QueriesOf(p, v, acc) \in Found
<1>0. acc.res \in SUBSET Leaves /\ acc.pkts \in SUBSET Frames
  BY FoundType
<1>1. CASE p.k = "drop"
  BY <1>1, QueriesKinds, FoundType
<1>2. CASE p.k \in {"match", "modify", "negate"}
  <2>1. UNION {Eval[p][x] : x \in acc.pkts} \in SUBSET Frames
    BY <1>0, EvalExact DEF Evaluations
  <2> DEFINE X == UNION {Eval[p][x] : x \in acc.pkts}
  <2>2. QueriesOf(p, v, acc) = [acc EXCEPT !.pkts = X]
    BY <1>2, QueriesKinds DEF FindPackets
  <2> HIDE DEF X
  <2>3. X \in SUBSET Frames
    BY <2>1 DEF X
  <2> QED
    BY <2>2, <2>3, FoundType
<1>3. CASE p.k \in {"bucket", "count"}
  <2>1. p \in Leaves
    BY <1>3, PolicyClasses DEF Combinators, Parallels, Sequentials
  <2>2. acc.res \union {p} \in SUBSET Leaves /\ {} \in SUBSET Frames
    BY <1>0, <2>1
  <2> QED
    BY <1>3, <2>2, QueriesKinds, FoundType
<1>4. CASE p.k = "identity"
  BY <1>4, QueriesKinds
<1>5. CASE p.k \in Parallels \union Sequentials \union {"if"}
  <2>1. p.k \in Combinators
    BY <1>5 DEF Combinators
  <2>2. /\ v \in Seq(Finders) /\ Len(v) \in Nat /\ Len(v) # 0 /\ DOMAIN v = 1 .. Len(v)
        /\ \A i \in DOMAIN v : v[i] \in Finders
        /\ p.k = "if" => Len(v) = 4
    BY <2>1, PartsSequence
  <2>3. \A i \in DOMAIN v : v[i][acc] \in Found
    BY <2>2 DEF Finders
  <2>4. CASE p.k \in Parallels
    <3>1. QueriesOf(p, v, acc) = FindParallel(v, acc)
      BY <2>4, QueriesKinds
    <3>2. \A i \in DOMAIN v : v[i][acc].res \in SUBSET Leaves /\ v[i][acc].pkts \in SUBSET Frames
      BY <2>3, FoundType
    <3>3. /\ UNION {v[i][acc].res : i \in DOMAIN v} \in SUBSET Leaves
          /\ UNION {v[i][acc].pkts : i \in DOMAIN v} \in SUBSET Frames
      BY <3>2
    <3> QED
      BY <3>1, <3>3, FoundType DEF FindParallel
  <2>5. CASE p.k \in Sequentials
    <3>1. QueriesOf(p, v, acc) = FindSequential(v, acc)
      BY <2>5, QueriesKinds
    <3>2. PICK f \in [1 .. Len(v) -> Found] : FindSequential(v, acc) = f[Len(v)]
      BY <2>2, FindSequentialUnfolds
    <3>3. Len(v) \in 1 .. Len(v)
      BY <2>2
    <3> QED
      BY <3>1, <3>2, <3>3
  <2>6. CASE p.k = "if"
    <3>1. 4 \in DOMAIN v
      BY <2>2, <2>6
    <3> QED
      BY <2>3, <2>6, <3>1, QueriesKinds
  <2> QED
    BY <1>5, <2>4, <2>5, <2>6
<1> QED
  BY <1>1, <1>2, <1>3, <1>4, <1>5, PolicyClasses DEF Combinators

LEMMA QueriesExact ==
    /\ QueriesInEval \in [Policy -> Finders]
    /\ \A p \in Policy, acc \in Found :
          QueriesInEval[p][acc] = QueriesOf(p, Parts(QueriesInEval, p), acc)
<1> DEFINE R(h) == h = [p \in Policy |->
                         LET qs == [i \in DOMAIN Subs(p) |-> h[Subs(p)[i]]]
                         IN  [acc \in Found |-> QueriesOf(p, qs, acc)]]
           G(h) == [p \in Policy |-> [acc \in Found |-> QueriesOf(p, Parts(h, p), acc)]]
           step == [p \in Policy |-> [v \in [DOMAIN Subs(p) -> Finders] |->
                                        [acc \in Found |-> QueriesOf(p, v, acc)]]]
           S == Finders
<1>1. ASSUME NEW p \in Policy, NEW v \in [DOMAIN Subs(p) -> S]
      PROVE  /\ step[p][v] = [acc \in Found |-> QueriesOf(p, v, acc)]
             /\ step[p][v] \in S
  <2>1. step[p][v] = [acc \in Found |-> QueriesOf(p, v, acc)]
    OBVIOUS
  <2>2. [acc \in Found |-> QueriesOf(p, v, acc)] \in [Found -> Found]
    BY QueriesOfType
  <2> QED
    BY <2>1, <2>2 DEF Finders
<1> HIDE DEF step, S
<1>2. PICK f \in [Policy -> S] : Obeys(f, step)
  BY <1>1, PolicyRecursion
<1>3. \A p \in Policy : f[p] = [acc \in Found |-> QueriesOf(p, Parts(f, p), acc)]
  BY <1>1, <1>2, PartsType DEF Obeys
<1>4. f = G(f)
  <2>1. f = [p \in Policy |-> f[p]]
    BY <1>2
  <2> QED
    BY <1>3, <2>1
<1>5. R(f)
  BY <1>4 DEF Parts
<1>6. QueriesInEval = CHOOSE h : R(h)
  BY DEF QueriesInEval
<1>7. R(QueriesInEval)
  BY <1>5, <1>6
<1>8. QueriesInEval = G(QueriesInEval)
  BY <1>7 DEF Parts
<1> DEFINE h == QueriesInEval
<1> HIDE DEF h
<1>9. h = [p \in Policy |-> [acc \in Found |-> QueriesOf(p, Parts(h, p), acc)]]
  BY <1>8 DEF h
<1> DEFINE T == {p \in Policy : h[p] \in Finders}
<1>10. Policy \subseteq T
  <2>1. ASSUME NEW p \in Policy, Parts(h, p) \in [DOMAIN Subs(p) -> Finders]
        PROVE  p \in T
    <3>1. h[p] = [acc \in Found |-> QueriesOf(p, Parts(h, p), acc)]
      BY <1>9
    <3>2. \A acc \in Found : QueriesOf(p, Parts(h, p), acc) \in Found
      BY <2>1, QueriesOfType
    <3> QED
      BY <3>1, <3>2 DEF Finders
  <2>2. Leaves \subseteq T
    <3> SUFFICES ASSUME NEW p \in Leaves PROVE p \in T
      OBVIOUS
    <3>1. p \in Policy /\ Subs(p) = <<>>
      BY PolicyKinds, LeafKinds
    <3>2. Parts(h, p) \in [DOMAIN Subs(p) -> Finders]
      BY <3>1 DEF Parts
    <3> QED
      BY <2>1, <3>1, <3>2
  <2>3. ASSUME NEW p \in Policy, p \notin Leaves, \A i \in DOMAIN p.ps : p.ps[i] \in T
        PROVE  p \in T
    <3>1. Subs(p) = p.ps
      BY <2>3, PolicyClasses
    <3>2. \A i \in DOMAIN Subs(p) : h[Subs(p)[i]] \in Finders
      BY <2>3, <3>1
    <3>3. Parts(h, p) \in [DOMAIN Subs(p) -> Finders]
      BY <3>2 DEF Parts
    <3> QED
      BY <2>1, <3>3
  <2> HIDE DEF T
  <2> QED
    BY <2>2, <2>3, PolicyInduction
<1>11. h \in [Policy -> Finders]
  BY <1>9, <1>10
<1>12. \A p \in Policy, acc \in Found : h[p][acc] = QueriesOf(p, Parts(h, p), acc)
  BY <1>9
<1> QED
  BY <1>11, <1>12 DEF h
-----------------------------------------------------------------------------
(* The queries found are those reached *)

\* The queries that r reaches from the packets X.
Met(r, X) == UNION {{y \in r[x] : y.k # "modify"} : x \in X}

\* queries_in_eval of p, for packets that are left, adds the queries that p reaches.
Finds(p) ==
    \A acc \in Found : acc.pkts # {} =>
        /\ QueriesInEval[p][acc].res = acc.res \union Met(Reached[p], acc.pkts)
        /\ QueriesInEval[p][acc].pkts = Onward(Eval[p], acc.pkts)

\* The packets after n of the policies that eval to es, from the packets X.
Wave(es, X, n) == UNION {Through(es, x)[n] : x \in X}

LEMMA WaveExact ==
    ASSUME NEW es \in Seq(Evaluations), NEW X \in SUBSET Frames
    PROVE  /\ Wave(es, X, 0) = X
           /\ \A n \in 1 .. Len(es) : Wave(es, X, n) = Onward(es[n], Wave(es, X, n - 1))
<1> DEFINE A(x, n) == Through(es, x)[n]
<1>1. \A x \in Frames : A(x, 0) = {x} /\ \A n \in 1 .. Len(es) : A(x, n) = Onward(es[n], A(x, n - 1))
  BY ThroughExact
<1>2. \A n : Wave(es, X, n) = UNION {A(x, n) : x \in X}
  BY DEF Wave
<1> HIDE DEF A
<1>3. Wave(es, X, 0) = X
  <2>1. \A x \in X : A(x, 0) = {x}
    BY <1>1
  <2>2. UNION {A(x, 0) : x \in X} = X
    BY <2>1
  <2>3. Wave(es, X, 0) = UNION {A(x, 0) : x \in X}
    BY <1>2
  <2> QED
    BY <2>2, <2>3
<1>4. ASSUME NEW n \in 1 .. Len(es)
      PROVE  Wave(es, X, n) = Onward(es[n], Wave(es, X, n - 1))
  <2>1. \A x \in X : A(x, n) = Onward(es[n], A(x, n - 1))
    BY <1>1
  <2>2. UNION {A(x, n) : x \in X} = Onward(es[n], UNION {A(x, n - 1) : x \in X})
    BY <2>1 DEF Onward
  <2> QED
    BY <1>2, <2>2
<1> QED
  BY <1>3, <1>4

LEMMA LeafFinds ==
    ASSUME NEW p \in Leaves
    PROVE  Finds(p)
<1>1. p \in Policy /\ p.k \notin Combinators
  BY PolicyKinds, LeafKinds
<1>2. p.k \in {"match", "modify", "identity", "drop", "bucket", "count"}
  BY <1>1, PolicyClasses
<1> SUFFICES ASSUME NEW acc \in Found, acc.pkts # {}
             PROVE  /\ QueriesInEval[p][acc].res = acc.res \union Met(Reached[p], acc.pkts)
                    /\ QueriesInEval[p][acc].pkts = Onward(Eval[p], acc.pkts)
  BY DEF Finds
<1> DEFINE qs == Parts(QueriesInEval, p)
           X == acc.pkts
<1>3. QueriesInEval[p][acc] = QueriesOf(p, qs, acc) /\ X \subseteq Frames
  BY <1>1, QueriesExact, FoundType
<1>4. /\ \A x \in X : Eval[p][x] = EvalOf(p, Parts(Eval, p), x)
      /\ \A x \in X : Reached[p][x] = ReachedOf(p, Parts(Eval, p), Parts(Reached, p), x)
  BY <1>1, <1>3, EvalExact, ReachedExact
<1>5. CASE p.k \in {"match", "modify"}
  <2>1. QueriesOf(p, qs, acc) = FindPackets(p, acc)
    BY <1>5, QueriesKinds
  <2>2. UNION {Eval[p][x] : x \in X} = Onward(Eval[p], X) /\ Onward(Eval[p], X) \in SUBSET Frames
    BY <1>1, <1>3, EvalExact DEF Onward, Evaluations
  <2>3. FindPackets(p, acc).res = acc.res /\ FindPackets(p, acc).pkts = Onward(Eval[p], X)
    BY <2>2, FoundType DEF FindPackets
  <2>4. \A x \in X : Reached[p][x] \subseteq {p} /\ (p.k = "match" => Reached[p][x] = {})
    BY <1>4, <1>5, ReachedKinds
  <2>5. Met(Reached[p], X) = {}
    BY <2>4, <1>5 DEF Met
  <2> QED
    BY <1>3, <2>1, <2>3, <2>5
<1>6. CASE p.k = "identity"
  <2>1. QueriesOf(p, qs, acc) = acc
    BY <1>6, QueriesKinds
  <2>2. \A x \in X : Eval[p][x] = {x} /\ Reached[p][x] = {}
    BY <1>4, <1>6, EvalKinds, ReachedKinds
  <2>3. Onward(Eval[p], X) = X /\ Met(Reached[p], X) = {}
    BY <2>2 DEF Onward, Met
  <2> QED
    BY <1>3, <2>1, <2>3
<1>7. CASE p.k = "drop"
  <2>1. QueriesOf(p, qs, acc) = [acc EXCEPT !.pkts = {}]
    BY <1>7, QueriesKinds
  <2>2. \A x \in X : Eval[p][x] = {} /\ Reached[p][x] = {}
    BY <1>4, <1>7, EvalKinds, ReachedKinds
  <2>3. Onward(Eval[p], X) = {} /\ Met(Reached[p], X) = {}
    BY <2>2 DEF Onward, Met
  <2>4. [acc EXCEPT !.pkts = {}].res = acc.res /\ [acc EXCEPT !.pkts = {}].pkts = {}
    BY FoundType
  <2> QED
    BY <1>3, <2>1, <2>3, <2>4
<1>8. CASE p.k \in {"bucket", "count"}
  <2>1. QueriesOf(p, qs, acc) = [res |-> acc.res \union {p}, pkts |-> {}]
    BY <1>8, QueriesKinds
  <2>2. \A x \in X : Eval[p][x] = {} /\ Reached[p][x] = {p}
    BY <1>4, <1>8, EvalKinds, ReachedKinds
  <2>3. Onward(Eval[p], X) = {} /\ Met(Reached[p], X) = {p}
    BY <2>2, <1>8 DEF Onward, Met
  <2> QED
    BY <1>3, <2>1, <2>3
<1> QED
  BY <1>2, <1>5, <1>6, <1>7, <1>8

LEMMA ParallelFinds ==
    ASSUME NEW p \in Policy, p.k \in Parallels, \A i \in DOMAIN p.ps : Finds(p.ps[i])
    PROVE  Finds(p)
<1> SUFFICES ASSUME NEW acc \in Found, acc.pkts # {}
             PROVE  /\ QueriesInEval[p][acc].res = acc.res \union Met(Reached[p], acc.pkts)
                    /\ QueriesInEval[p][acc].pkts = Onward(Eval[p], acc.pkts)
  BY DEF Finds
<1> DEFINE qs == Parts(QueriesInEval, p)
           es == Parts(Eval, p)
           rs == Parts(Reached, p)
           X == acc.pkts
<1>1. p.k \in Combinators
  BY DEF Combinators
<1>2. PICK n \in Nat :
         /\ n # 0 /\ DOMAIN p.ps = 1 .. n /\ DOMAIN es = 1 .. n /\ DOMAIN rs = 1 .. n
         /\ \A i \in 1 .. n : es[i] = Eval[p.ps[i]] /\ rs[i] = Reached[p.ps[i]]
  BY <1>1, Combination
<1>3. DOMAIN qs = 1 .. n /\ \A i \in 1 .. n : qs[i] = QueriesInEval[p.ps[i]]
  <2>1. Subs(p) = p.ps
    BY <1>1, PolicyClasses
  <2> QED
    BY <1>2, <2>1 DEF Parts
<1>4. QueriesInEval[p][acc] = FindParallel(qs, acc) /\ X \subseteq Frames
  BY QueriesExact, QueriesKinds, FoundType
<1>5. \A x \in X : Eval[p][x] = EvalParallel(es, x) /\ Reached[p][x] = ReachedParallel(rs, x)
  BY <1>4, EvalExact, ReachedExact, EvalKinds, ReachedKinds
<1>6. \A i \in 1 .. n : /\ qs[i][acc].res = acc.res \union Met(rs[i], X)
                        /\ qs[i][acc].pkts = Onward(es[i], X)
  BY <1>2, <1>3 DEF Finds
<1> HIDE DEF qs, es, rs
<1>7. /\ FindParallel(qs, acc).res = UNION {qs[i][acc].res : i \in 1 .. n}
      /\ FindParallel(qs, acc).pkts = UNION {qs[i][acc].pkts : i \in 1 .. n}
  BY <1>3 DEF FindParallel
<1>8. 1 \in 1 .. n
  BY <1>2
<1>9. UNION {qs[i][acc].pkts : i \in 1 .. n} = Onward(Eval[p], X)
  <2>1. \A x \in X : Eval[p][x] = UNION {es[i][x] : i \in 1 .. n}
    BY <1>2, <1>5 DEF EvalParallel
  <2>2. \A y : y \in Onward(Eval[p], X) <=> \E x \in X : \E i \in 1 .. n : y \in es[i][x]
    BY <2>1 DEF Onward
  <2>3. \A y : y \in UNION {qs[i][acc].pkts : i \in 1 .. n} <=> \E i \in 1 .. n : \E x \in X : y \in es[i][x]
    BY <1>6 DEF Onward
  <2> QED
    BY <2>2, <2>3
<1>10. UNION {qs[i][acc].res : i \in 1 .. n} = acc.res \union Met(Reached[p], X)
  <2>1. \A x \in X : Reached[p][x] = UNION {rs[i][x] : i \in 1 .. n}
    BY <1>2, <1>5 DEF ReachedParallel
  <2>2. \A y : y \in Met(Reached[p], X) <=> y.k # "modify" /\ \E x \in X : \E i \in 1 .. n : y \in rs[i][x]
    BY <2>1 DEF Met
  <2>3. \A y, i : y \in Met(rs[i], X) <=> y.k # "modify" /\ \E x \in X : y \in rs[i][x]
    BY DEF Met
  <2>4. \A y : y \in UNION {qs[i][acc].res : i \in 1 .. n} <=>
           y \in acc.res \/ (y.k # "modify" /\ \E i \in 1 .. n : \E x \in X : y \in rs[i][x])
    BY <1>6, <1>8, <2>3
  <2> QED
    BY <2>2, <2>4
<1> QED
  BY <1>4, <1>7, <1>9, <1>10

LEMMA SequentialFinds ==
    ASSUME NEW p \in Policy, p.k \in Sequentials, \A i \in DOMAIN p.ps : Finds(p.ps[i])
    PROVE  Finds(p)
<1> SUFFICES ASSUME NEW acc \in Found, acc.pkts # {}
             PROVE  /\ QueriesInEval[p][acc].res = acc.res \union Met(Reached[p], acc.pkts)
                    /\ QueriesInEval[p][acc].pkts = Onward(Eval[p], acc.pkts)
  BY DEF Finds
<1> DEFINE qs == Parts(QueriesInEval, p)
           es == Parts(Eval, p)
           rs == Parts(Reached, p)
           X == acc.pkts
<1>1. p.k \in Combinators
  BY DEF Combinators
<1>2. PICK n \in Nat :
         /\ n # 0 /\ DOMAIN p.ps = 1 .. n /\ DOMAIN rs = 1 .. n
         /\ es \in Seq(Evaluations) /\ Len(es) = n
         /\ \A i \in 1 .. n : es[i] = Eval[p.ps[i]] /\ rs[i] = Reached[p.ps[i]]
  BY <1>1, Combination
<1>3. /\ qs \in Seq(Finders) /\ Len(qs) = n
      /\ \A i \in 1 .. n : qs[i] = QueriesInEval[p.ps[i]]
  <2>1. Subs(p) = p.ps /\ p.ps \in Seq(Policy)
    BY <1>1, PolicyClasses
  <2>2. QueriesInEval \in [Policy -> Finders]
    BY QueriesExact
  <2>3. qs \in [DOMAIN Subs(p) -> Finders]
    BY <2>2, PartsType
  <2>4. qs \in Seq(Finders) /\ DOMAIN qs = 1 .. Len(qs) /\ Len(qs) \in Nat /\ DOMAIN qs = DOMAIN Subs(p)
    BY <1>1, <2>3, PartsSequence
  <2>5. Len(qs) = n
    <3> DEFINE k == Len(qs)
    <3>1. 1 .. k = 1 .. n /\ k \in Nat /\ n # 0
      BY <1>2, <2>1, <2>4
    <3> HIDE DEF k
    <3>2. n \in 1 .. n
      BY <1>2
    <3>3. n \in 1 .. k /\ k # 0
      BY <3>1, <3>2
    <3>4. k \in 1 .. k
      BY <3>1, <3>3
    <3>5. k \in 1 .. n
      BY <3>1, <3>4
    <3>6. k = n
      BY <1>2, <3>1, <3>3, <3>5
    <3> QED
      BY <3>6 DEF k
  <2>6. \A i \in 1 .. n : qs[i] = QueriesInEval[p.ps[i]]
    BY <1>2, <2>1 DEF Parts
  <2> QED
    BY <2>4, <2>5, <2>6
<1>4. QueriesInEval[p][acc] = FindSequential(qs, acc) /\ X \subseteq Frames
  BY QueriesExact, QueriesKinds, FoundType
<1>5. \A x \in X : Eval[p][x] = EvalSequential(es, x) /\ Reached[p][x] = ReachedSequential(es, rs, x)
  BY <1>4, EvalExact, ReachedExact, EvalKinds, ReachedKinds
<1>6. \A i \in 1 .. n : \A a \in Found : a.pkts # {} =>
          /\ qs[i][a].res = a.res \union Met(rs[i], a.pkts)
          /\ qs[i][a].pkts = Onward(es[i], a.pkts)
  <2> SUFFICES ASSUME NEW i \in 1 .. n, NEW a \in Found, a.pkts # {}
               PROVE  /\ qs[i][a].res = a.res \union Met(rs[i], a.pkts)
                      /\ qs[i][a].pkts = Onward(es[i], a.pkts)
    OBVIOUS
  <2> DEFINE q == p.ps[i]
  <2>1. Finds(q)
    BY <1>2
  <2>2. qs[i] = QueriesInEval[q] /\ es[i] = Eval[q] /\ rs[i] = Reached[q]
    BY <1>2, <1>3
  <2> HIDE DEF q, qs, es, rs
  <2> QED
    BY <2>1, <2>2 DEF Finds
<1> HIDE DEF qs, es, rs
<1>7. PICK f \in [1 .. n -> Found] :
         /\ FindSequential(qs, acc) = f[n]
         /\ f[1] = qs[1][acc]
         /\ \A i \in 2 .. n : f[i] = FindNext(qs[i], f[i - 1])
  <2>1. qs \in Seq(Finders) /\ Len(qs) # 0 /\ Len(qs) = n
    BY <1>2, <1>3
  <2>2. \E f \in [1 .. Len(qs) -> Found] :
           /\ FindSequential(qs, acc) = f[Len(qs)]
           /\ f[1] = qs[1][acc]
           /\ \A i \in 2 .. Len(qs) : f[i] = FindNext(qs[i], f[i - 1])
    BY <2>1, FindSequentialUnfolds
  <2> QED
    BY <2>1, <2>2
<1> DEFINE W(i) == Wave(es, X, i)
           R(i) == UNION {Met(rs[j], W(j - 1)) : j \in 1 .. i}
<1>8. W(0) = X /\ \A i \in 1 .. n : W(i) = Onward(es[i], W(i - 1))
  BY <1>2, <1>4, WaveExact
<1> HIDE DEF W
<1>9. R(1) = Met(rs[1], X)
  <2>1. 1 .. 1 = {1} /\ 1 - 1 = 0
    OBVIOUS
  <2>2. R(1) = Met(rs[1], W(0))
    BY <2>1
  <2> QED
    BY <2>2, <1>8
<1>10. \A i \in 2 .. n : R(i) = R(i - 1) \union Met(rs[i], W(i - 1))
  <2> SUFFICES ASSUME NEW i \in 2 .. n PROVE R(i) = R(i - 1) \union Met(rs[i], W(i - 1))
    OBVIOUS
  <2>1. 1 .. i = (1 .. i - 1) \union {i}
    BY <1>2
  <2> QED
    BY <2>1
<1> HIDE DEF R
<1> DEFINE Good(i) == f[i].pkts = W(i) /\ f[i].res = acc.res \union R(i)
           T == {i \in 1 .. n : Good(i)}
<1>11. 1 \in T
  <2>1. 1 \in 1 .. n /\ 1 - 1 = 0
    BY <1>2
  <2>2. W(1) = Onward(es[1], X)
    BY <2>1, <1>8
  <2> QED
    BY <2>1, <2>2, <1>6, <1>7, <1>9
<1>12. ASSUME NEW i \in 2 .. n, i - 1 \in T
       PROVE  i \in T
  <2>1. i \in 1 .. n /\ i - 1 \in 1 .. n
    BY <1>2
  <2>2. Good(i - 1) /\ f[i - 1] \in Found /\ f[i] = FindNext(qs[i], f[i - 1])
    BY <2>1, <1>7, <1>12
  <2>3. W(i) = Onward(es[i], W(i - 1)) /\ R(i) = R(i - 1) \union Met(rs[i], W(i - 1))
    BY <2>1, <1>8, <1>10
  <2>4. CASE f[i - 1].pkts = {}
    <3>1. f[i] = f[i - 1] /\ W(i - 1) = {}
      BY <2>2, <2>4 DEF FindNext
    <3>2. Onward(es[i], {}) = {} /\ Met(rs[i], {}) = {}
      BY DEF Onward, Met
    <3>3. W(i) = {} /\ R(i) = R(i - 1)
      BY <2>3, <3>1, <3>2
    <3> QED
      BY <2>1, <2>2, <3>1, <3>3
  <2>5. CASE f[i - 1].pkts # {}
    <3>1. f[i] = qs[i][f[i - 1]]
      BY <2>2, <2>5 DEF FindNext
    <3>2. /\ f[i].res = f[i - 1].res \union Met(rs[i], W(i - 1))
          /\ f[i].pkts = Onward(es[i], W(i - 1))
      BY <1>6, <2>1, <2>2, <2>5, <3>1
    <3> QED
      BY <2>1, <2>2, <2>3, <3>2
  <2> QED
    BY <2>4, <2>5
<1>13. Good(n)
  <2> HIDE DEF T
  <2>1. \A i \in 1 .. n : i \in T
    BY <1>2, <1>11, <1>12, Climb
  <2>2. n \in 1 .. n
    BY <1>2
  <2> QED
    BY <2>1, <2>2 DEF T
<1>14. W(n) = Onward(Eval[p], X)
  <2>1. \A x \in X : Eval[p][x] = Through(es, x)[n]
    BY <1>2, <1>5 DEF EvalSequential
  <2> QED
    BY <2>1 DEF W, Wave, Onward
<1>15. R(n) = Met(Reached[p], X)
  <2> DEFINE A(x, i) == Through(es, x)[i]
  <2>1. \A x \in X : Reached[p][x] = UNION {UNION {rs[i][z] : z \in A(x, i - 1)} : i \in 1 .. n}
    BY <1>2, <1>5 DEF ReachedSequential
  <2>2. \A i : W(i) = UNION {A(x, i) : x \in X}
    BY DEF W, Wave
  <2> HIDE DEF A
  <2>3. \A y : y \in Met(Reached[p], X) <=>
           y.k # "modify" /\ \E x \in X : \E i \in 1 .. n : \E z \in A(x, i - 1) : y \in rs[i][z]
    BY <2>1 DEF Met
  <2>4. \A y, i : y \in Met(rs[i], W(i - 1)) <=>
           y.k # "modify" /\ \E x \in X : \E z \in A(x, i - 1) : y \in rs[i][z]
    BY <2>2 DEF Met
  <2>5. \A y : y \in R(n) <=> \E i \in 1 .. n : y \in Met(rs[i], W(i - 1))
    BY DEF R
  <2>6. \A y : y \in R(n) <=> y \in Met(Reached[p], X)
    BY <2>3, <2>4, <2>5, Zenon
  <2> QED
    BY <2>6
<1> QED
  BY <1>4, <1>7, <1>13, <1>14, <1>15

(* What queries_in_eval finds of any policy is what its evaluation reaches. *)
THEOREM QueriesFound ==
    ASSUME NEW p \in Policy
    PROVE  Finds(p)
<1> DEFINE T == {q \in Policy : Finds(q)}
<1>1. Leaves \subseteq T
  BY LeafFinds, PolicyKinds
<1>2. ASSUME NEW q \in Policy, q \notin Leaves, \A i \in DOMAIN q.ps : q.ps[i] \in T
      PROVE  q \in T
  <2>1. q.k \in Parallels \union Sequentials \union {"negate", "if"}
    BY <1>2, PolicyClasses DEF Combinators
  <2>2. \A i \in DOMAIN q.ps : Finds(q.ps[i])
    BY <1>2
  <2>3. CASE q.k \in Parallels
    BY <2>2, <2>3, ParallelFinds
  <2>4. CASE q.k \in Sequentials
    BY <2>2, <2>4, SequentialFinds
  <2>5. CASE q.k = "negate"
    <3> SUFFICES ASSUME NEW acc \in Found, acc.pkts # {}
                 PROVE  /\ QueriesInEval[q][acc].res = acc.res \union Met(Reached[q], acc.pkts)
                        /\ QueriesInEval[q][acc].pkts = Onward(Eval[q], acc.pkts)
      BY DEF Finds
    <3> DEFINE X == acc.pkts
    <3>1. QueriesInEval[q][acc] = FindPackets(q, acc) /\ X \subseteq Frames
      BY <2>5, QueriesExact, QueriesKinds, FoundType
    <3>2. UNION {Eval[q][x] : x \in X} = Onward(Eval[q], X) /\ Onward(Eval[q], X) \in SUBSET Frames
      BY <3>1, EvalExact DEF Onward, Evaluations
    <3>3. FindPackets(q, acc).res = acc.res /\ FindPackets(q, acc).pkts = Onward(Eval[q], X)
      BY <3>2, FoundType DEF FindPackets
    <3>4. \A x \in X : Reached[q][x] = {}
      BY <2>5, <3>1, ReachedExact, ReachedKinds
    <3>5. Met(Reached[q], X) = {}
      BY <3>4 DEF Met
    <3> QED
      BY <3>1, <3>3, <3>5
  <2>6. CASE q.k = "if"
    <3> SUFFICES ASSUME NEW acc \in Found, acc.pkts # {}
                 PROVE  /\ QueriesInEval[q][acc].res = acc.res \union Met(Reached[q], acc.pkts)
                        /\ QueriesInEval[q][acc].pkts = Onward(Eval[q], acc.pkts)
      BY DEF Finds
    <3> DEFINE d == q.ps[4]
    <3>1. 4 \in DOMAIN q.ps /\ Subs(q) = q.ps
      BY <2>6, PolicyClasses DEF Combinators
    <3>2. Parts(QueriesInEval, q)[4] = QueriesInEval[d]
      BY <3>1 DEF Parts
    <3>3. QueriesInEval[q][acc] = QueriesInEval[d][acc]
      BY <2>6, <3>2, QueriesExact, QueriesKinds
    <3>4. Finds(d) /\ acc.pkts \subseteq Frames
      BY <2>2, <3>1, FoundType
    <3> HIDE DEF d
    <3>5. \A x \in acc.pkts : Eval[d][x] = Eval[q][x] /\ Reached[d][x] = Reached[q][x]
      BY <2>6, <3>4, IfExact DEF d
    <3>6. Met(Reached[d], acc.pkts) = Met(Reached[q], acc.pkts)
      BY <3>5 DEF Met
    <3>7. Onward(Eval[d], acc.pkts) = Onward(Eval[q], acc.pkts)
      BY <3>5 DEF Onward
    <3> QED
      BY <3>3, <3>4, <3>6, <3>7 DEF Finds
  <2> QED
    BY <2>1, <2>3, <2>4, <2>5, <2>6
<1> HIDE DEF T
<1>3. Policy \subseteq T
  BY <1>1, <1>2, PolicyInduction
<1> QED
  BY <1>3 DEF T
-----------------------------------------------------------------------------
(* Programs *)

LEMMA MixedHas ==
    ASSUME NEW m \in Tests
    PROVE  m \in Mixed(Tests)
<1> DEFINE values == UNION {{n[f] : f \in DOMAIN n} : n \in Tests}
           maps   == UNION {[D -> values] : D \in SUBSET UNION {DOMAIN n : n \in Tests}}
<1>1. m = [f \in DOMAIN m |-> m[f]]
  BY PoliciesAssumption
<1>2. \A f \in DOMAIN m : m[f] \in values
  OBVIOUS
<1>3. DOMAIN m \in SUBSET UNION {DOMAIN n : n \in Tests}
  OBVIOUS
<1> HIDE DEF values
<1>4. m \in [DOMAIN m -> values]
  BY <1>1, <1>2
<1>5. m \in maps
  BY <1>3, <1>4
<1> QED
  BY <1>5 DEF Mixed, maps, values

LEMMA AtomsAreLeaves ==
    Atoms \union Constants \subseteq Leaves
  BY MixedHas DEF Atoms, Matches, Leaves

LEMMA SamplesAreFrames ==
    Samples \subseteq Frames
  BY PoliciesAssumption DEF Packets, Frames

(* Programs are policies, as deep as the bound lets them be. *)
LEMMA ProgramsArePolicies ==
    Spec => [](pol \in Policy)
<1>1. Init => pol \in Policy
  BY AtomsAreLeaves, PolicyKinds DEF Init
<1>2. pol \in Policy /\ [Next]_pol => (pol \in Policy)'
  BY DEF Next
<1> QED
  BY <1>1, <1>2, PTL DEF Spec

(* No packet waits in a bucket for the next one: handle_packet_in applies exactly
   the queries that its evaluation reached, of any program on any packet. *)
THEOREM QueriesAppliedHolds ==
    Spec => []QueriesApplied
<1>1. pol \in Policy => QueriesApplied
  <2> SUFFICES ASSUME pol \in Policy, NEW pkt \in Samples
               PROVE  QueriesInEval[pol][[res |-> {}, pkts |-> {pkt}]].res
                         = {x \in Reached[pol][pkt] : x.k # "modify"}
    BY DEF QueriesApplied
  <2> DEFINE acc == [res |-> {}, pkts |-> {pkt}]
  <2>1. pkt \in Frames
    BY SamplesAreFrames
  <2>2. acc \in Found /\ acc.res = {} /\ acc.pkts = {pkt}
    BY <2>1, FoundType
  <2> HIDE DEF acc
  <2>3. QueriesInEval[pol][acc].res = {} \union Met(Reached[pol], {pkt})
    BY <2>2, QueriesFound DEF Finds
  <2>4. Met(Reached[pol], {pkt}) = {x \in Reached[pol][pkt] : x.k # "modify"}
    BY DEF Met
  <2> QED
    BY <2>3, <2>4 DEF acc
<1> QED
  BY <1>1, ProgramsArePolicies, PTL
-----------------------------------------------------------------------------
(* Tests and actions of compiled policies *)

LEMMA MixedIn ==
    ASSUME NEW S, NEW m
    PROVE  m \in Mixed(S) <=> /\ m = [f \in DOMAIN m |-> m[f]]
                              /\ \A f \in DOMAIN m : \E n \in S : f \in DOMAIN n /\ m[f] = n[f]
<1> DEFINE values == UNION {{n[f] : f \in DOMAIN n} : n \in S}
           maps   == UNION {[D -> values] : D \in SUBSET UNION {DOMAIN n : n \in S}}
<1>1. Mixed(S) = {k \in maps : \A f \in DOMAIN k : \E n \in S : f \in DOMAIN n /\ k[f] = n[f]}
  BY DEF Mixed
<1>2. ASSUME m = [f \in DOMAIN m |-> m[f]],
             \A f \in DOMAIN m : \E n \in S : f \in DOMAIN n /\ m[f] = n[f]
      PROVE  m \in maps
  <2>1. \A f \in DOMAIN m : m[f] \in values
    BY <1>2
  <2>2. DOMAIN m \in SUBSET UNION {DOMAIN n : n \in S}
    BY <1>2
  <2> HIDE DEF values
  <2>3. m \in [DOMAIN m -> values]
    BY <1>2, <2>1
  <2> QED
    BY <2>2, <2>3
<1>3. ASSUME m \in maps PROVE m = [f \in DOMAIN m |-> m[f]]
  <2> HIDE DEF values
  <2>1. PICK D : m \in [D -> values]
    BY <1>3
  <2> QED
    BY <2>1
<1> HIDE DEF maps
<1> QED
  BY <1>1, <1>2, <1>3

LEMMA MixedTests ==
    /\ Mixed(Tests) \subseteq MatchOf /\ Identity \in Mixed(Tests)
    /\ \A m, n \in Mixed(Tests) : Meet(m, n) \in Mixed(Tests)
    /\ \A m \in Mixed(Tests) : \A a : Commuted(a, m) \in Mixed(Tests)
<1>1. ASSUME NEW m \in Mixed(Tests) PROVE m \in MatchOf
  <2>1. /\ m = [f \in DOMAIN m |-> m[f]]
        /\ \A f \in DOMAIN m : \E n \in Tests : f \in DOMAIN n /\ m[f] = n[f]
    BY MixedIn
  <2>2. \A n \in Tests : \A f \in DOMAIN n : n[f] \in Patterns /\ f \in Fields
    BY PoliciesAssumption
  <2>3. \A f \in DOMAIN m : m[f] \in Patterns /\ f \in Fields
    BY <2>1, <2>2
  <2>4. m \in [DOMAIN m -> Patterns] /\ DOMAIN m \in SUBSET Fields
    BY <2>1, <2>3
  <2> QED
    BY <2>4 DEF MatchOf
<1>2. Identity \in Mixed(Tests)
  <2>1. Identity = [f \in DOMAIN Identity |-> Identity[f]] /\ DOMAIN Identity = {}
    BY DEF Identity
  <2> QED
    BY <2>1, MixedIn
<1>3. ASSUME NEW m \in Mixed(Tests), NEW n \in Mixed(Tests) PROVE Meet(m, n) \in Mixed(Tests)
  <2> DEFINE e == Meet(m, n)
  <2>1. e = [f \in DOMAIN e |-> e[f]] /\ DOMAIN e = DOMAIN m \union DOMAIN n
    BY DEF Meet
  <2>2. \A f \in DOMAIN e : (f \in DOMAIN m /\ e[f] = m[f]) \/ (f \in DOMAIN n /\ e[f] = n[f])
    BY DEF Meet
  <2> HIDE DEF e
  <2>3. /\ \A f \in DOMAIN m : \E k \in Tests : f \in DOMAIN k /\ m[f] = k[f]
        /\ \A f \in DOMAIN n : \E k \in Tests : f \in DOMAIN k /\ n[f] = k[f]
    BY MixedIn
  <2>4. \A f \in DOMAIN e : \E k \in Tests : f \in DOMAIN k /\ e[f] = k[f]
    BY <2>2, <2>3
  <2>5. e \in Mixed(Tests)
    BY <2>1, <2>4, MixedIn
  <2> QED
    BY <2>5 DEF e
<1>4. ASSUME NEW m \in Mixed(Tests), NEW a PROVE Commuted(a, m) \in Mixed(Tests)
  <2> DEFINE e == Commuted(a, m)
  <2>1. e = [f \in DOMAIN e |-> e[f]] /\ \A f \in DOMAIN e : f \in DOMAIN m /\ e[f] = m[f]
    BY DEF Commuted
  <2> HIDE DEF e
  <2>2. \A f \in DOMAIN m : \E k \in Tests : f \in DOMAIN k /\ m[f] = k[f]
    BY MixedIn
  <2>3. e \in Mixed(Tests)
    BY <2>1, <2>2, MixedIn
  <2> QED
    BY <2>3 DEF e
<1> QED
  BY <1>1, <1>2, <1>3, <1>4

LEMMA MixedMods ==
    /\ Mods \subseteq Mixed(Mods) /\ Mixed(Mods) \subseteq ModOf
    /\ \A a, b \in Mixed(Mods) : Merged(a, b) \in Mixed(Mods)
    /\ ModsExact => \A a \in Mixed(Mods) : Compilable(a) /\ \A m \in Mixed(Tests) : Exact(a, m)
<1>1. ASSUME NEW a \in Mixed(Mods) PROVE a \in ModOf
  <2>1. /\ a = [f \in DOMAIN a |-> a[f]]
        /\ \A f \in DOMAIN a : \E n \in Mods : f \in DOMAIN n /\ a[f] = n[f]
    BY MixedIn
  <2>2. \A n \in Mods : \A f \in DOMAIN n : n[f] \in Values \union Fields /\ f \in Fields
    BY PoliciesAssumption
  <2>3. \A f \in DOMAIN a : a[f] \in Values \union Fields /\ f \in Fields
    BY <2>1, <2>2
  <2>4. a \in [DOMAIN a -> Values \union Fields] /\ DOMAIN a \in SUBSET Fields
    BY <2>1, <2>3
  <2> QED
    BY <2>4 DEF ModOf
<1>2. ASSUME NEW a \in Mods PROVE a \in Mixed(Mods)
  <2>1. a = [f \in DOMAIN a |-> a[f]]
    BY PoliciesAssumption
  <2> QED
    BY <2>1, MixedIn
<1>3. ASSUME NEW a \in Mixed(Mods), NEW b \in Mixed(Mods) PROVE Merged(a, b) \in Mixed(Mods)
  <2> DEFINE e == Merged(a, b)
  <2>1. e = [f \in DOMAIN e |-> e[f]] /\ DOMAIN e = DOMAIN a \union DOMAIN b
    BY DEF Merged
  <2>2. \A f \in DOMAIN e : (f \in DOMAIN a /\ e[f] = a[f]) \/ (f \in DOMAIN b /\ e[f] = b[f])
    BY DEF Merged
  <2> HIDE DEF e
  <2>3. /\ \A f \in DOMAIN a : \E k \in Mods : f \in DOMAIN k /\ a[f] = k[f]
        /\ \A f \in DOMAIN b : \E k \in Mods : f \in DOMAIN k /\ b[f] = k[f]
    BY MixedIn
  <2>4. \A f \in DOMAIN e : \E k \in Mods : f \in DOMAIN k /\ e[f] = k[f]
    BY <2>2, <2>3
  <2>5. e \in Mixed(Mods)
    BY <2>1, <2>4, MixedIn
  <2> QED
    BY <2>5 DEF e
<1>4. ASSUME ModsExact, NEW a \in Mixed(Mods)
      PROVE  Compilable(a) /\ \A m \in Mixed(Tests) : Exact(a, m)
  <2>1. \A f \in DOMAIN a : \E n \in Mods : f \in DOMAIN n /\ a[f] = n[f]
    BY MixedIn
  <2>2. Compilable(a)
    BY <1>4, <2>1 DEF ModsExact, Compilable
  <2>3. ASSUME NEW m \in Mixed(Tests), NEW f \in DOMAIN a \intersect DOMAIN m, a[f] \in m[f]
        PROVE  m[f] = {a[f]}
    <3>1. PICK n \in Mods : f \in DOMAIN n /\ a[f] = n[f]
      BY <2>1
    <3>2. PICK k \in Tests : f \in DOMAIN k /\ m[f] = k[f]
      BY MixedIn
    <3>3. Exact(n, k)
      BY <1>4 DEF ModsExact
    <3> QED
      BY <2>3, <3>1, <3>2, <3>3 DEF Exact
  <2> QED
    BY <2>2, <2>3 DEF Exact
<1> QED
  BY <1>1, <1>2, <1>3, <1>4

\* The actions of compiled policies.
Deeds == {True, Drop, Controller} \union {Modify(a) : a \in Mixed(Mods)}
            \union {[k |-> "count", b |-> b] : b \in Counters}

LEMMA DeedsExact ==
    /\ Deeds \subseteq Actions /\ Drop \in Deeds /\ True \in Deeds /\ Controller \in Deeds
    /\ Seq(Deeds) \subseteq Seq(Actions)
    /\ \A as \in Seq(Deeds) : Range(as) \subseteq Deeds
    /\ \A a \in Deeds : a.k = "modify" => a.a \in Mixed(Mods)
<1>1. Deeds \subseteq Actions
  BY MixedMods DEF Deeds, Actions
<1>2. \A as \in Seq(Deeds) : Range(as) \subseteq Deeds
  <2> SUFFICES ASSUME NEW as \in Seq(Deeds), NEW i \in DOMAIN as PROVE as[i] \in Deeds
    BY DEF Range
  <2> QED
    BY LenProperties, ElementOfSeq
<1>3. \A a \in Deeds : a.k = "modify" => a.a \in Mixed(Mods)
  BY DEF Deeds, True, Drop, Controller, Modify
<1>4. Drop \in Deeds /\ True \in Deeds /\ Controller \in Deeds
  BY DEF Deeds
<1> QED
  BY <1>1, <1>2, <1>3, <1>4

LEMMA DeedsSuited ==
    ASSUME ModsExact
    PROVE  Suited(Mixed(Tests), Seq(Deeds))
<1> DEFINE M == Mixed(Tests)
           As == Seq(Deeds)
<1>1. M \subseteq MatchOf /\ Identity \in M /\ \A m, n \in M : ~Disjoint(m, n) => Meet(m, n) \in M
  BY MixedTests
<1>2. As \subseteq Seq(Actions) /\ <<Drop>> \in As
  BY DeedsExact, SingleDecides
<1>3. ASSUME NEW as \in As, NEW bs \in As PROVE JoinActions(as, bs) \in As
  BY DeedsExact, JoinLive
<1>4. ASSUME NEW act \in Deeds, NEW bs \in As PROVE SequenceActions(act, bs) \in As
  <2>1. CASE act.k = "identity"
    BY <2>1 DEF SequenceActions
  <2>2. CASE act.k = "modify"
    <3> DEFINE Next2(a2) == CASE a2.k = "identity" -> act
                              [] a2.k = "modify"   -> Modify(Merged(act.a, a2.a))
                              [] OTHER             -> a2
    <3>1. SequenceActions(act, bs) = [i \in DOMAIN bs |-> Next2(bs[i])]
      BY <2>2 DEF SequenceActions
    <3>2. ASSUME NEW a2 \in Deeds PROVE Next2(a2) \in Deeds
      <4>1. CASE a2.k = "identity"
        BY <4>1
      <4>2. CASE a2.k = "modify"
        <5>1. Merged(act.a, a2.a) \in Mixed(Mods)
          BY <2>2, <4>2, MixedMods, DeedsExact
        <5> QED
          BY <4>2, <5>1 DEF Deeds
      <4>3. CASE a2.k # "identity" /\ a2.k # "modify"
        BY <4>3
      <4> QED
        BY <4>1, <4>2, <4>3
    <3> HIDE DEF Next2
    <3> DEFINE n == Len(bs)
    <3>3. n \in Nat /\ DOMAIN bs = 1 .. n /\ \A i \in 1 .. n : bs[i] \in Deeds
      BY LenProperties, ElementOfSeq
    <3> HIDE DEF n
    <3>4. SequenceActions(act, bs) \in [1 .. n -> Deeds]
      BY <3>1, <3>2, <3>3
    <3> QED
      BY <3>3, <3>4, AsSequence
  <2>3. CASE act.k # "identity" /\ act.k # "modify"
    <3>1. SequenceActions(act, bs) = <<act>>
      BY <2>3 DEF SequenceActions
    <3> QED
      BY <3>1, SingleDecides
  <2> QED
    BY <2>1, <2>2, <2>3
<1>5. ASSUME NEW act \in Deeds, act.k = "modify"
      PROVE  Compilable(act.a) /\ \A m \in M : Exact(act.a, m) /\ Commuted(act.a, m) \in M
  BY <1>5, DeedsExact, MixedMods, MixedTests
<1>6. \A as \in As : Range(as) \subseteq Deeds
  BY DeedsExact
<1> QED
  BY <1>1, <1>2, <1>3, <1>4, <1>5, <1>6 DEF Suited

LEMMA VerdictsSuited ==
    Suited(Mixed(Tests), Verdicts)
<1> DEFINE M == Mixed(Tests)
<1>1. M \subseteq MatchOf /\ Identity \in M /\ \A m, n \in M : ~Disjoint(m, n) => Meet(m, n) \in M
  BY MixedTests
<1>2. Verdicts \subseteq Seq(Actions) /\ <<Drop>> \in Verdicts
  <2>1. {True, Drop} \subseteq Actions
    BY DEF Actions
  <2>2. Seq({True, Drop}) \subseteq Seq(Actions)
    BY <2>1
  <2>3. <<Drop>> \in Seq({True, Drop}) /\ Range(<<Drop>>) = {Drop}
    BY SingleDecides
  <2> QED
    BY <2>2, <2>3 DEF Verdicts
<1>3. True # Drop /\ True.k = "identity" /\ Drop.k = "drop"
  BY DEF True, Drop
<1>4. ASSUME NEW as \in Verdicts
      PROVE  Range(as) \in {{True}, {Drop}} /\ as \in Seq({True, Drop})
  BY DEF Verdicts
<1>5. ASSUME NEW as \in Verdicts, NEW bs \in Verdicts PROVE JoinActions(as, bs) \in Verdicts
  <2> DEFINE j == JoinActions(as, bs)
             A == {True, Drop}
  <2>0. Drop \in A /\ as \in Seq(A) /\ bs \in Seq(A)
    BY <1>4
  <2> HIDE DEF A
  <2>a. /\ j \in Seq(A) /\ j # <<>>
        /\ Drop \in Range(j) => Range(j) = {Drop}
    BY <2>0, JoinLive
  <2>1. j \in Seq({True, Drop}) /\ j # <<>>
    BY <2>a DEF A
  <2>2. Drop \in Range(j) => Live(j) = {}
    <3> HIDE DEF j
    <3> QED
      BY <2>a DEF Live
  <2> HIDE DEF j
  <2>3. Range(j) \subseteq {True, Drop} /\ Range(j) # {}
    <3>1. DOMAIN j = 1 .. Len(j) /\ Len(j) \in Nat /\ Len(j) # 0 /\ \A i \in DOMAIN j : j[i] \in {True, Drop}
      BY <2>1, LenProperties, ElementOfSeq, EmptySeq
    <3>2. 1 \in 1 .. Len(j)
      BY <3>1
    <3> QED
      BY <3>1, <3>2 DEF Range
  <2>4. Range(j) \in {{True}, {Drop}}
    BY <2>2, <2>3, <1>3 DEF Live
  <2>5. j \in Verdicts
    BY <2>1, <2>4 DEF Verdicts
  <2> QED
    BY <2>5 DEF j
<1>6. ASSUME NEW act \in {True, Drop}, NEW bs \in Verdicts PROVE SequenceActions(act, bs) \in Verdicts
  <2>1. SequenceActions(True, bs) = bs /\ SequenceActions(Drop, bs) = <<Drop>>
    BY <1>3 DEF SequenceActions
  <2> QED
    BY <2>1, <1>2
<1>7. \A as \in Verdicts : Range(as) \subseteq {True, Drop} /\ \A a \in Range(as) : a.k # "modify"
  BY <1>3, <1>4
<1> QED
  BY <1>1, <1>2, <1>5, <1>6, <1>7 DEF Suited
-----------------------------------------------------------------------------
(* Compiled policies *)

Classifiers == Seq(Rules(Mixed(Tests), Seq(Deeds)))
Filters     == Seq(Rules(Mixed(Tests), Verdicts))

LEMMA VerdictsAreDeeds ==
    Filters \subseteq Classifiers
<1>1. Verdicts \subseteq Seq(Deeds)
  <2>1. {True, Drop} \subseteq Deeds
    BY DeedsExact
  <2> QED
    BY <2>1 DEF Verdicts
<1>2. Rules(Mixed(Tests), Verdicts) \subseteq Rules(Mixed(Tests), Seq(Deeds))
  BY <1>1 DEF Rules
<1> QED
  BY <1>2 DEF Filters, Classifiers

LEMMA CompileKinds ==
    ASSUME NEW p, NEW cs
    PROVE  /\ p.k = "match" => CompileOf(p, cs) = CompileMatch(p)
           /\ p.k = "modify" => CompileOf(p, cs) = CompileModify(p)
           /\ p.k = "bucket" => CompileOf(p, cs) = CompileBucket(p)
           /\ p.k = "negate" => CompileOf(p, cs) = NegateRules(cs[1])
           /\ p.k \in Parallels => CompileOf(p, cs) = CompileParallel(cs)
           /\ p.k \in Sequentials => CompileOf(p, cs) = CompileSequential(cs)
           /\ p.k = "if" => CompileOf(p, cs) = cs[4]
           /\ p.k \in {"identity", "drop", "count"} => CompileOf(p, cs) = All(<<p>>)
<1>1. p.k = "match" => CompileOf(p, cs) = CompileMatch(p)
  BY DEF CompileOf, Parallels, Sequentials
<1>2. p.k = "modify" => CompileOf(p, cs) = CompileModify(p)
  BY DEF CompileOf, Parallels, Sequentials
<1>3. p.k = "bucket" => CompileOf(p, cs) = CompileBucket(p)
  BY DEF CompileOf, Parallels, Sequentials
<1>4. p.k = "negate" => CompileOf(p, cs) = NegateRules(cs[1])
  BY DEF CompileOf, Parallels, Sequentials
<1>5. p.k \in Parallels => CompileOf(p, cs) = CompileParallel(cs)
  BY DEF CompileOf, Parallels, Sequentials
<1>6. p.k \in Sequentials => CompileOf(p, cs) = CompileSequential(cs)
  BY DEF CompileOf, Parallels, Sequentials
<1>7. p.k = "if" => CompileOf(p, cs) = cs[4]
  BY DEF CompileOf, Parallels, Sequentials
<1>8. p.k \in {"identity", "drop", "count"} => CompileOf(p, cs) = All(<<p>>)
  BY DEF CompileOf, Parallels, Sequentials
<1> QED
  BY <1>1, <1>2, <1>3, <1>4, <1>5, <1>6, <1>7, <1>8

\* A classifier of one rule for all packets.
LEMMA AllDecides ==
    ASSUME NEW M, Identity \in M, NEW As, NEW as \in As
    PROVE  All(as) \in Seq(Rules(M, As)) /\ \A pkt : Decided(All(as), pkt, as)
<1> DEFINE r == Rule(Identity, as)
<1>1. r \in Rules(M, As) /\ r.match = Identity /\ r.actions = as
  BY DEF Rules, Rule
<1>2. \A pkt : Sat(Identity, pkt)
  BY DEF Sat, Identity
<1> HIDE DEF r
<1>3. <<r>> \in Seq(Rules(M, As)) /\ \A pkt : Decided(<<r>>, pkt, as)
  BY <1>1, <1>2, SingleDecides
<1> QED
  BY <1>3 DEF All, r

LEMMA MatchCompiles ==
    ASSUME NEW p \in Policy, p.k = "match"
    PROVE  /\ CompileMatch(p) \in Filters
           /\ \A pkt : Decided(CompileMatch(p), pkt, IF Sat(p.m, pkt) THEN <<True>> ELSE <<Drop>>)
<1>1. p \in Leaves
  BY PolicyClasses DEF Combinators, Parallels, Sequentials
<1>2. PICK m \in Tests \union Mixed(Tests) : p = Match(m)
  BY <1>1 DEF Leaves, Constants, Others, True, Drop, Modify
<1>3. p.m \in Mixed(Tests)
  BY <1>2, MixedHas DEF Match
<1>4. <<True>> \in Verdicts
  <2>1. <<True>> \in Seq({True, Drop}) /\ Range(<<True>>) = {True}
    BY SingleDecides
  <2> QED
    BY <2>1 DEF Verdicts
<1> DEFINE r == Rule(p.m, <<True>>)
           R == Rules(Mixed(Tests), Verdicts)
<1>5. r \in R /\ r.match = p.m /\ r.actions = <<True>>
  BY <1>3, <1>4 DEF Rules, Rule
<1>6. Nothing \in Seq(R) /\ \A pkt : Decided(Nothing, pkt, <<Drop>>)
  BY VerdictsSuited, NothingDecides
<1>7. CompileMatch(p) = <<r>> \o Nothing
  BY DEF CompileMatch
<1> HIDE DEF r, R
<1>8. <<r>> \in Seq(R)
  BY <1>5, SingleDecides
<1>9. <<r>> \o Nothing \in Seq(R)
  BY <1>6, <1>8, ConcatProperties
<1>10. ASSUME NEW pkt
       PROVE  Decided(<<r>> \o Nothing, pkt, IF Sat(p.m, pkt) THEN <<True>> ELSE <<Drop>>)
  <2>1. Silent(<<r>>, pkt) <=> ~Sat(p.m, pkt)
    BY <1>5, SingleDecides
  <2>2. Sat(p.m, pkt) => Decided(<<r>>, pkt, <<True>>)
    BY <1>5, SingleDecides
  <2>3. \A as : Decided(<<r>> \o Nothing, pkt, as) <=>
            Decided(<<r>>, pkt, as) \/ (Silent(<<r>>, pkt) /\ Decided(Nothing, pkt, as))
    BY <1>6, <1>8, ConcatDecides
  <2> QED
    BY <1>6, <2>1, <2>2, <2>3
<1> QED
  BY <1>7, <1>9, <1>10 DEF R, Filters

LEMMA NegateType ==
    ASSUME NEW c \in Classifiers
    PROVE  NegateRules(c) \in Classifiers
<1> DEFINE R == Rules(Mixed(Tests), Seq(Deeds))
           d == NegateRules(c)
<1>1. Len(c) \in Nat /\ DOMAIN c = 1 .. Len(c) /\ \A i \in DOMAIN c : c[i] \in R
  BY LenProperties, ElementOfSeq DEF Classifiers
<1>2. <<Drop>> \in Seq(Deeds) /\ <<True>> \in Seq(Deeds)
  BY DeedsExact, SingleDecides
<1>3. ASSUME NEW i \in DOMAIN c
      PROVE  Rule(c[i].match, IF c[i].actions[1] = True THEN <<Drop>> ELSE <<True>>) \in R
  BY <1>1, <1>2 DEF Rules, Rule
<1>4. d = [i \in DOMAIN c |-> Rule(c[i].match, IF c[i].actions[1] = True THEN <<Drop>> ELSE <<True>>)]
  BY DEF NegateRules
<1> HIDE DEF d, R
<1>5. d \in [1 .. Len(c) -> R]
  BY <1>1, <1>3, <1>4
<1> QED
  BY <1>1, <1>5, AsSequence DEF d, R, Classifiers

LEMMA SequenceAllType ==
    ASSUME NEW M, NEW As, Suited(M, As), NEW cs \in Seq(Seq(Rules(M, As))), Len(cs) # 0
    PROVE  SequenceAll(cs) \in Seq(Rules(M, As))
<1> DEFINE N == Len(cs)
           Q == Seq(Rules(M, As))
<1>1. N \in Nat /\ N # 0 /\ \A n \in 1 .. N : cs[n] \in Q
  BY LenProperties, ElementOfSeq
<1>2. PICK f : /\ SequenceAll(cs) = f[N]
               /\ f[1] = cs[1]
               /\ \A n \in 2 .. N : f[n] = SequenceClassifiers(f[n - 1], cs[n])
  BY SequenceAllUnfolds
<1> HIDE DEF N
<1> DEFINE T == {n \in 1 .. N : f[n] \in Q}
<1>3. 1 \in 1 .. N /\ N \in 1 .. N
  BY <1>1
<1>4. 1 \in T
  BY <1>1, <1>2, <1>3
<1>5. ASSUME NEW n \in 2 .. N, n - 1 \in T PROVE n \in T
  <2>1. n \in 1 .. N /\ f[n - 1] \in Q /\ cs[n] \in Q
    BY <1>1, <1>5
  <2>2. SequenceClassifiers(f[n - 1], cs[n]) \in Q
    BY <2>1, SequenceExact
  <2> QED
    BY <1>2, <2>1, <2>2
<1> HIDE DEF T
<1>6. \A n \in 1 .. N : n \in T
  BY <1>1, <1>4, <1>5, Climb
<1> QED
  BY <1>2, <1>3, <1>6 DEF T

LEMMA CompileOfType ==
    ASSUME ModsExact, NEW p \in Policy, NEW v \in [DOMAIN Subs(p) -> Classifiers]
    PROVE  CompileOf(p, v) \in Classifiers
<1>0. /\ Identity \in Mixed(Tests) /\ Suited(Mixed(Tests), Seq(Deeds))
      /\ \A a \in Deeds : <<a>> \in Seq(Deeds)
  BY MixedTests, DeedsSuited, SingleDecides
<1>a. \A a \in Deeds : All(<<a>>) \in Classifiers
  BY <1>0, AllDecides DEF Classifiers
<1>1. CASE p.k = "match"
  BY <1>1, MatchCompiles, VerdictsAreDeeds, CompileKinds
<1>2. CASE p.k = "modify"
  <2>1. p.a \in Mods \union Tags /\ p = Modify(p.a)
    BY <1>2, LeafModify
  <2> DEFINE d == IF HasVirtualHeaders(p.a) THEN Controller ELSE p
  <2>2. d \in Deeds
    BY <2>1, MixedMods, DeedsExact DEF HasVirtualHeaders, Deeds
  <2>3. CompileModify(p) = All(<<d>>)
    BY DEF CompileModify
  <2> HIDE DEF d
  <2> QED
    BY <1>2, <1>a, <2>2, <2>3, CompileKinds
<1>3. CASE p.k = "bucket"
  <2>1. All(<<Controller>>) \in Classifiers
    BY <1>a, DeedsExact
  <2> QED
    BY <1>3, <2>1, CompileKinds DEF CompileBucket
<1>4. CASE p.k \in {"identity", "drop", "count"}
  <2>1. p \in Leaves
    BY <1>4, PolicyClasses DEF Combinators, Parallels, Sequentials
  <2>2. p \in Deeds
    BY <1>4, <2>1 DEF Leaves, Constants, Others, True, Drop, Match, Modify, Deeds
  <2> QED
    BY <1>4, <1>a, <2>2, CompileKinds
<1>5. CASE p.k \in Combinators
  <2>1. v \in Seq(Classifiers) /\ Len(v) # 0 /\ 1 \in DOMAIN v /\ \A i \in DOMAIN v : v[i] \in Classifiers
    BY <1>5, PartsSequence
  <2>2. p.k \in Parallels \union Sequentials \union {"negate", "if"}
    BY <1>5 DEF Combinators
  <2>3. CASE p.k \in Parallels
    <3>1. AddAll(v) \in Classifiers
      BY <1>0, <2>1, AddAllExact DEF Classifiers
    <3> QED
      BY <2>3, <3>1, CompileKinds DEF CompileParallel
  <2>4. CASE p.k \in Sequentials
    <3>1. SequenceAll(v) \in Classifiers
      BY <1>0, <2>1, SequenceAllType DEF Classifiers
    <3> QED
      BY <2>4, <3>1, CompileKinds DEF CompileSequential
  <2>5. CASE p.k = "negate"
    BY <2>1, <2>5, NegateType, CompileKinds
  <2>6. CASE p.k = "if"
    <3>1. 4 \in DOMAIN v
      BY <2>6, <1>5, PartsSequence
    <3> QED
      BY <2>1, <2>6, <3>1, CompileKinds
  <2> QED
    BY <2>2, <2>3, <2>4, <2>5, <2>6
<1> QED
  BY <1>1, <1>2, <1>3, <1>4, <1>5, PolicyClasses

LEMMA CompileExact ==
    ASSUME ModsExact
    PROVE  /\ Compile \in [Policy -> Classifiers]
           /\ \A p \in Policy : Compile[p] = CompileOf(p, Parts(Compile, p))
<1> DEFINE R(h) == h = [p \in Policy |-> CompileOf(p, [i \in DOMAIN Subs(p) |-> h[Subs(p)[i]]])]
           G(h) == [p \in Policy |-> CompileOf(p, Parts(h, p))]
           step == [p \in Policy |-> [v \in [DOMAIN Subs(p) -> Classifiers] |-> CompileOf(p, v)]]
           S == Classifiers
<1>1. ASSUME NEW p \in Policy, NEW v \in [DOMAIN Subs(p) -> S]
      PROVE  step[p][v] = CompileOf(p, v) /\ step[p][v] \in S
  <2>1. step[p][v] = CompileOf(p, v)
    OBVIOUS
  <2> QED
    BY <2>1, CompileOfType
<1> HIDE DEF step, S
<1>2. PICK f \in [Policy -> S] : Obeys(f, step)
  BY <1>1, PolicyRecursion
<1>3. \A p \in Policy : f[p] = CompileOf(p, Parts(f, p))
  BY <1>1, <1>2, PartsType DEF Obeys
<1>4. f = G(f)
  <2>1. f = [p \in Policy |-> f[p]]
    BY <1>2
  <2> QED
    BY <1>3, <2>1
<1>5. R(f)
  BY <1>4 DEF Parts
<1>6. Compile = CHOOSE h : R(h)
  BY DEF Compile
<1>7. R(Compile)
  BY <1>5, <1>6
<1>8. Compile = G(Compile)
  BY <1>7 DEF Parts
<1> DEFINE h == Compile
<1> HIDE DEF h
<1>9. h = [p \in Policy |-> CompileOf(p, Parts(h, p))]
  BY <1>8 DEF h
<1> DEFINE T == {p \in Policy : h[p] \in Classifiers}
<1>10. Policy \subseteq T
  <2>1. ASSUME NEW p \in Policy, Parts(h, p) \in [DOMAIN Subs(p) -> Classifiers]
        PROVE  p \in T
    <3>1. h[p] = CompileOf(p, Parts(h, p))
      BY <1>9
    <3>2. CompileOf(p, Parts(h, p)) \in Classifiers
      BY <2>1, CompileOfType
    <3> QED
      BY <3>1, <3>2
  <2>2. Leaves \subseteq T
    <3> SUFFICES ASSUME NEW p \in Leaves PROVE p \in T
      OBVIOUS
    <3>1. p \in Policy /\ Subs(p) = <<>>
      BY PolicyKinds, LeafKinds
    <3>2. Parts(h, p) \in [DOMAIN Subs(p) -> Classifiers]
      BY <3>1 DEF Parts
    <3> QED
      BY <2>1, <3>1, <3>2
  <2>3. ASSUME NEW p \in Policy, p \notin Leaves, \A i \in DOMAIN p.ps : p.ps[i] \in T
        PROVE  p \in T
    <3>1. Subs(p) = p.ps
      BY <2>3, PolicyClasses
    <3>2. \A i \in DOMAIN Subs(p) : h[Subs(p)[i]] \in Classifiers
      BY <2>3, <3>1
    <3>3. Parts(h, p) \in [DOMAIN Subs(p) -> Classifiers]
      BY <3>2 DEF Parts
    <3> QED
      BY <2>1, <3>3
  <2> HIDE DEF T
  <2> QED
    BY <2>2, <2>3, PolicyInduction
<1>11. h \in [Policy -> Classifiers]
  BY <1>9, <1>10
<1>12. \A p \in Policy : h[p] = CompileOf(p, Parts(h, p))
  BY <1>9
<1> QED
  BY <1>11, <1>12 DEF h

LEMMA FilterCompiles ==
    ASSUME ModsExact, NEW p \in Policy, IsFilter(p)
    PROVE  Compile[p] \in Filters
<1> DEFINE T == {q \in Policy : IsFilter(q) => Compile[q] \in Filters}
<1>0. Suited(Mixed(Tests), Verdicts) /\ Identity \in Mixed(Tests)
  BY VerdictsSuited, MixedTests
<1>1. ASSUME NEW q \in Leaves
      PROVE  q \in T
  <2>1. q \in Policy /\ q.k \notin Combinators
    BY PolicyKinds, LeafKinds
  <2> SUFFICES ASSUME IsFilter(q) PROVE Compile[q] \in Filters
    BY <2>1
  <2>2. q.k \in {"match", "identity", "drop"}
    BY <2>1 DEF IsFilter, Combinators, Parallels, Sequentials
  <2>3. Compile[q] = CompileOf(q, Parts(Compile, q))
    BY <2>1, CompileExact
  <2>4. CASE q.k = "match"
    BY <2>1, <2>3, <2>4, MatchCompiles, CompileKinds
  <2>5. CASE q.k \in {"identity", "drop"}
    <3>1. q \in {True, Drop}
      BY <2>5 DEF Leaves, Constants, Others, True, Drop, Match, Modify
    <3>2. <<q>> \in Seq({True, Drop}) /\ Range(<<q>>) = {q}
      BY <3>1, SingleDecides
    <3>3. <<q>> \in Verdicts
      BY <3>1, <3>2 DEF Verdicts
    <3>4. All(<<q>>) \in Filters
      BY <3>3, <1>0, AllDecides DEF Filters
    <3> QED
      BY <2>3, <2>5, <3>4, CompileKinds
  <2> QED
    BY <2>2, <2>4, <2>5
<1>2. ASSUME NEW q \in Policy, q \notin Leaves, \A i \in DOMAIN q.ps : q.ps[i] \in T
      PROVE  q \in T
  <2> SUFFICES ASSUME IsFilter(q) PROVE Compile[q] \in Filters
    OBVIOUS
  <2>1. q.k \in Combinators /\ WellBuilt(q) /\ Subs(q) = q.ps
    BY <1>2, PolicyClasses
  <2>2. q.k \in {"union", "intersection", "negate"}
    BY <2>1 DEF IsFilter, Combinators, Parallels, Sequentials
  <2>3. \A i \in DOMAIN q.ps : Compile[q.ps[i]] \in Filters
    BY <1>2, <2>1, <2>2 DEF WellBuilt
  <2> DEFINE cs == Parts(Compile, q)
  <2>4. cs \in [DOMAIN Subs(q) -> Filters]
    BY <2>1, <2>3 DEF Parts
  <2>5. Compile[q] = CompileOf(q, cs)
    BY CompileExact
  <2> HIDE DEF cs
  <2>6. cs \in Seq(Filters) /\ Len(cs) # 0 /\ 1 \in DOMAIN cs /\ \A i \in DOMAIN cs : cs[i] \in Filters
    BY <2>1, <2>4, PartsSequence
  <2>7. CASE q.k = "union"
    <3>1. AddAll(cs) \in Filters
      BY <1>0, <2>6, AddAllExact DEF Filters
    <3> QED
      BY <2>5, <2>7, <3>1, CompileKinds DEF CompileParallel, Parallels
  <2>8. CASE q.k = "intersection"
    <3>1. SequenceAll(cs) \in Filters
      BY <1>0, <2>6, SequenceAllType DEF Filters
    <3> QED
      BY <2>5, <2>8, <3>1, CompileKinds DEF CompileSequential, Sequentials
  <2>9. CASE q.k = "negate"
    <3>1. NegateRules(cs[1]) \in Filters
      BY <2>6, NegateExact DEF Filters
    <3> QED
      BY <2>5, <2>9, <3>1, CompileKinds
  <2> QED
    BY <2>2, <2>7, <2>8, <2>9
<1> HIDE DEF T
<1>3. Policy \subseteq T
  BY <1>1, <1>2, PolicyInduction
<1> QED
  BY <1>3 DEF T
-----------------------------------------------------------------------------
(* What actions do, and what evaluation does *)

\* The packets that the actions L make of pkt, the counters among them, and whether
\* some of the policies R need the controller.
Out(L, pkt) == UNION {EvalOf(a, <<>>, pkt) : a \in L}
Counts(L)   == {a \in L : a.k = "count"}
SentUp(R)     == \E x \in R : x.k \in {"bucket", "modify"}

\* The actions L treat pkt as an evaluation to E that reaches R.
Right(L, pkt, E, R) ==
    /\ Controller \in L <=> SentUp(R)
    /\ Controller \notin L => Out(L, pkt) = E /\ Counts(L) = R

LEMMA OutExact ==
    ASSUME NEW L, L \subseteq Deeds, NEW pkt
    PROVE  \A y : y \in Out(L, pkt) <=> \E a \in L : Goes(a) /\ y = Moved(a, pkt)
<1>1. ASSUME NEW a \in Deeds
      PROVE  EvalOf(a, <<>>, pkt) = IF Goes(a) THEN {Moved(a, pkt)} ELSE {}
  <2>1. a.k \in {"identity", "drop", "controller", "modify", "count"}
    BY DeedsExact, ActionKinds
  <2>2. CASE a.k = "identity"
    BY <2>2, EvalKinds DEF Goes, Moved
  <2>3. CASE a.k = "modify"
    BY <2>3, EvalKinds DEF Goes, Moved, EvalModify
  <2>4. CASE a.k \in {"drop", "controller", "count"}
    BY <2>4, EvalKinds DEF Goes
  <2> QED
    BY <2>1, <2>2, <2>3, <2>4
<1> QED
  BY <1>1 DEF Out

\* The action that is left of a and a2 in a row.
Followed(a, a2) == IF a.k = "identity" THEN a2 ELSE Then(a, a2)

LEMMA FollowedExact ==
    ASSUME ModsExact, NEW a \in Deeds, Goes(a), NEW b \in Deeds, b # Drop, NEW pkt
    PROVE  /\ Goes(b) => Goes(Followed(a, b)) /\ Moved(Followed(a, b), pkt) = Moved(b, Moved(a, pkt))
           /\ ~Goes(b) => Followed(a, b) = b
           /\ Followed(a, b).k = "count" <=> b.k = "count"
           /\ Followed(a, b) = Controller <=> b = Controller
<1>1. /\ b.k \in {"identity", "drop", "controller", "modify", "count"}
      /\ b.k = "identity" <=> b = True
      /\ b.k = "drop" <=> b = Drop
      /\ b.k = "modify" => b = Modify(b.a)
  BY DeedsExact, ActionKinds
<1>2. Controller.k = "controller"
  BY DEF Controller
<1>3. CASE a.k = "identity"
  BY <1>3 DEF Followed, Moved
<1>4. CASE a.k = "modify"
  <2>1. Followed(a, b) = Then(a, b) /\ a.a \in Mixed(Mods)
    BY <1>4, DeedsExact DEF Followed
  <2>2. CASE b.k = "identity"
    <3>1. Then(a, b) = a
      BY <2>2 DEF Then
    <3> QED
      BY <1>2, <1>4, <2>1, <2>2, <3>1 DEF Goes, Moved
  <2>3. CASE b.k = "modify"
    <3> DEFINE m == Merged(a.a, b.a)
    <3>1. Then(a, b) = Modify(m)
      BY <2>3 DEF Then
    <3>2. b.a \in Mixed(Mods)
      BY <2>3, DeedsExact
    <3>3. Modified(Modified(pkt, a.a), b.a) = Modified(pkt, m)
      BY <2>1, <3>2, MixedMods, MergedExact
    <3> HIDE DEF m
    <3>4. Modify(m).k = "modify" /\ Modify(m).a = m
      BY DEF Modify
    <3> QED
      BY <1>2, <1>4, <2>1, <2>3, <3>1, <3>3, <3>4 DEF Goes, Moved
  <2>4. CASE b.k \in {"controller", "count"}
    BY <2>1, <2>4 DEF Then, Goes
  <2> QED
    BY <1>1, <2>2, <2>3, <2>4
<1> QED
  BY <1>3, <1>4 DEF Goes

\* What is left of the actions K when those of l2, for the packet at hand, follow.
LEMMA LiveAfterExact ==
    ASSUME ModsExact, NEW K, K \subseteq Deeds, NEW pkt \in Frames, NEW l2,
           \A x \in Frames : l2[x] \subseteq Deeds \ {Drop}
    PROVE  LET L == UNION {LiveAfter(a, l2[Moved(a, pkt)]) : a \in K}
               W == Out(K \ {Drop}, pkt)
           IN  /\ W \subseteq Frames
               /\ Controller \in L <=> Controller \in K \/ \E x \in W : Controller \in l2[x]
               /\ \A y : y \in Counts(L) <=> y \in Counts(K) \/ \E x \in W : y \in Counts(l2[x])
               /\ \A y : y \in Out(L, pkt) <=> \E x \in W : y \in Out(l2[x], x)
<1> DEFINE L == UNION {LiveAfter(a, l2[Moved(a, pkt)]) : a \in K}
           W == Out(K \ {Drop}, pkt)
           at(a) == l2[Moved(a, pkt)]
<1>1. ASSUME NEW a \in K
      PROVE  /\ a.k \in {"identity", "drop", "controller", "modify", "count"}
             /\ a.k = "drop" <=> a = Drop
             /\ a.k = "controller" <=> a = Controller
  BY DeedsExact, ActionKinds
<1>2. ASSUME NEW a \in K, Goes(a)
      PROVE  Moved(a, pkt) \in Frames
  BY <1>2, DeedsExact, MixedMods, ModifiedFrame DEF Goes, Moved
<1>3. \A x : x \in W <=> \E a \in K : Goes(a) /\ x = Moved(a, pkt)
  <2>1. K \ {Drop} \subseteq Deeds
    OBVIOUS
  <2>2. \A x : x \in W <=> \E a \in K \ {Drop} : Goes(a) /\ x = Moved(a, pkt)
    BY <2>1, OutExact
  <2>3. ~Goes(Drop)
    BY DEF Goes, Drop
  <2> QED
    BY <2>2, <2>3
<1>4. W \subseteq Frames
  BY <1>2, <1>3
<1>5. ASSUME NEW a \in K
      PROVE  /\ Goes(a) => LiveAfter(a, at(a)) = {Followed(a, b) : b \in at(a)}
             /\ a.k \in {"controller", "count"} => LiveAfter(a, at(a)) = {a}
             /\ a = Drop => LiveAfter(a, at(a)) = {}
  <2> HIDE DEF at
  <2>1. CASE a.k = "identity"
    BY <2>1, <1>1 DEF LiveAfter, Followed, Goes
  <2>2. CASE a.k = "modify"
    BY <2>2, <1>1 DEF LiveAfter, Followed, Goes
  <2>3. CASE a.k = "drop"
    BY <2>3 DEF LiveAfter, Goes
  <2>4. CASE a.k \in {"controller", "count"}
    BY <2>4, <1>1 DEF LiveAfter, Goes
  <2> QED
    BY <1>1, <2>1, <2>2, <2>3, <2>4
<1> DEFINE Stays(y) == y \in K /\ y.k \in {"controller", "count"}
<1>6. \A y : y \in L <=> Stays(y) \/ \E a \in K : Goes(a) /\ \E b \in at(a) : y = Followed(a, b)
  <2>1. \A y : y \in L <=> \E a \in K : y \in LiveAfter(a, at(a))
    OBVIOUS
  <2>2. \A a \in K : Goes(a) \/ a.k \in {"controller", "count"} \/ a = Drop
    BY <1>1 DEF Goes
  <2>3. \A a \in K : a.k \in {"controller", "count"} => ~Goes(a)
    BY DEF Goes
  <2> HIDE DEF L, at
  <2> QED
    BY <1>5, <2>1, <2>2, <2>3
<1>7. \A a \in K : Goes(a) => at(a) \subseteq Deeds \ {Drop}
  BY <1>2
<1>8. ASSUME NEW a \in K, Goes(a), NEW b \in at(a)
      PROVE  /\ b \in Deeds /\ b # Drop
             /\ Goes(b) => Goes(Followed(a, b)) /\ Moved(Followed(a, b), pkt) = Moved(b, Moved(a, pkt))
             /\ ~Goes(b) => Followed(a, b) = b
             /\ Followed(a, b).k = "count" <=> b.k = "count"
             /\ Followed(a, b) = Controller <=> b = Controller
  <2>1. b \in Deeds /\ b # Drop /\ a \in Deeds
    BY <1>7, <1>8
  <2> HIDE DEF at
  <2> QED
    BY <1>8, <2>1, FollowedExact
<1>9. Controller \in L <=> Controller \in K \/ \E x \in W : Controller \in l2[x]
  <2>1. Stays(Controller) <=> Controller \in K
    BY DEF Controller
  <2>2. (\E a \in K : Goes(a) /\ \E b \in at(a) : Controller = Followed(a, b))
           <=> \E a \in K : Goes(a) /\ Controller \in at(a)
    BY <1>8
  <2>3. (\E x \in W : Controller \in l2[x]) <=> \E a \in K : Goes(a) /\ Controller \in at(a)
    BY <1>3
  <2> HIDE DEF L, at, W, Stays
  <2> QED
    BY <1>6, <2>1, <2>2, <2>3
<1>10. ASSUME NEW y
       PROVE  y \in Counts(L) <=> y \in Counts(K) \/ \E x \in W : y \in Counts(l2[x])
  <2>1. y.k = "count" => (Stays(y) <=> y \in K)
    OBVIOUS
  <2>2. y.k = "count" => ((\E a \in K : Goes(a) /\ \E b \in at(a) : y = Followed(a, b))
                              <=> \E a \in K : Goes(a) /\ y \in at(a))
    <3>1. \A a \in K : Goes(a) => \A b \in at(a) : Followed(a, b).k = "count" => Followed(a, b) = b
      BY <1>8 DEF Goes
    <3>2. \A a \in K : Goes(a) => \A b \in at(a) : b.k = "count" => Followed(a, b) = b
      BY <1>8 DEF Goes
    <3> HIDE DEF at
    <3> QED
      BY <3>1, <3>2
  <2>3. (\E x \in W : y \in l2[x]) <=> \E a \in K : Goes(a) /\ y \in at(a)
    BY <1>3
  <2> HIDE DEF L, at, W, Stays
  <2>4. y.k = "count" => (y \in L <=> y \in K \/ \E x \in W : y \in l2[x])
    BY <1>6, <2>1, <2>2, <2>3
  <2> QED
    BY <2>4 DEF Counts
<1>11. ASSUME NEW y
       PROVE  y \in Out(L, pkt) <=> \E x \in W : y \in Out(l2[x], x)
  <2>1. L \subseteq Deeds
    <3>1. \A b \in L : Stays(b) \/ \E a \in K : Goes(a) /\ \E c \in at(a) : b = Followed(a, c)
      BY <1>6
    <3>2. ASSUME NEW a \in K, Goes(a), NEW c \in at(a)
          PROVE  Followed(a, c) \in Deeds
      <4>1. c \in Deeds /\ a \in Deeds
        BY <1>8, <3>2
      <4>2. CASE a.k = "identity"
        BY <4>1, <4>2 DEF Followed
      <4>3. CASE a.k = "modify" /\ c.k = "modify"
        <5>1. Merged(a.a, c.a) \in Mixed(Mods)
          BY <4>1, <4>3, DeedsExact, MixedMods
        <5>2. Followed(a, c) = Modify(Merged(a.a, c.a))
          BY <4>3 DEF Followed, Then
        <5> QED
          BY <5>1, <5>2 DEF Deeds
      <4>4. CASE a.k = "modify" /\ c.k # "modify"
        <5>1. Followed(a, c) \in {a, c}
          BY <4>4 DEF Followed, Then
        <5> QED
          BY <4>1, <5>1
      <4> QED
        BY <3>2, <4>2, <4>3, <4>4 DEF Goes
    <3> HIDE DEF L, at
    <3> QED
      BY <3>1, <3>2
  <2>2. y \in Out(L, pkt) <=> \E b \in L : Goes(b) /\ y = Moved(b, pkt)
    <3> HIDE DEF L
    <3> QED
      BY <2>1, OutExact
  <2>3. \A x \in W : y \in Out(l2[x], x) <=> \E b \in l2[x] : Goes(b) /\ y = Moved(b, x)
    <3> SUFFICES ASSUME NEW x \in W
                 PROVE  y \in Out(l2[x], x) <=> \E b \in l2[x] : Goes(b) /\ y = Moved(b, x)
      OBVIOUS
    <3>1. l2[x] \subseteq Deeds
      BY <1>4
    <3> QED
      BY <3>1, OutExact
  <2>4. (\E b \in L : Goes(b) /\ y = Moved(b, pkt)) <=>
           \E a \in K : Goes(a) /\ \E c \in at(a) : Goes(c) /\ y = Moved(c, Moved(a, pkt))
    <3>1. \A b : Stays(b) => ~Goes(b)
      BY DEF Goes
    <3>2. \A a \in K : Goes(a) => \A c \in at(a) :
             /\ Goes(Followed(a, c)) <=> Goes(c)
             /\ Goes(c) => Moved(Followed(a, c), pkt) = Moved(c, Moved(a, pkt))
      BY <1>8
    <3> HIDE DEF L, at, Stays
    <3>3. ASSUME NEW b \in L, Goes(b), y = Moved(b, pkt)
          PROVE  \E a \in K : Goes(a) /\ \E c \in at(a) : Goes(c) /\ y = Moved(c, Moved(a, pkt))
      <4>1. PICK a \in K : Goes(a) /\ \E c \in at(a) : b = Followed(a, c)
        BY <1>6, <3>1, <3>3
      <4> QED
        BY <3>2, <3>3, <4>1
    <3>4. ASSUME NEW a \in K, Goes(a), NEW c \in at(a), Goes(c), y = Moved(c, Moved(a, pkt))
          PROVE  \E b \in L : Goes(b) /\ y = Moved(b, pkt)
      <4>1. Followed(a, c) \in L
        BY <1>6, <3>4
      <4>2. Goes(Followed(a, c)) /\ y = Moved(Followed(a, c), pkt)
        BY <3>2, <3>4
      <4> QED
        BY <4>1, <4>2
    <3> QED
      BY <3>3, <3>4
  <2>5. (\E x \in W : \E b \in l2[x] : Goes(b) /\ y = Moved(b, x)) <=>
           \E a \in K : Goes(a) /\ \E c \in at(a) : Goes(c) /\ y = Moved(c, Moved(a, pkt))
    <3> HIDE DEF L, W, Goes
    <3>1. ASSUME NEW x \in W, NEW b \in l2[x], Goes(b), y = Moved(b, x)
          PROVE  \E a \in K : Goes(a) /\ \E c \in at(a) : Goes(c) /\ y = Moved(c, Moved(a, pkt))
      <4>1. PICK a \in K : Goes(a) /\ x = Moved(a, pkt)
        BY <1>3
      <4>2. b \in at(a) /\ y = Moved(b, Moved(a, pkt))
        BY <3>1, <4>1
      <4> QED
        BY <3>1, <4>1, <4>2
    <3>2. ASSUME NEW a \in K, Goes(a), NEW c \in at(a), Goes(c), y = Moved(c, Moved(a, pkt))
          PROVE  \E x \in W : \E b \in l2[x] : Goes(b) /\ y = Moved(b, x)
      <4>1. Moved(a, pkt) \in W
        BY <1>3, <3>2
      <4> QED
        BY <3>2, <4>1
    <3> QED
      BY <3>1, <3>2
  <2> HIDE DEF L, W, at
  <2> QED
    BY <2>2, <2>3, <2>4, <2>5
<1> HIDE DEF L, W
<1>12. \A y : y \in Counts(L) <=> y \in Counts(K) \/ \E x \in W : y \in Counts(l2[x])
  BY <1>10
<1>13. \A y : y \in Out(L, pkt) <=> \E x \in W : y \in Out(l2[x], x)
  BY <1>11
<1> QED
  BY <1>4, <1>9, <1>12, <1>13 DEF L, W

\* What is left of the actions K for pkt when those of l2 follow.
LeftOf(K, l2, pkt) == UNION {LiveAfter(a, l2[Moved(a, pkt)]) : a \in K}

LEMMA SequenceRight ==
    ASSUME ModsExact, NEW K, K \subseteq Deeds, NEW pkt \in Frames, NEW l2,
           NEW E1, NEW R1, NEW e2, NEW r2, Right(K \ {Drop}, pkt, E1, R1),
           \A x \in Frames : l2[x] \subseteq Deeds \ {Drop} /\ Right(l2[x], x, e2[x], r2[x])
    PROVE  Right(LeftOf(K, l2, pkt), pkt, Onward(e2, E1), R1 \union Onward(r2, E1))
<1> DEFINE L == UNION {LiveAfter(a, l2[Moved(a, pkt)]) : a \in K}
           L1 == K \ {Drop}
           W == Out(L1, pkt)
           E == Onward(e2, E1)
           R == R1 \union Onward(r2, E1)
<1>0. SUFFICES Right(L, pkt, E, R)
  BY DEF LeftOf
<1>1. /\ W \subseteq Frames
      /\ Controller \in L <=> Controller \in K \/ \E x \in W : Controller \in l2[x]
      /\ \A y : y \in Counts(L) <=> y \in Counts(K) \/ \E x \in W : y \in Counts(l2[x])
      /\ \A y : y \in Out(L, pkt) <=> \E x \in W : y \in Out(l2[x], x)
  BY LiveAfterExact
<1>2. (Controller \in L1 <=> Controller \in K) /\ Counts(L1) = Counts(K)
  BY DEF Controller, Drop, Counts
<1>3. /\ Controller \in L1 <=> SentUp(R1)
      /\ Controller \notin L1 => W = E1 /\ Counts(L1) = R1
  BY DEF Right
<1>4. \A x \in Frames : /\ Controller \in l2[x] <=> SentUp(r2[x])
                        /\ Controller \notin l2[x] => Out(l2[x], x) = e2[x] /\ Counts(l2[x]) = r2[x]
  BY DEF Right
<1>5. SentUp(R) <=> SentUp(R1) \/ \E x \in E1 : SentUp(r2[x])
  BY DEF SentUp, Onward
<1> HIDE DEF L, L1, W
<1>6. CASE Controller \in K
  <2>1. SentUp(R) /\ Controller \in L
    BY <1>1, <1>2, <1>3, <1>5, <1>6
  <2> QED
    BY <2>1 DEF Right, L
<1>7. CASE Controller \notin K
  <2>1. W = E1 /\ Counts(K) = R1 /\ ~SentUp(R1) /\ E1 \subseteq Frames
    BY <1>1, <1>2, <1>3, <1>7
  <2>2. Controller \in L <=> SentUp(R)
    BY <1>1, <1>4, <1>5, <1>7, <2>1
  <2>3. ASSUME Controller \notin L
        PROVE  Out(L, pkt) = E /\ Counts(L) = R
    <3>1. \A x \in E1 : Out(l2[x], x) = e2[x] /\ Counts(l2[x]) = r2[x]
      BY <1>1, <1>4, <2>1, <2>3
    <3>2. \A y : y \in Out(L, pkt) <=> \E x \in E1 : y \in e2[x]
      BY <1>1, <2>1, <3>1
    <3>3. \A y : y \in Counts(L) <=> y \in R1 \/ \E x \in E1 : y \in r2[x]
      BY <1>1, <2>1, <3>1
    <3>4. \A y : y \in E <=> \E x \in E1 : y \in e2[x]
      BY DEF Onward
    <3>5. \A y : y \in R <=> y \in R1 \/ \E x \in E1 : y \in r2[x]
      BY DEF Onward
    <3> HIDE DEF E, R
    <3>6. Out(L, pkt) = E
      <4>1. \A y : y \in Out(L, pkt) <=> y \in E
        BY <3>2, <3>4
      <4> QED
        BY <4>1
    <3>7. Counts(L) = R
      <4>1. \A y : y \in Counts(L) <=> y \in R
        BY <3>3, <3>5
      <4> QED
        BY <4>1
    <3> QED
      BY <3>6, <3>7
  <2> HIDE DEF E, R
  <2>4. Right(L, pkt, E, R)
    BY <2>2, <2>3 DEF Right
  <2> QED
    BY <2>4 DEF L, E, R
<1> QED
  BY <1>6, <1>7

\* The classifier c treats every packet as the evaluation e that reaches r.
Agrees(c, e, r) ==
    \A pkt \in Frames : \E L : Decides(c, pkt, L) /\ Right(L, pkt, e[pkt], r[pkt])

LEMMA DecidesType ==
    ASSUME NEW c \in Classifiers, NEW pkt, NEW L, Decides(c, pkt, L)
    PROVE  L \subseteq Deeds \ {Drop} /\ c # <<>>
<1>1. PICK as : Decided(c, pkt, as) /\ Live(as) = L
  BY DEF Decides
<1>2. as \in Seq(Deeds)
  BY <1>1, DecidedType DEF Classifiers
<1>3. DOMAIN c # {}
  BY <1>1 DEF Decided
<1>4. c # <<>>
  BY <1>3
<1> QED
  BY <1>1, <1>2, <1>4, DeedsExact DEF Live

LEMMA SequenceAgrees ==
    ASSUME ModsExact, NEW c1 \in Classifiers, NEW c2 \in Classifiers,
           NEW e1, NEW r1, NEW e2, NEW r2, Agrees(c1, e1, r1), Agrees(c2, e2, r2), NEW e, NEW r,
           \A x \in Frames : e[x] = Onward(e2, e1[x]) /\ r[x] = r1[x] \union Onward(r2, e1[x])
    PROVE  SequenceClassifiers(c1, c2) \in Classifiers /\ Agrees(SequenceClassifiers(c1, c2), e, r)
<1> DEFINE d == SequenceClassifiers(c1, c2)
<1>1. /\ d \in Classifiers
      /\ \A pkt, as : Decided(c1, pkt, as) => Behind(d, pkt, as, c2)
  BY DeedsSuited, SequenceExact DEF Classifiers
<1> DEFINE l2 == [x \in Frames |-> CHOOSE L : Decides(c2, x, L) /\ Right(L, x, e2[x], r2[x])]
<1>2. \A x \in Frames : Decides(c2, x, l2[x]) /\ Right(l2[x], x, e2[x], r2[x])
  BY DEF Agrees
<1> HIDE DEF l2
<1>3. \A x \in Frames : l2[x] \subseteq Deeds \ {Drop}
  BY <1>2, DecidesType
<1> HIDE DEF d
<1>4. ASSUME NEW pkt \in Frames
      PROVE  \E L : Decides(d, pkt, L) /\ Right(L, pkt, e[pkt], r[pkt])
  <2>1. PICK L1 : Decides(c1, pkt, L1) /\ Right(L1, pkt, e1[pkt], r1[pkt])
    BY DEF Agrees
  <2>2. PICK as : Decided(c1, pkt, as) /\ Live(as) = L1
    BY <2>1 DEF Decides
  <2>3. as \in Seq(Deeds)
    BY <2>2, DecidedType DEF Classifiers
  <2> DEFINE K == Range(as)
             ls == [a \in K |-> l2[Moved(a, pkt)]]
             L == UNION {LiveAfter(a, l2[Moved(a, pkt)]) : a \in K}
  <2>4. K \subseteq Deeds /\ L1 = K \ {Drop}
    BY <2>2, <2>3, DeedsExact DEF Live
  <2>5. c2 # <<>>
    BY <1>2, DecidesType
  <2>6. Behind(d, pkt, as, c2)
    BY <1>1, <2>2
  <2>7. \A a \in K : Goes(a) => Decides(c2, Moved(a, pkt), ls[a])
    <3> SUFFICES ASSUME NEW a \in K, Goes(a) PROVE Decides(c2, Moved(a, pkt), l2[Moved(a, pkt)])
      OBVIOUS
    <3>1. Moved(a, pkt) \in Frames
      BY <2>4, DeedsExact, MixedMods, ModifiedFrame DEF Goes, Moved
    <3> QED
      BY <1>2, <3>1
  <2>8. UNION {LiveAfter(a, ls[a]) : a \in K} = L
    OBVIOUS
  <2> HIDE DEF ls
  <2>9. Decides(d, pkt, UNION {LiveAfter(a, ls[a]) : a \in K})
    BY <2>5, <2>6, <2>7 DEF Behind
  <2>10. Right(L, pkt, Onward(e2, e1[pkt]), r1[pkt] \union Onward(r2, e1[pkt]))
    <3> DEFINE E1 == e1[pkt]
               R1 == r1[pkt]
    <3> HIDE DEF K
    <3>1. Right(K \ {Drop}, pkt, E1, R1)
      BY <2>1, <2>4
    <3>2. \A x \in Frames : l2[x] \subseteq Deeds \ {Drop} /\ Right(l2[x], x, e2[x], r2[x])
      BY <1>2, <1>3
    <3> HIDE DEF E1, R1, L
    <3>3. Right(LeftOf(K, l2, pkt), pkt, Onward(e2, E1), R1 \union Onward(r2, E1))
      BY <2>4, <3>1, <3>2, SequenceRight
    <3>4. LeftOf(K, l2, pkt) = L
      BY DEF LeftOf, L
    <3> QED
      BY <3>3, <3>4 DEF E1, R1
  <2> HIDE DEF L, K
  <2>11. Decides(d, pkt, L)
    BY <2>8, <2>9
  <2>12. e[pkt] = Onward(e2, e1[pkt]) /\ r[pkt] = r1[pkt] \union Onward(r2, e1[pkt])
    OBVIOUS
  <2> QED
    BY <2>10, <2>11, <2>12
<1>5. Agrees(d, e, r)
  BY <1>4 DEF Agrees
<1> QED
  BY <1>1, <1>5 DEF d

LEMMA AgreesOnFrames ==
    ASSUME NEW c, NEW e, NEW r, NEW f, NEW s, Agrees(c, e, r),
           \A x \in Frames : f[x] = e[x] /\ s[x] = r[x]
    PROVE  Agrees(c, f, s)
  BY DEF Agrees

\* The classifier of p treats every packet as p evals it.
Compiles(p) == Agrees(Compile[p], Eval[p], Reached[p])

LEMMA SingleRight ==
    ASSUME NEW d \in Deeds, NEW pkt, NEW E, NEW R,
           d = Controller => SentUp(R),
           d # Controller => /\ ~SentUp(R)
                             /\ E = IF Goes(d) THEN {Moved(d, pkt)} ELSE {}
                             /\ R = IF d.k = "count" THEN {d} ELSE {}
    PROVE  Right({d} \ {Drop}, pkt, E, R)
<1> DEFINE L == {d} \ {Drop}
<1>1. L \subseteq Deeds
  OBVIOUS
<1>2. Controller \in L <=> d = Controller
  BY DEF Controller, Drop
<1>3. ~Goes(Drop) /\ Drop.k # "count"
  BY DEF Goes, Drop
<1>4. \A y : y \in Out(L, pkt) <=> \E a \in L : Goes(a) /\ y = Moved(a, pkt)
  <2> HIDE DEF L
  <2> QED
    BY <1>1, OutExact
<1>5. Out(L, pkt) = IF Goes(d) THEN {Moved(d, pkt)} ELSE {}
  BY <1>3, <1>4
<1>6. Counts(L) = IF d.k = "count" THEN {d} ELSE {}
  BY <1>3 DEF Counts
<1> HIDE DEF L
<1>7. Right(L, pkt, E, R)
  BY <1>2, <1>5, <1>6 DEF Right
<1> QED
  BY <1>7 DEF L

LEMMA LeafCompiles ==
    ASSUME ModsExact, NEW p \in Leaves
    PROVE  Compiles(p)
<1>1. p \in Policy /\ p.k \notin Combinators
  BY PolicyKinds, LeafKinds
<1>2. p.k \in {"match", "modify", "identity", "drop", "bucket", "count"}
  BY <1>1, PolicyClasses
<1>3. Compile[p] = CompileOf(p, Parts(Compile, p))
  BY <1>1, CompileExact
<1> SUFFICES ASSUME NEW pkt \in Frames
             PROVE  \E L : Decides(Compile[p], pkt, L) /\ Right(L, pkt, Eval[p][pkt], Reached[p][pkt])
  BY DEF Compiles, Agrees
<1> DEFINE E == Eval[p][pkt]
           R == Reached[p][pkt]
<1>4. /\ E = EvalOf(p, Parts(Eval, p), pkt)
      /\ R = ReachedOf(p, Parts(Eval, p), Parts(Reached, p), pkt)
  BY <1>1, EvalExact, ReachedExact
<1>5. ~SentUp({}) /\ True \in Deeds /\ Drop \in Deeds /\ Controller \in Deeds
  BY DeedsExact DEF SentUp
<1>6. /\ Goes(True) /\ Moved(True, pkt) = pkt /\ True.k # "count" /\ True # Controller
      /\ ~Goes(Drop) /\ Drop.k # "count" /\ Drop # Controller /\ Controller.k = "controller"
  BY DEF Goes, Moved, True, Drop, Controller
<1> HIDE DEF E, R
<1>7. CASE p.k = "match"
  <2> DEFINE d == IF Sat(p.m, pkt) THEN True ELSE Drop
  <2>1. Decided(Compile[p], pkt, <<d>>)
    BY <1>1, <1>3, <1>7, CompileKinds, MatchCompiles
  <2>2. R = {} /\ E = IF Sat(p.m, pkt) THEN {pkt} ELSE {}
    BY <1>4, <1>7, EvalKinds, ReachedKinds
  <2>3. d \in Deeds /\ d # Controller /\ d.k # "count" /\ E = IF Goes(d) THEN {Moved(d, pkt)} ELSE {}
    BY <1>5, <1>6, <2>2
  <2> HIDE DEF d
  <2>4. Live(<<d>>) = {d} \ {Drop}
    BY SingleDecides DEF Live
  <2>5. Right({d} \ {Drop}, pkt, E, R)
    BY <1>5, <2>2, <2>3, SingleRight
  <2> QED
    BY <2>1, <2>4, <2>5 DEF Decides, E, R
<1>8. CASE p.k # "match"
  <2> DEFINE d == IF p.k = "bucket" \/ (p.k = "modify" /\ HasVirtualHeaders(p.a)) THEN Controller ELSE p
  <2>1. Compile[p] = All(<<d>>)
    <3>1. CASE p.k = "modify"
      BY <1>3, <3>1, CompileKinds DEF CompileModify
    <3>2. CASE p.k = "bucket"
      BY <1>3, <3>2, CompileKinds DEF CompileBucket
    <3>3. CASE p.k \in {"identity", "drop", "count"}
      BY <1>3, <3>3, CompileKinds
    <3> QED
      BY <1>2, <1>8, <3>1, <3>2, <3>3
  <2>2. d \in Deeds
    <3>1. CASE p.k = "modify"
      BY <1>1, <1>5, <3>1, LeafModify, MixedMods DEF HasVirtualHeaders, Deeds
    <3>2. CASE p.k = "bucket"
      BY <1>5, <3>2
    <3>3. CASE p.k \in {"identity", "drop", "count"}
      BY <3>3 DEF Leaves, Constants, Others, True, Drop, Match, Modify, Deeds
    <3> QED
      BY <1>2, <1>8, <3>1, <3>2, <3>3
  <2>3. Decided(Compile[p], pkt, <<d>>)
    <3>1. <<d>> \in Seq(Deeds) /\ Identity \in Mixed(Tests)
      BY <2>2, SingleDecides, MixedTests
    <3> HIDE DEF d
    <3> QED
      BY <2>1, <3>1, AllDecides
  <2>4. d = Controller => SentUp(R)
    <3>1. p.k \in {"bucket", "modify"} /\ d = Controller => R = {p}
      BY <1>4, <1>6, ReachedKinds
    <3>2. d = Controller => p.k \in {"bucket", "modify"}
      BY <1>2, <1>6
    <3> HIDE DEF d
    <3> QED
      BY <3>1, <3>2 DEF SentUp
  <2>5. d # Controller => /\ ~SentUp(R)
                          /\ E = IF Goes(d) THEN {Moved(d, pkt)} ELSE {}
                          /\ R = IF d.k = "count" THEN {d} ELSE {}
    <3> SUFFICES ASSUME d # Controller
                 PROVE  /\ ~SentUp(R)
                        /\ E = IF Goes(d) THEN {Moved(d, pkt)} ELSE {}
                        /\ R = IF d.k = "count" THEN {d} ELSE {}
      OBVIOUS
    <3>1. d = p /\ p.k # "bucket" /\ (p.k = "modify" => ~HasVirtualHeaders(p.a))
      OBVIOUS
    <3> HIDE DEF d
    <3>2. CASE p.k = "modify"
      BY <1>4, <1>5, <3>1, <3>2, EvalKinds, ReachedKinds DEF EvalModify, Goes, Moved
    <3>3. CASE p.k = "identity"
      <4>1. E = {pkt} /\ R = {}
        BY <1>4, <3>3, EvalKinds, ReachedKinds
      <4>2. Goes(p) /\ Moved(p, pkt) = pkt /\ p.k # "count"
        BY <3>3 DEF Goes, Moved
      <4> QED
        BY <1>5, <3>1, <4>1, <4>2
    <3>4. CASE p.k = "drop"
      BY <1>4, <1>5, <3>1, <3>4, EvalKinds, ReachedKinds DEF Goes
    <3>5. CASE p.k = "count"
      BY <1>4, <3>1, <3>5, EvalKinds, ReachedKinds DEF Goes, SentUp
    <3> QED
      BY <1>2, <1>8, <3>1, <3>2, <3>3, <3>4, <3>5
  <2> HIDE DEF d
  <2>6. Live(<<d>>) = {d} \ {Drop}
    BY SingleDecides DEF Live
  <2>7. Right({d} \ {Drop}, pkt, E, R)
    BY <2>2, <2>4, <2>5, SingleRight
  <2> QED
    BY <2>3, <2>6, <2>7 DEF Decides, E, R
<1> QED
  BY <1>7, <1>8

\* Classifiers and evaluations of the policies in a combination.
LEMMA CombinationCompiles ==
    ASSUME ModsExact, NEW p \in Policy, p.k \in Combinators, \A i \in DOMAIN p.ps : Compiles(p.ps[i])
    PROVE  \E n \in Nat :
              /\ n # 0 /\ (p.k = "if" => n = 4) /\ DOMAIN p.ps = 1 .. n
              /\ Parts(Eval, p) \in Seq(Evaluations) /\ Len(Parts(Eval, p)) = n
              /\ Parts(Compile, p) \in Seq(Classifiers) /\ Len(Parts(Compile, p)) = n
              /\ DOMAIN Parts(Eval, p) = 1 .. n /\ DOMAIN Parts(Reached, p) = 1 .. n
              /\ DOMAIN Parts(Compile, p) = 1 .. n
              /\ \A i \in 1 .. n : /\ p.ps[i] \in Policy /\ Parts(Compile, p)[i] = Compile[p.ps[i]]
                                   /\ Parts(Compile, p)[i] \in Classifiers
                                   /\ Agrees(Parts(Compile, p)[i], Parts(Eval, p)[i], Parts(Reached, p)[i])
<1> DEFINE es == Parts(Eval, p)
           rs == Parts(Reached, p)
           cs == Parts(Compile, p)
<1>1. PICK n \in Nat :
         /\ n # 0 /\ DOMAIN p.ps = 1 .. n /\ Len(p.ps) = n /\ (p.k = "if" => n = 4)
         /\ es \in Seq(Evaluations) /\ Len(es) = n /\ DOMAIN es = 1 .. n /\ DOMAIN rs = 1 .. n
         /\ \A i \in 1 .. n : p.ps[i] \in Policy /\ es[i] = Eval[p.ps[i]] /\ rs[i] = Reached[p.ps[i]]
  BY Combination
<1>2. Subs(p) = p.ps
  BY PolicyClasses
<1>3. Compile \in [Policy -> Classifiers]
  BY CompileExact
<1>4. cs \in [DOMAIN Subs(p) -> Classifiers]
  BY <1>3, PartsType
<1>5. DOMAIN cs = 1 .. n /\ \A i \in 1 .. n : cs[i] = Compile[p.ps[i]]
  BY <1>1, <1>2 DEF Parts
<1>6. cs \in Seq(Classifiers) /\ Len(cs) = n /\ \A i \in 1 .. n : cs[i] \in Classifiers
  <2>1. cs \in [1 .. n -> Classifiers]
    BY <1>1, <1>2, <1>4
  <2> HIDE DEF cs
  <2> QED
    BY <1>1, <2>1, AsSequence
<1>7. \A i \in 1 .. n : Agrees(cs[i], es[i], rs[i])
  <2> SUFFICES ASSUME NEW i \in 1 .. n PROVE Agrees(cs[i], es[i], rs[i])
    OBVIOUS
  <2>1. Compiles(p.ps[i]) /\ es[i] = Eval[p.ps[i]] /\ rs[i] = Reached[p.ps[i]] /\ cs[i] = Compile[p.ps[i]]
    BY <1>1, <1>5
  <2> HIDE DEF es, rs, cs
  <2> QED
    BY <2>1 DEF Compiles
<1> QED
  BY <1>1, <1>5, <1>6, <1>7

LEMMA ParallelCompiles ==
    ASSUME ModsExact, NEW p \in Policy, p.k \in Parallels, \A i \in DOMAIN p.ps : Compiles(p.ps[i])
    PROVE  Compiles(p)
<1> DEFINE es == Parts(Eval, p)
           rs == Parts(Reached, p)
           cs == Parts(Compile, p)
<1>0. p.k \in Combinators
  BY DEF Combinators
<1>1. PICK n \in Nat :
         /\ n # 0 /\ cs \in Seq(Classifiers) /\ Len(cs) = n
         /\ DOMAIN es = 1 .. n /\ DOMAIN rs = 1 .. n /\ DOMAIN cs = 1 .. n
         /\ \A i \in 1 .. n : Agrees(cs[i], es[i], rs[i])
  BY <1>0, CombinationCompiles
<1>2. Compile[p] = AddAll(cs)
  BY CompileExact, CompileKinds DEF CompileParallel
<1>3. \A x \in Frames : Eval[p][x] = EvalParallel(es, x) /\ Reached[p][x] = ReachedParallel(rs, x)
  BY EvalExact, ReachedExact, EvalKinds, ReachedKinds
<1> HIDE DEF es, rs, cs
<1>4. Sums(AddAll(cs), cs)
  BY <1>1, DeedsSuited, AddAllExact DEF Classifiers
<1> SUFFICES ASSUME NEW pkt \in Frames
             PROVE  \E L : Decides(Compile[p], pkt, L) /\ Right(L, pkt, Eval[p][pkt], Reached[p][pkt])
  BY DEF Compiles, Agrees
<1> DEFINE Fits(i, as) == Decided(cs[i], pkt, as) /\ Right(Live(as), pkt, es[i][pkt], rs[i][pkt])
           ds == [i \in 1 .. n |-> CHOOSE as : Fits(i, as)]
<1>5. \A i \in 1 .. n : Fits(i, ds[i])
  <2> SUFFICES ASSUME NEW i \in 1 .. n PROVE \E as : Fits(i, as)
    OBVIOUS
  <2>1. Agrees(cs[i], es[i], rs[i])
    BY <1>1
  <2> QED
    BY <2>1 DEF Agrees, Decides
<1> DEFINE l == [i \in 1 .. n |-> Live(ds[i])]
<1> HIDE DEF ds
<1>6. PICK as : Decided(Compile[p], pkt, as) /\ Live(as) = UNION {Live(ds[i]) : i \in DOMAIN cs}
  <2>1. \A i \in DOMAIN cs : Decided(cs[i], pkt, ds[i])
    BY <1>1, <1>5
  <2>2. \E as : Decided(AddAll(cs), pkt, as) /\ Live(as) = UNION {Live(ds[i]) : i \in DOMAIN cs}
    <3> DEFINE c == AddAll(cs)
    <3> HIDE DEF c
    <3>1. Sums(c, cs)
      BY <1>4 DEF c
    <3>2. \E as : Decided(c, pkt, as) /\ Live(as) = UNION {Live(ds[i]) : i \in DOMAIN cs}
      BY <2>1, <3>1 DEF Sums
    <3> QED
      BY <3>2 DEF c
  <2> QED
    BY <1>2, <2>2
<1> DEFINE L == UNION {l[i] : i \in 1 .. n}
           E == Eval[p][pkt]
           R == Reached[p][pkt]
<1>7. Live(as) = L
  BY <1>1, <1>6
<1>8. \A i \in 1 .. n : Right(l[i], pkt, es[i][pkt], rs[i][pkt])
  BY <1>5
<1> HIDE DEF l
<1>9. E = UNION {es[i][pkt] : i \in 1 .. n} /\ R = UNION {rs[i][pkt] : i \in 1 .. n}
  BY <1>1, <1>3 DEF EvalParallel, ReachedParallel
<1> HIDE DEF E, R
<1>10. Controller \in L <=> SentUp(R)
  <2>1. Controller \in L <=> \E i \in 1 .. n : Controller \in l[i]
    OBVIOUS
  <2>2. SentUp(R) <=> \E i \in 1 .. n : SentUp(rs[i][pkt])
    BY <1>9 DEF SentUp
  <2>3. \A i \in 1 .. n : Controller \in l[i] <=> SentUp(rs[i][pkt])
    BY <1>8 DEF Right
  <2> HIDE DEF L
  <2> QED
    BY <2>1, <2>2, <2>3
<1>11. ASSUME Controller \notin L
       PROVE  Out(L, pkt) = E /\ Counts(L) = R
  <2>1. \A i \in 1 .. n : Out(l[i], pkt) = es[i][pkt] /\ Counts(l[i]) = rs[i][pkt]
    BY <1>8, <1>11 DEF Right
  <2>2. \A y : y \in Out(L, pkt) <=> \E i \in 1 .. n : y \in Out(l[i], pkt)
    BY DEF Out
  <2>3. \A y : y \in Counts(L) <=> \E i \in 1 .. n : y \in Counts(l[i])
    BY DEF Counts
  <2> HIDE DEF L
  <2>4. \A y : y \in Out(L, pkt) <=> y \in E
    BY <1>9, <2>1, <2>2
  <2>5. \A y : y \in Counts(L) <=> y \in R
    BY <1>9, <2>1, <2>3
  <2> QED
    BY <2>4, <2>5
<1> HIDE DEF L
<1>12. Right(L, pkt, E, R)
  BY <1>10, <1>11 DEF Right
<1> QED
  BY <1>6, <1>7, <1>12 DEF Decides, E, R

LEMMA NegateCompiles ==
    ASSUME ModsExact, NEW p \in Policy, p.k = "negate", \A i \in DOMAIN p.ps : Compiles(p.ps[i])
    PROVE  Compiles(p)
<1> DEFINE es == Parts(Eval, p)
           cs == Parts(Compile, p)
           q == p.ps[1]
<1>1. /\ p.k \in Combinators /\ WellBuilt(p) /\ Subs(p) = p.ps /\ 1 \in DOMAIN p.ps
      /\ p.ps \in Seq(Policy)
  BY PolicyClasses DEF Combinators
<1>2. IsFilter(q) /\ q \in Policy /\ Compiles(q)
  BY <1>1, ElementOfSeq, LenProperties DEF WellBuilt
<1>3. cs[1] = Compile[q] /\ es[1] = Eval[q]
  BY <1>1 DEF Parts
<1>4. Compile[p] = NegateRules(cs[1])
  BY CompileExact, CompileKinds
<1>5. \A x \in Frames : Eval[p][x] = EvalNegate(es, x) /\ Reached[p][x] = {}
  BY EvalExact, ReachedExact, EvalKinds, ReachedKinds
<1> HIDE DEF es, cs, q
<1> DEFINE c == Compile[q]
<1>6. c \in Filters
  BY <1>2, FilterCompiles
<1> SUFFICES ASSUME NEW pkt \in Frames
             PROVE  \E L : Decides(Compile[p], pkt, L) /\ Right(L, pkt, Eval[p][pkt], Reached[p][pkt])
  BY DEF Compiles, Agrees
<1>7. PICK L : Decides(c, pkt, L) /\ Right(L, pkt, Eval[q][pkt], Reached[q][pkt])
  BY <1>2 DEF Compiles, Agrees
<1>8. Eval[q][pkt] \in {{}, {pkt}} /\ Reached[q][pkt] = {}
  BY <1>2, FilterEvals
<1> HIDE DEF c
<1>9. L \in {{}, {True}}
  <2>1. PICK as : Decided(c, pkt, as) /\ Live(as) = L
    BY <1>7 DEF Decides
  <2>2. as \in Verdicts
    BY <1>6, <2>1, DecidedType DEF Filters
  <2> QED
    BY <2>1, <2>2, VerdictKinds
<1>10. /\ Decides(c, pkt, {True}) => Decides(NegateRules(c), pkt, {})
       /\ Decides(c, pkt, {}) => Decides(NegateRules(c), pkt, {True})
  BY <1>6, NegateExact DEF Filters
<1>11. /\ Out({True}, pkt) = {pkt} /\ Out({}, pkt) = {} /\ Counts({True}) = {} /\ Counts({}) = {}
       /\ Controller \notin {True} /\ ~SentUp({})
  <2>1. EvalOf(True, <<>>, pkt) = {pkt}
    BY EvalKinds DEF True
  <2>2. True.k # "count" /\ True # Controller
    BY DEF True, Controller
  <2> QED
    BY <2>1, <2>2 DEF Out, Counts, SentUp
<1>12. Compile[p] = NegateRules(c)
  BY <1>3, <1>4 DEF c
<1>13. Eval[p][pkt] = (IF Eval[q][pkt] = {} THEN {pkt} ELSE {}) /\ Reached[p][pkt] = {}
  BY <1>3, <1>5 DEF EvalNegate
<1>14. Eval[q][pkt] = Out(L, pkt)
  BY <1>7, <1>8, <1>9, <1>11 DEF Right
<1>15. CASE L = {True}
  <2>1. Decides(Compile[p], pkt, {}) /\ Eval[p][pkt] = {}
    BY <1>7, <1>10, <1>11, <1>12, <1>13, <1>14, <1>15
  <2>2. Right({}, pkt, Eval[p][pkt], Reached[p][pkt])
    BY <1>11, <1>13, <2>1 DEF Right
  <2> QED
    BY <2>1, <2>2
<1>16. CASE L = {}
  <2>1. Decides(Compile[p], pkt, {True}) /\ Eval[p][pkt] = {pkt}
    BY <1>7, <1>10, <1>11, <1>12, <1>13, <1>14, <1>16
  <2>2. Right({True}, pkt, Eval[p][pkt], Reached[p][pkt])
    BY <1>11, <1>13, <2>1 DEF Right
  <2> QED
    BY <2>1, <2>2
<1> QED
  BY <1>9, <1>15, <1>16

LEMMA IfCompiles ==
    ASSUME ModsExact, NEW p \in Policy, p.k = "if", \A i \in DOMAIN p.ps : Compiles(p.ps[i])
    PROVE  Compiles(p)
<1>1. p.k \in Combinators /\ Subs(p) = p.ps /\ 4 \in DOMAIN p.ps
  BY PolicyClasses DEF Combinators
<1> DEFINE q == p.ps[4]
<1>2. Compile[p] = Compile[q]
  <2>1. Compile[p] = Parts(Compile, p)[4]
    BY CompileExact, CompileKinds
  <2> QED
    BY <1>1, <2>1 DEF Parts
<1>3. \A x \in Frames : Eval[p][x] = Eval[q][x] /\ Reached[p][x] = Reached[q][x]
  BY IfExact
<1>4. Agrees(Compile[q], Eval[q], Reached[q])
  BY <1>1 DEF Compiles
<1> DEFINE c == Compile[q]
           e == Eval[q]
           r == Reached[q]
           f == Eval[p]
           s == Reached[p]
<1> HIDE DEF c, e, r, f, s
<1>5. Agrees(c, e, r) /\ \A x \in Frames : f[x] = e[x] /\ s[x] = r[x]
  BY <1>3, <1>4 DEF c, e, r, f, s
<1>6. Agrees(c, f, s)
  BY <1>5, AgreesOnFrames
<1> QED
  BY <1>2, <1>6 DEF Compiles, c, f, s

\* The policies that the first n of the policies in sequence reach.
UpTo(es, rs, x, n) == UNION {Onward(rs[i], Through(es, x)[i - 1]) : i \in 1 .. n}

\* Each of the policies in sequence goes on from what those before it leave.
GoesOn(es, rs, x) ==
    /\ Through(es, x)[1] = es[1][x] /\ UpTo(es, rs, x, 1) = rs[1][x]
    /\ \A n \in 2 .. Len(es) :
          /\ Through(es, x)[n] = Onward(es[n], Through(es, x)[n - 1])
          /\ UpTo(es, rs, x, n) = UpTo(es, rs, x, n - 1) \union Onward(rs[n], Through(es, x)[n - 1])

LEMMA UpToExact ==
    ASSUME NEW es \in Seq(Evaluations), NEW rs, NEW x \in Frames, Len(es) # 0
    PROVE  GoesOn(es, rs, x)
<1> DEFINE A(i) == Through(es, x)[i]
           N == Len(es)
<1>1. N \in Nat /\ N # 0 /\ A(0) = {x} /\ \A n \in 1 .. N : A(n) = Onward(es[n], A(n - 1))
  BY ThroughExact, LenProperties
<1> HIDE DEF N
<1>2. A(1) = es[1][x]
  <2>1. 1 \in 1 .. N /\ 1 - 1 = 0
    BY <1>1
  <2>2. A(1) = Onward(es[1], A(1 - 1))
    BY <1>1, <2>1
  <2> HIDE DEF A
  <2>3. A(1) = Onward(es[1], {x})
    BY <1>1, <2>1, <2>2
  <2> QED
    BY <2>3 DEF Onward
<1>3. \A n : UpTo(es, rs, x, n) = UNION {Onward(rs[i], A(i - 1)) : i \in 1 .. n}
  BY DEF UpTo
<1> HIDE DEF A
<1>4. UpTo(es, rs, x, 1) = rs[1][x]
  <2>1. 1 .. 1 = {1} /\ 1 - 1 = 0
    OBVIOUS
  <2>2. UpTo(es, rs, x, 1) = Onward(rs[1], A(0))
    <3> DEFINE B(i) == Onward(rs[i], A(i - 1))
    <3>1. UpTo(es, rs, x, 1) = UNION {B(i) : i \in 1 .. 1}
      BY <1>3
    <3>2. B(1) = Onward(rs[1], A(0))
      BY <2>1
    <3> HIDE DEF B
    <3> QED
      BY <2>1, <3>1, <3>2
  <2>3. Onward(rs[1], {x}) = rs[1][x]
    BY DEF Onward
  <2>4. A(0) = {x}
    BY <1>1
  <2> QED
    BY <2>2, <2>3, <2>4
<1>5. ASSUME NEW n \in 2 .. N
      PROVE  UpTo(es, rs, x, n) = UpTo(es, rs, x, n - 1) \union Onward(rs[n], A(n - 1))
  <2> DEFINE B(i) == Onward(rs[i], A(i - 1))
  <2>1. 1 .. n = (1 .. n - 1) \union {n}
    BY <1>1
  <2>2. UpTo(es, rs, x, n) = UNION {B(i) : i \in 1 .. n} /\ UpTo(es, rs, x, n - 1) = UNION {B(i) : i \in 1 .. n - 1}
    BY <1>3
  <2> HIDE DEF B
  <2>3. UpTo(es, rs, x, n) = UpTo(es, rs, x, n - 1) \union B(n)
    BY <2>1, <2>2
  <2> QED
    BY <2>3 DEF B
<1>6. \A n \in 2 .. N : A(n) = Onward(es[n], A(n - 1))
  BY <1>1
<1> QED
  BY <1>2, <1>4, <1>5, <1>6 DEF A, N, GoesOn

LEMMA SequenceSteps ==
    ASSUME ModsExact, NEW cs \in Seq(Classifiers), Len(cs) # 0
    PROVE  \E f : /\ SequenceAll(cs) = f[Len(cs)]
                  /\ f[1] = cs[1]
                  /\ \A n \in 2 .. Len(cs) : f[n] = SequenceClassifiers(f[n - 1], cs[n])
<1> DEFINE M == Mixed(Tests)
           As == Seq(Deeds)
<1>1. Suited(M, As) /\ Classifiers = Seq(Rules(M, As))
  BY DeedsSuited DEF Classifiers
<1>2. cs \in Seq(Seq(Rules(M, As)))
  BY <1>1
<1> HIDE DEF M, As
<1> QED
  BY <1>1, <1>2, SequenceAllUnfolds

LEMMA SequenceAllAgrees ==
    ASSUME ModsExact, NEW cs \in Seq(Classifiers), NEW es \in Seq(Evaluations), NEW rs,
           Len(cs) # 0, Len(es) = Len(cs),
           \A i \in 1 .. Len(cs) : cs[i] \in Classifiers /\ Agrees(cs[i], es[i], rs[i])
    PROVE  Agrees(SequenceAll(cs), [x \in Frames |-> Through(es, x)[Len(cs)]],
                                   [x \in Frames |-> UpTo(es, rs, x, Len(cs))])
<1> DEFINE N == Len(cs)
           E(n) == [x \in Frames |-> Through(es, x)[n]]
           R(n) == [x \in Frames |-> UpTo(es, rs, x, n)]
<1>1. N \in Nat /\ N # 0 /\ \A n \in 1 .. N : cs[n] \in Classifiers /\ Agrees(cs[n], es[n], rs[n])
  BY LenProperties
<1>2. PICK f : /\ SequenceAll(cs) = f[N]
               /\ f[1] = cs[1]
               /\ \A n \in 2 .. N : f[n] = SequenceClassifiers(f[n - 1], cs[n])
  BY SequenceSteps
<1>3. ASSUME NEW x \in Frames
      PROVE  /\ E(1)[x] = es[1][x] /\ R(1)[x] = rs[1][x]
             /\ \A n \in 2 .. N : /\ E(n)[x] = Onward(es[n], E(n - 1)[x])
                                  /\ R(n)[x] = R(n - 1)[x] \union Onward(rs[n], E(n - 1)[x])
  <2>1. \A n : E(n)[x] = Through(es, x)[n] /\ R(n)[x] = UpTo(es, rs, x, n)
    OBVIOUS
  <2> HIDE DEF E, R
  <2>2. GoesOn(es, rs, x)
    BY UpToExact
  <2> QED
    BY <2>1, <2>2 DEF GoesOn
<1> HIDE DEF N, E, R
<1> DEFINE T == {n \in 1 .. N : f[n] \in Classifiers /\ Agrees(f[n], E(n), R(n))}
<1>4. 1 \in 1 .. N /\ N \in 1 .. N
  BY <1>1
<1>5. 1 \in T
  <2>1. Agrees(cs[1], es[1], rs[1]) /\ cs[1] \in Classifiers
    BY <1>1, <1>4
  <2>2. Agrees(f[1], E(1), R(1))
    <3> DEFINE e == es[1]
               r == rs[1]
               g == E(1)
               s == R(1)
    <3>1. \A x \in Frames : g[x] = e[x] /\ s[x] = r[x]
      BY <1>3
    <3>2. Agrees(f[1], e, r)
      BY <1>2, <2>1
    <3> HIDE DEF e, r, g, s
    <3>3. Agrees(f[1], g, s)
      BY <3>1, <3>2, AgreesOnFrames
    <3> QED
      BY <3>3 DEF g, s
  <2> QED
    BY <1>2, <1>4, <2>1, <2>2
<1>6. ASSUME NEW n \in 2 .. N, n - 1 \in T PROVE n \in T
  <2> DEFINE e1 == E(n - 1)
             r1 == R(n - 1)
             e2 == es[n]
             r2 == rs[n]
             g == E(n)
             s == R(n)
             c1 == f[n - 1]
             c2 == cs[n]
  <2>1. n \in 1 .. N /\ c1 \in Classifiers /\ Agrees(c1, e1, r1)
    BY <1>1, <1>6
  <2>2. c2 \in Classifiers /\ Agrees(c2, e2, r2)
    BY <1>1, <2>1
  <2>3. \A x \in Frames : g[x] = Onward(e2, e1[x]) /\ s[x] = r1[x] \union Onward(r2, e1[x])
    BY <1>3
  <2>4. f[n] = SequenceClassifiers(c1, c2)
    BY <1>2
  <2> HIDE DEF e1, r1, e2, r2, g, s, c1, c2
  <2> DEFINE d == SequenceClassifiers(c1, c2)
  <2>5. d \in Classifiers /\ Agrees(d, g, s)
    <3>1. /\ c1 \in Classifiers /\ c2 \in Classifiers
          /\ Agrees(c1, e1, r1) /\ Agrees(c2, e2, r2)
      BY <2>1, <2>2
    <3> HIDE DEF T
    <3> QED
      BY <2>3, <3>1, SequenceAgrees, SMTT(60)
  <2>6. f[n] \in Classifiers /\ Agrees(f[n], g, s)
    <3>1. f[n] = d
      BY <2>4
    <3> HIDE DEF d
    <3> QED
      BY <2>5, <3>1
  <2> QED
    BY <2>1, <2>6 DEF g, s
<1> HIDE DEF T
<1>7. \A n \in 1 .. N : n \in T
  BY <1>1, <1>5, <1>6, Climb
<1>8. Agrees(f[N], E(N), R(N))
  BY <1>4, <1>7 DEF T
<1> QED
  BY <1>2, <1>8 DEF N, E, R

LEMMA SequentialCompiles ==
    ASSUME ModsExact, NEW p \in Policy, p.k \in Sequentials, \A i \in DOMAIN p.ps : Compiles(p.ps[i])
    PROVE  Compiles(p)
<1> DEFINE es == Parts(Eval, p)
           rs == Parts(Reached, p)
           cs == Parts(Compile, p)
<1>0. p.k \in Combinators
  BY DEF Combinators
<1>1. PICK n \in Nat :
         /\ n # 0 /\ cs \in Seq(Classifiers) /\ Len(cs) = n
         /\ es \in Seq(Evaluations) /\ Len(es) = n
         /\ DOMAIN rs = 1 .. n
         /\ \A i \in 1 .. n : cs[i] \in Classifiers /\ Agrees(cs[i], es[i], rs[i])
  BY <1>0, CombinationCompiles
<1>2. Compile[p] = SequenceAll(cs)
  BY CompileExact, CompileKinds DEF CompileSequential
<1>3. \A x \in Frames : Eval[p][x] = EvalSequential(es, x) /\ Reached[p][x] = ReachedSequential(es, rs, x)
  BY EvalExact, ReachedExact, EvalKinds, ReachedKinds
<1> HIDE DEF es, rs, cs
<1> DEFINE e == [x \in Frames |-> Through(es, x)[n]]
           r == [x \in Frames |-> UpTo(es, rs, x, n)]
           f == Eval[p]
           s == Reached[p]
           c == SequenceAll(cs)
<1>4. Agrees(c, e, r)
  BY <1>1, SequenceAllAgrees
<1>5. ASSUME NEW x \in Frames
      PROVE  f[x] = e[x] /\ s[x] = r[x]
  <2>1. f[x] = Through(es, x)[n]
    BY <1>1, <1>3 DEF EvalSequential
  <2>2. s[x] = UpTo(es, rs, x, n)
    BY <1>1, <1>3 DEF ReachedSequential, UpTo, Onward
  <2> QED
    BY <2>1, <2>2
<1> HIDE DEF e, r, f, s, c
<1>6. Agrees(c, f, s)
  BY <1>4, <1>5, AgreesOnFrames
<1> QED
  BY <1>2, <1>6 DEF Compiles, c, f, s

(* compile and eval agree on every policy, packet for packet, as long as the
   modifications are of header fields and the tests exact on them. *)
THEOREM PoliciesCompile ==
    ASSUME ModsExact
    PROVE  \A p \in Policy : Compiles(p)
<1> DEFINE T == {p \in Policy : Compiles(p)}
<1>1. Leaves \subseteq T
  BY LeafCompiles, PolicyKinds
<1>2. ASSUME NEW p \in Policy, p \notin Leaves, \A i \in DOMAIN p.ps : p.ps[i] \in T
      PROVE  p \in T
  <2>1. p.k \in Combinators
    BY <1>2, PolicyClasses
  <2>2. \A i \in DOMAIN p.ps : Compiles(p.ps[i])
    BY <1>2
  <2>3. CASE p.k \in Parallels
    BY <2>2, <2>3, ParallelCompiles
  <2>4. CASE p.k \in Sequentials
    BY <2>2, <2>4, SequentialCompiles
  <2>5. CASE p.k = "negate"
    BY <2>2, <2>5, NegateCompiles
  <2>6. CASE p.k = "if"
    BY <2>2, <2>6, IfCompiles
  <2> QED
    BY <2>1, <2>3, <2>4, <2>5, <2>6 DEF Combinators
<1> HIDE DEF T
<1>3. Policy \subseteq T
  BY <1>1, <1>2, PolicyInduction
<1> QED
  BY <1>3 DEF T

LEMMA ActsExact ==
    ASSUME NEW S, NEW c \in Seq(S), NEW pkt, NEW as, Decided(c, pkt, as)
    PROVE  (\E i \in DOMAIN c : Sat(c[i].match, pkt)) /\ Acts(c, pkt) = Range(as)
<1> DEFINE First(i) == Sat(c[i].match, pkt) /\ \A j \in 1 .. i - 1 : ~Sat(c[j].match, pkt)
           n == CHOOSE i \in DOMAIN c : First(i)
<1>1. PICK i \in DOMAIN c : First(i) /\ c[i].actions = as
  BY DEF Decided
<1>2. n \in DOMAIN c /\ First(n)
  BY <1>1
<1>3. RuleFor(c, pkt) = c[n]
  BY DEF RuleFor
<1> HIDE DEF n
<1>4. n = i
  <2>1. DOMAIN c = 1 .. Len(c) /\ Len(c) \in Nat
    BY LenProperties
  <2>2. n \in Nat /\ i \in Nat /\ n >= 1 /\ i >= 1
    BY <1>1, <1>2, <2>1
  <2>3. ~(n < i) /\ ~(i < n)
    <3>1. n < i => n \in 1 .. i - 1
      BY <2>2
    <3>2. i < n => i \in 1 .. n - 1
      BY <2>2
    <3> QED
      BY <1>1, <1>2, <3>1, <3>2
  <2> QED
    BY <2>2, <2>3
<1> QED
  BY <1>1, <1>3, <1>4 DEF Acts

\* What a classifier that agrees with an evaluation does to a packet.
LEMMA CompiledActs ==
    ASSUME ModsExact, NEW p \in Policy, NEW pkt \in Frames
    PROVE  LET c == Compile[p]
           IN  /\ \E i \in DOMAIN c : Sat(c[i].match, pkt)
               /\ Controller \in Acts(c, pkt) <=> SentUp(Reached[p][pkt])
               /\ Controller \notin Acts(c, pkt) =>
                     /\ ClassifierEval(c, pkt) = Eval[p][pkt]
                     /\ {a \in Acts(c, pkt) : a.k = "count"} = Reached[p][pkt]
<1> DEFINE c == Compile[p]
           E == Eval[p][pkt]
           R == Reached[p][pkt]
<1>1. c \in Classifiers
  BY CompileExact
<1>2. Agrees(c, Eval[p], Reached[p])
  BY PoliciesCompile DEF Compiles
<1>3. PICK L : Decides(c, pkt, L) /\ Right(L, pkt, E, R)
  BY <1>2 DEF Agrees
<1> HIDE DEF c, E, R
<1>4. PICK as : Decided(c, pkt, as) /\ Live(as) = L
  BY <1>3 DEF Decides
<1> DEFINE K == Acts(c, pkt)
<1>5. (\E i \in DOMAIN c : Sat(c[i].match, pkt)) /\ K = Range(as)
  BY <1>1, <1>4, ActsExact DEF Classifiers
<1> HIDE DEF K
<1>6. L = K \ {Drop}
  BY <1>4, <1>5 DEF Live
<1>7. EvalOf(Drop, <<>>, pkt) = {} /\ Drop.k # "count" /\ Drop # Controller
  BY EvalKinds DEF Drop, Controller
<1>8. Controller \in K <=> Controller \in L
  BY <1>6, <1>7
<1>9. UNION {EvalOf(a, <<>>, pkt) : a \in K} = Out(L, pkt)
  BY <1>6, <1>7 DEF Out
<1>10. {a \in K : a.k = "count"} = Counts(L)
  BY <1>6, <1>7 DEF Counts
<1>11. ClassifierEval(c, pkt) = Out(L, pkt)
  BY <1>9 DEF ClassifierEval, K
<1> QED
  BY <1>3, <1>5, <1>8, <1>10, <1>11 DEF Right, K, c, E, R

(* What switches do to a packet with the classifier of a program is what the
   program's evaluation does to it, counters included, or they send it up. *)
THEOREM CompileAgreesHolds ==
    ASSUME ModsExact
    PROVE  Spec => []CompileAgrees
<1>1. pol \in Policy => CompileAgrees
  BY CompiledActs, SamplesAreFrames DEF CompileAgrees
<1> QED
  BY <1>1, ProgramsArePolicies, PTL

(* The packets that go to the controller are those whose evaluation fills a
   bucket or sets a virtual header. *)
THEOREM BucketsAreFedHolds ==
    ASSUME ModsExact
    PROVE  Spec => []BucketsAreFed
<1>1. pol \in Policy => BucketsAreFed
  BY CompiledActs, SamplesAreFrames DEF BucketsAreFed, SentUp
<1> QED
  BY <1>1, ProgramsArePolicies, PTL
-----------------------------------------------------------------------------
(* Lists of rules and actions *)

IsSequence(s) == s \in Seq(Range(s))

LEMMA SequenceOf ==
    ASSUME NEW S, NEW s \in Seq(S)
    PROVE  IsSequence(s) /\ Range(s) \subseteq S
<1>1. Len(s) \in Nat /\ DOMAIN s = 1 .. Len(s) /\ \A i \in 1 .. Len(s) : s[i] \in S
  BY LenProperties, ElementOfSeq
<1>2. Range(s) \subseteq S
  BY <1>1 DEF Range
<1>3. s = [i \in 1 .. Len(s) |-> s[i]]
  BY <1>1
<1>4. s \in [1 .. Len(s) -> Range(s)]
  BY <1>1, <1>3 DEF Range
<1> QED
  BY <1>1, <1>2, <1>4, AsSequence DEF IsSequence

LEMMA SequenceIn ==
    ASSUME NEW s, IsSequence(s)
    PROVE  /\ Len(s) \in Nat /\ DOMAIN s = 1 .. Len(s) /\ s = [i \in 1 .. Len(s) |-> s[i]]
           /\ \A S : Range(s) \subseteq S => s \in Seq(S)
<1> DEFINE R == Range(s)
<1>1. s \in Seq(R)
  BY DEF IsSequence
<1>2. Len(s) \in Nat /\ DOMAIN s = 1 .. Len(s) /\ s = [i \in 1 .. Len(s) |-> s[i]]
  BY <1>1, LenProperties
<1>3. ASSUME NEW S, R \subseteq S PROVE s \in Seq(S)
  <2>1. \A i \in 1 .. Len(s) : s[i] \in S
    BY <1>2, <1>3 DEF Range
  <2>2. s \in [1 .. Len(s) -> S]
    BY <1>2, <2>1
  <2> QED
    BY <1>2, <2>2, AsSequence
<1> QED
  BY <1>2, <1>3

LEMMA SetToSeqExact ==
    ASSUME NEW S, IsFiniteSet(S)
    PROVE  IsSequence(SetToSeq(S)) /\ Range(SetToSeq(S)) = S
<1> DEFINE n == Cardinality(S)
           D == 1 .. n
           f == CHOOSE g \in [D -> S] : IsInjective(g)
<1>1. n \in Nat /\ ExistsBijection(D, S)
  BY FS_CardinalityType
<1>2. SetToSeq(S) = f
  BY DEF SetToSeq
<1> HIDE DEF n
<1>3. \E g \in [D -> S] : IsInjective(g)
  BY <1>1 DEF ExistsBijection, Bijection, Injection
<1>4. f \in [D -> S] /\ IsInjective(f)
  BY <1>3
<1> HIDE DEF f
<1>5. f \in Injection(D, S)
  BY <1>4 DEF Injection
<1>6. Cardinality(D) = n
  <2>1. n \in Int /\ 1 \in Int
    BY <1>1
  <2>2. Cardinality(D) = IF 1 > n THEN 0 ELSE n - 1 + 1
    BY <2>1, FS_Interval
  <2> QED
    BY <1>1, <2>2
<1>7. f \in Surjection(D, S)
  BY <1>5, <1>6, FS_Injection DEF n
<1>8. Range(f) = S
  BY <1>4, <1>7 DEF Surjection, Range
<1>9. f \in Seq(S)
  BY <1>1, <1>4, AsSequence
<1> QED
  BY <1>2, <1>8, <1>9 DEF IsSequence

\* What a list contains is finite, and so is what is made of each of it.
LEMMA RangeFinite ==
    ASSUME NEW s, IsSequence(s)
    PROVE  IsFiniteSet(Range(s))
<1>1. Len(s) \in Nat /\ DOMAIN s = 1 .. Len(s) /\ s = [i \in 1 .. Len(s) |-> s[i]]
  BY SequenceIn
<1>2. s \in Surjection(1 .. Len(s), Range(s))
  BY <1>1 DEF Surjection, Range
<1>3. IsFiniteSet(1 .. Len(s))
  BY <1>1, FS_Interval
<1> QED
  BY <1>2, <1>3, FS_Surjection

LEMMA ImageFinite ==
    ASSUME NEW S, IsFiniteSet(S), NEW f, f = [x \in S |-> f[x]]
    PROVE  IsFiniteSet({f[x] : x \in S})
<1>1. f \in Surjection(S, {f[x] : x \in S})
  BY DEF Surjection
<1> QED
  BY <1>1, FS_Surjection

\* Rules of which all that match a packet have the same actions.
LEMMA UniformDecides ==
    ASSUME NEW c, IsSequence(c), NEW pkt, NEW as,
           \A r \in Range(c) : Sat(r.match, pkt) => r.actions = as
    PROVE  /\ (\E r \in Range(c) : Sat(r.match, pkt)) => Decided(c, pkt, as)
           /\ Silent(c, pkt) <=> \A r \in Range(c) : ~Sat(r.match, pkt)
<1>1. Silent(c, pkt) <=> \A r \in Range(c) : ~Sat(r.match, pkt)
  BY DEF Silent, Range
<1>2. ASSUME NEW r \in Range(c), Sat(r.match, pkt) PROVE Decided(c, pkt, as)
  <2>1. ~Silent(c, pkt)
    BY <1>1, <1>2
  <2> DEFINE R == Range(c)
  <2>2. c \in Seq(R)
    BY DEF IsSequence
  <2>3. PICK bs : Decided(c, pkt, bs)
    <3> HIDE DEF R
    <3> QED
      BY <2>1, <2>2, DecidedOnce
  <2>4. bs = as
    BY <2>3 DEF Decided, Range
  <2> QED
    BY <2>3, <2>4
<1> QED
  BY <1>1, <1>2

\* A list of rules, each of which gives way to a list of its own: the list of the
\* first rule that matches a packet decides, if it has a rule for it.
LEMMA BlocksChange ==
    ASSUME NEW c, IsSequence(c), NEW ss, ss = [i \in DOMAIN c |-> ss[i]],
           \A i \in DOMAIN c : IsSequence(ss[i])
    PROVE  /\ IsSequence(FlattenSeq(ss))
           /\ Range(FlattenSeq(ss)) = UNION {Range(ss[i]) : i \in DOMAIN c}
           /\ \E T : ss \in Seq(Seq(T)) /\ DOMAIN ss = DOMAIN c
<1> DEFINE S == Range(c)
           T == UNION {Range(ss[i]) : i \in DOMAIN c}
           d == FlattenSeq(ss)
<1>1. c \in Seq(S)
  BY DEF IsSequence
<1>2. \A i \in DOMAIN c : ss[i] \in Seq(T)
  <2> SUFFICES ASSUME NEW i \in DOMAIN c PROVE ss[i] \in Seq(T)
    OBVIOUS
  <2>1. Range(ss[i]) \subseteq T
    OBVIOUS
  <2> HIDE DEF T
  <2> QED
    BY <2>1, SequenceIn
<1> HIDE DEF S, T
<1>3. ss \in Seq(Seq(T)) /\ DOMAIN ss = DOMAIN c
  <2> DEFINE Q == Seq(T)
  <2>1. \A i \in DOMAIN c : ss[i] \in Q
    BY <1>2
  <2> HIDE DEF Q
  <2>2. ss \in Seq(Q) /\ DOMAIN ss = DOMAIN c
    BY <1>1, <2>1, AsBlocks
  <2> QED
    BY <2>2 DEF Q
<1>4. IsSequence(d) /\ Range(d) = UNION {Range(ss[i]) : i \in DOMAIN c}
  <2>1. d \in Seq(T)
    BY <1>3, FlattenType
  <2> QED
    BY <2>1, <1>3, SequenceOf, FlattenRange
<1> QED
  BY <1>3, <1>4

LEMMA BlocksDecide ==
    ASSUME NEW c, IsSequence(c), NEW ss, ss = [i \in DOMAIN c |-> ss[i]],
           \A i \in DOMAIN c : IsSequence(ss[i]), NEW pkt,
           \A i \in DOMAIN c : ~Sat(c[i].match, pkt) => Silent(ss[i], pkt)
    PROVE  /\ Silent(c, pkt) => Silent(FlattenSeq(ss), pkt)
           /\ \A as : Decided(c, pkt, as) =>
                 \E i \in DOMAIN c :
                    /\ Sat(c[i].match, pkt) /\ c[i].actions = as
                    /\ \A bs : Decided(ss[i], pkt, bs) => Decided(FlattenSeq(ss), pkt, bs)
<1> DEFINE d == FlattenSeq(ss)
<1>1. PICK T : ss \in Seq(Seq(T)) /\ DOMAIN ss = DOMAIN c
  BY BlocksChange
<1>2. /\ Silent(d, pkt) <=> \A i \in DOMAIN c : Silent(ss[i], pkt)
      /\ \A bs : Decided(d, pkt, bs) <=>
            \E i \in DOMAIN c : Decided(ss[i], pkt, bs) /\ \A j \in 1 .. i - 1 : Silent(ss[j], pkt)
  BY <1>1, FlattenDecides
<1> HIDE DEF d
<1>3. Silent(c, pkt) => Silent(d, pkt)
  BY <1>2 DEF Silent
<1>4. ASSUME NEW as, Decided(c, pkt, as)
      PROVE  \E i \in DOMAIN c :
                /\ Sat(c[i].match, pkt) /\ c[i].actions = as
                /\ \A bs : Decided(ss[i], pkt, bs) => Decided(d, pkt, bs)
  <2>1. PICK i \in DOMAIN c : /\ Sat(c[i].match, pkt) /\ c[i].actions = as
                              /\ \A j \in 1 .. i - 1 : ~Sat(c[j].match, pkt)
    BY <1>4 DEF Decided
  <2>2. \A j \in 1 .. i - 1 : j \in DOMAIN c
    BY SequenceIn
  <2>3. \A j \in 1 .. i - 1 : Silent(ss[j], pkt)
    BY <2>1, <2>2
  <2> QED
    BY <1>2, <2>1, <2>3
<1> QED
  BY <1>3, <1>4 DEF d

\* A list of rules that give way to one rule each, which matches the same packets.
LEMMA RulesChange ==
    ASSUME NEW c, IsSequence(c), NEW d, d = [i \in DOMAIN c |-> d[i]]
    PROVE  IsSequence(d) /\ Range(d) = {d[i] : i \in DOMAIN c}
<1> DEFINE R == {d[i] : i \in DOMAIN c}
<1>1. Len(c) \in Nat /\ DOMAIN c = 1 .. Len(c)
  BY SequenceIn
<1>2. d \in [1 .. Len(c) -> R] /\ Range(d) = R
  BY <1>1 DEF Range
<1> HIDE DEF R
<1>3. d \in Seq(R)
  BY <1>1, <1>2, AsSequence
<1> QED
  BY <1>2, <1>3 DEF IsSequence, R

LEMMA RulesDecide ==
    ASSUME NEW c, IsSequence(c), NEW d, DOMAIN d = DOMAIN c, NEW pkt,
           \A i \in DOMAIN c : Sat(d[i].match, pkt) <=> Sat(c[i].match, pkt)
    PROVE  /\ Silent(c, pkt) => Silent(d, pkt)
           /\ \A as : Decided(c, pkt, as) =>
                 \E i \in DOMAIN c : /\ Sat(c[i].match, pkt) /\ c[i].actions = as
                                     /\ Decided(d, pkt, d[i].actions)
<1>1. Silent(c, pkt) => Silent(d, pkt)
  BY DEF Silent
<1>2. ASSUME NEW as, Decided(c, pkt, as)
      PROVE  \E i \in DOMAIN c : /\ Sat(c[i].match, pkt) /\ c[i].actions = as
                                 /\ Decided(d, pkt, d[i].actions)
  <2>1. PICK i \in DOMAIN c : /\ Sat(c[i].match, pkt) /\ c[i].actions = as
                              /\ \A j \in 1 .. i - 1 : ~Sat(c[j].match, pkt)
    BY <1>2 DEF Decided
  <2>2. \A j \in 1 .. i - 1 : j \in DOMAIN c
    BY SequenceIn
  <2>3. \A j \in 1 .. i - 1 : ~Sat(d[j].match, pkt)
    BY <2>1, <2>2
  <2>4. i \in DOMAIN d /\ Sat(d[i].match, pkt)
    BY <2>1
  <2> QED
    BY <2>1, <2>3, <2>4 DEF Decided
<1> QED
  BY <1>1, <1>2
-----------------------------------------------------------------------------
(* Tests of one more field *)

\* Ports and switches are tested by their numbers.
Placed(m) == \A f \in DOMAIN m \intersect {"switch", "inport"} : \E v : m[f] = {v}

LEMMA MeetField ==
    ASSUME NEW m, NEW f, NEW v, NEW n, n = Meet(m, HasField(f, v)), f \notin DOMAIN m
    PROVE  /\ DOMAIN n = DOMAIN m \union {f}
           /\ \A pkt : Sat(n, pkt) <=> Sat(m, pkt) /\ pkt[f] = v
           /\ Placed(m) => Placed(n)
<1> DEFINE h == HasField(f, v)
<1>1. DOMAIN h = {f} /\ h[f] = {v}
  BY DEF HasField
<1>2. DOMAIN n = DOMAIN m \union {f}
  BY <1>1 DEF Meet
<1>3. n[f] = {v} /\ \A g \in DOMAIN m : n[g] = m[g]
  BY <1>1 DEF Meet
<1> HIDE DEF h
<1>4. \A pkt : Sat(n, pkt) <=> Sat(m, pkt) /\ pkt[f] = v
  BY <1>2, <1>3 DEF Sat
<1>5. Placed(m) => Placed(n)
  BY <1>2, <1>3 DEF Placed
<1> QED
  BY <1>2, <1>4, <1>5

LEMMA MeetFieldDomain ==
    ASSUME NEW m, NEW f, NEW v, NEW n, n = Meet(m, HasField(f, v)), f \notin DOMAIN m
    PROVE  DOMAIN n = DOMAIN m \union {f}
  BY MeetField

LEMMA MeetFieldSat ==
    ASSUME NEW m, NEW f, NEW v, NEW n, n = Meet(m, HasField(f, v)), f \notin DOMAIN m, NEW pkt
    PROVE  Sat(n, pkt) <=> Sat(m, pkt) /\ pkt[f] = v
  BY MeetField

\* A test of a value that is tested already.
LEMMA MeetAgain ==
    ASSUME NEW m, NEW f, NEW v, NEW n, n = Meet(m, HasField(f, v)), f \in DOMAIN m, m[f] = {v}
    PROVE  /\ DOMAIN n = DOMAIN m
           /\ \A pkt : Sat(n, pkt) <=> Sat(m, pkt)
           /\ Placed(m) => Placed(n)
<1> DEFINE h == HasField(f, v)
<1>1. DOMAIN h = {f} /\ h[f] = {v}
  BY DEF HasField
<1>2. DOMAIN n = DOMAIN m
  BY <1>1 DEF Meet
<1>3. \A g \in DOMAIN m : n[g] = m[g]
  BY <1>1 DEF Meet
<1> HIDE DEF h
<1>4. \A pkt : Sat(n, pkt) <=> Sat(m, pkt)
  BY <1>2, <1>3 DEF Sat
<1>5. Placed(m) => Placed(n)
  BY <1>2, <1>3 DEF Placed
<1> QED
  BY <1>2, <1>4, <1>5
-----------------------------------------------------------------------------
(* The transformations, one by one *)

Addressed(m) == \A f \in DOMAIN m \intersect {"srcip", "dstip"} : Absent \notin m[f]
Untagged(m)  == "vlan_id" \notin DOMAIN m

\* Rules that prioritize and OF_inportize can make something of.
Steady(c) == IsSequence(c) /\ \A r \in Range(c) : Placed(r.match) /\ IsSequence(r.actions)

LEMMA RemainingExact ==
    ASSUME NEW acts, IsSequence(acts)
    PROVE  /\ IsSequence(Remaining(acts))
           /\ Range(Remaining(acts)) = {a \in Range(acts) : ~IsRemoved(a)}
<1> DEFINE S == Range(acts)
           Q == Seq(S)
           ss == [i \in DOMAIN acts |-> IF IsRemoved(acts[i]) THEN <<>> ELSE <<acts[i]>>]
<1>1. Len(acts) \in Nat /\ DOMAIN acts = 1 .. Len(acts) /\ \A i \in DOMAIN acts : acts[i] \in S
  BY SequenceIn DEF Range
<1>2. \A i \in DOMAIN acts : /\ ss[i] \in Q
                             /\ Range(ss[i]) = IF IsRemoved(acts[i]) THEN {} ELSE {acts[i]}
  <2> HIDE DEF S
  <2>1. ASSUME NEW a \in S
        PROVE  <<a>> \in Seq(S) /\ <<>> \in Seq(S) /\ Range(<<a>>) = {a} /\ Range(<<>>) = {}
    BY SingleDecides
  <2> QED
    BY <1>1, <2>1
<1>3. Remaining(acts) = FlattenSeq(ss)
  BY DEF Remaining
<1>4. ss \in [1 .. Len(acts) -> Q] /\ DOMAIN ss = DOMAIN acts
  BY <1>1, <1>2
<1> HIDE DEF S, Q, ss
<1>5. ss \in Seq(Q)
  BY <1>1, <1>4, AsSequence
<1>6. FlattenSeq(ss) \in Seq(S) /\ Range(FlattenSeq(ss)) = UNION {Range(ss[i]) : i \in DOMAIN ss}
  BY <1>5, FlattenType, FlattenRange DEF Q
<1>7. UNION {Range(ss[i]) : i \in DOMAIN ss} = {a \in Range(acts) : ~IsRemoved(a)}
  <2>1. ASSUME NEW a \in UNION {Range(ss[i]) : i \in DOMAIN ss}
        PROVE  a \in Range(acts) /\ ~IsRemoved(a)
    <3>1. PICK i \in DOMAIN acts : a \in Range(ss[i])
      BY <1>4
    <3>2. ~IsRemoved(acts[i]) /\ a = acts[i]
      BY <1>2, <3>1
    <3> QED
      BY <3>2 DEF Range
  <2>2. ASSUME NEW a \in Range(acts), ~IsRemoved(a)
        PROVE  a \in UNION {Range(ss[i]) : i \in DOMAIN ss}
    <3>1. PICK i \in DOMAIN acts : a = acts[i]
      BY DEF Range
    <3>2. ~IsRemoved(acts[i])
      BY <2>2, <3>1
    <3>3. a \in Range(ss[i])
      BY <1>2, <3>1, <3>2
    <3> QED
      BY <1>4, <3>3
  <2> QED
    BY <2>1, <2>2
<1> QED
  BY <1>3, <1>6, <1>7, SequenceOf

LEMMA RemoveActionsExact ==
    ASSUME NEW c, IsSequence(c), NEW pkt
    PROVE  LET d == RemoveActions(c)
           IN  /\ IsSequence(d)
               /\ \A r \in Range(d) : \E q \in Range(c) : r = Rule(q.match, Remaining(q.actions))
               /\ Silent(c, pkt) => Silent(d, pkt)
               /\ \A as : Decided(c, pkt, as) => Decided(d, pkt, Remaining(as))
<1> DEFINE d == RemoveActions(c)
<1>1. /\ d = [i \in DOMAIN c |-> d[i]]
      /\ \A i \in DOMAIN c : d[i] = Rule(c[i].match, Remaining(c[i].actions))
  BY DEF RemoveActions
<1>2. \A i \in DOMAIN c : d[i].match = c[i].match /\ d[i].actions = Remaining(c[i].actions)
  BY <1>1 DEF Rule
<1> HIDE DEF d
<1>3. /\ IsSequence(d) /\ Range(d) = {d[i] : i \in DOMAIN c}
      /\ Silent(c, pkt) => Silent(d, pkt)
      /\ \A as : Decided(c, pkt, as) => \E i \in DOMAIN c : c[i].actions = as /\ Decided(d, pkt, d[i].actions)
  <2>1. d = [i \in DOMAIN c |-> d[i]]
    BY <1>1
  <2>2. \A i \in DOMAIN c : Sat(d[i].match, pkt) <=> Sat(c[i].match, pkt)
    BY <1>2
  <2> QED
    <3>1. IsSequence(d) /\ Range(d) = {d[i] : i \in DOMAIN c}
      BY <2>1, RulesChange
    <3>2. DOMAIN d = DOMAIN c
      BY <2>1
    <3> QED
      BY <2>2, <3>1, <3>2, RulesDecide
<1>4. \A r \in Range(d) : \E q \in Range(c) : r = Rule(q.match, Remaining(q.actions))
  BY <1>1, <1>3 DEF Range
<1>5. \A as : Decided(c, pkt, as) => Decided(d, pkt, Remaining(as))
  <2> SUFFICES ASSUME NEW as, Decided(c, pkt, as) PROVE Decided(d, pkt, Remaining(as))
    OBVIOUS
  <2>1. PICK i \in DOMAIN c : c[i].actions = as /\ Decided(d, pkt, d[i].actions)
    BY <1>3
  <2> QED
    BY <1>2, <2>1
<1> QED
  BY <1>3, <1>4, <1>5 DEF d

Controlled(acts) == IF Controller \in Range(acts) THEN <<Controller>> ELSE acts

LEMMA ControllerifyExact ==
    ASSUME NEW c, IsSequence(c), \A r \in Range(c) : r = Rule(r.match, r.actions), NEW pkt
    PROVE  LET d == Controllerify(c)
           IN  /\ IsSequence(d)
               /\ \A r \in Range(d) : \E q \in Range(c) : r = Rule(q.match, Controlled(q.actions))
               /\ Silent(c, pkt) => Silent(d, pkt)
               /\ \A as : Decided(c, pkt, as) => Decided(d, pkt, Controlled(as))
<1> DEFINE d == Controllerify(c)
<1>1. /\ d = [i \in DOMAIN c |-> d[i]]
      /\ \A i \in DOMAIN c : d[i] = Rule(c[i].match, Controlled(c[i].actions))
  <2>1. \A i \in DOMAIN c : c[i] = Rule(c[i].match, c[i].actions)
    BY DEF Range
  <2> QED
    BY <2>1 DEF Controllerify, Controlled
<1>2. \A i \in DOMAIN c : d[i].match = c[i].match /\ d[i].actions = Controlled(c[i].actions)
  BY <1>1 DEF Rule
<1> HIDE DEF d
<1>3. /\ IsSequence(d) /\ Range(d) = {d[i] : i \in DOMAIN c}
      /\ Silent(c, pkt) => Silent(d, pkt)
      /\ \A as : Decided(c, pkt, as) => \E i \in DOMAIN c : c[i].actions = as /\ Decided(d, pkt, d[i].actions)
  <2>1. d = [i \in DOMAIN c |-> d[i]]
    BY <1>1
  <2>2. \A i \in DOMAIN c : Sat(d[i].match, pkt) <=> Sat(c[i].match, pkt)
    BY <1>2
  <2> QED
    <3>1. IsSequence(d) /\ Range(d) = {d[i] : i \in DOMAIN c}
      BY <2>1, RulesChange
    <3>2. DOMAIN d = DOMAIN c
      BY <2>1
    <3> QED
      BY <2>2, <3>1, <3>2, RulesDecide
<1>4. \A r \in Range(d) : \E q \in Range(c) : r = Rule(q.match, Controlled(q.actions))
  BY <1>1, <1>3 DEF Range
<1>5. \A as : Decided(c, pkt, as) => Decided(d, pkt, Controlled(as))
  <2> SUFFICES ASSUME NEW as, Decided(c, pkt, as) PROVE Decided(d, pkt, Controlled(as))
    OBVIOUS
  <2>1. PICK i \in DOMAIN c : c[i].actions = as /\ Decided(d, pkt, d[i].actions)
    BY <1>3
  <2> QED
    BY <1>2, <2>1
<1> QED
  BY <1>3, <1>4, <1>5 DEF d

LEMMA ControllerAlone ==
    IsSequence(<<Controller>>) /\ Range(<<Controller>>) = {Controller} /\ ~IsRemoved(Controller)
<1>1. <<Controller>> \in Seq({Controller}) /\ Range(<<Controller>>) = {Controller}
  BY SingleDecides
<1> QED
  BY <1>1 DEF IsSequence, IsRemoved, Controller

LEMMA PairDecides ==
    ASSUME NEW x, NEW y, NEW pkt
    PROVE  /\ IsSequence(<<x, y>>) /\ Range(<<x, y>>) = {x, y}
           /\ ~Sat(x.match, pkt) /\ ~Sat(y.match, pkt) => Silent(<<x, y>>, pkt)
           /\ Sat(x.match, pkt) => Decided(<<x, y>>, pkt, x.actions)
           /\ ~Sat(x.match, pkt) /\ Sat(y.match, pkt) => Decided(<<x, y>>, pkt, y.actions)
<1> DEFINE c == <<x, y>>
<1>1. c \in Seq({x, y}) /\ DOMAIN c = 1 .. 2 /\ c[1] = x /\ c[2] = y
  OBVIOUS
<1> HIDE DEF c
<1>2. DOMAIN c = {1, 2} /\ 1 .. 1 - 1 = {} /\ 1 .. 2 - 1 = {1}
  BY <1>1
<1>3. Range(c) = {x, y}
  BY <1>1, <1>2 DEF Range
<1>4. IsSequence(c)
  BY <1>1, <1>3 DEF IsSequence
<1>5. ~Sat(x.match, pkt) /\ ~Sat(y.match, pkt) => Silent(c, pkt)
  BY <1>1, <1>2 DEF Silent
<1>6. Sat(x.match, pkt) => Decided(c, pkt, x.actions)
  BY <1>1, <1>2 DEF Decided
<1>7. ~Sat(x.match, pkt) /\ Sat(y.match, pkt) => Decided(c, pkt, y.actions)
  BY <1>1, <1>2 DEF Decided
<1> QED
  BY <1>3, <1>4, <1>5, <1>6, <1>7 DEF c

LEMMA OneDecides ==
    ASSUME NEW x, NEW pkt
    PROVE  /\ IsSequence(<<x>>) /\ Range(<<x>>) = {x}
           /\ ~Sat(x.match, pkt) => Silent(<<x>>, pkt)
           /\ Sat(x.match, pkt) => Decided(<<x>>, pkt, x.actions)
<1>1. x \in {x}
  OBVIOUS
<1> QED
  BY <1>1, SingleDecides DEF IsSequence

LEMMA ArrivingExact ==
    ASSUME Installable, NEW pkt \in Arriving
    PROVE  /\ pkt \in [Fields -> Values \union {Absent}] /\ pkt \in Frames
           /\ pkt["outport"] = Absent /\ pkt["ethtype"] # LLDP /\ pkt["switch"] \in Switches
           /\ {"switch", "inport", "outport", "ethtype", "vlan_id"} \subseteq Fields
           /\ Virtual \subseteq Fields
           /\ \A f \in Virtual \ {"vlan_id"} : pkt[f] = Absent
           /\ \A f \in Fields \intersect {"srcip", "dstip"} :
                 pkt[f] # Absent => pkt["ethtype"] = IPv4 \/ pkt["ethtype"] = ARP
<1>1. pkt \in Samples /\ pkt["outport"] = Absent /\ pkt["ethtype"] # LLDP
  BY DEF Arriving
<1>2. pkt \in [Fields -> Values \union {Absent}] /\ pkt \in Frames
  BY <1>1, PoliciesAssumption, SamplesAreFrames DEF Packets
<1>3. /\ pkt["switch"] \in Switches
      /\ \A f \in Virtual \ {"vlan_id"} : pkt[f] = Absent
      /\ (\E f \in Fields \intersect {"srcip", "dstip"} : pkt[f] # Absent)
            => pkt["ethtype"] \in {IPv4, ARP}
  BY DEF Installable
<1>4. {"switch", "inport", "outport", "ethtype", "vlan_id"} \union Virtual \subseteq Fields
  BY DEF Installable
<1> QED
  BY <1>1, <1>2, <1>3, <1>4

LEMMA Layer3RuleExact ==
    ASSUME Installable, NEW pkt \in Arriving, NEW r,
           Placed(r.match), Untagged(r.match), Addressed(r.match), IsSequence(r.actions),
           DOMAIN r.match \subseteq Fields
    PROVE  LET b == Layer3Rule(r)
           IN  /\ IsSequence(b)
               /\ \A q \in Range(b) : Placed(q.match) /\ Untagged(q.match) /\ IsSequence(q.actions)
               /\ ~Sat(r.match, pkt) => Silent(b, pkt)
               /\ Sat(r.match, pkt) => \/ Decided(b, pkt, r.actions)
                                       \/ Decided(b, pkt, <<Controller>>)
<1> DEFINE Split == DOMAIN r.match \intersect {"srcip", "dstip"} # {} /\ "ethtype" \notin DOMAIN r.match
           m(type) == Meet(r.match, HasField("ethtype", type))
           x == Rule(m(IPv4), r.actions)
           y == Rule(m(ARP), IF ArpBug(r.actions) THEN <<Controller>> ELSE r.actions)
<1>1. Layer3Rule(r) = IF Split THEN <<x, y>> ELSE <<r>>
  BY DEF Layer3Rule
<1>2. CASE ~Split
  <2>1. Layer3Rule(r) = <<r>>
    BY <1>1, <1>2
  <2> HIDE DEF Split
  <2> QED
    BY <2>1, OneDecides
<1>3. CASE Split
  <2>1. Layer3Rule(r) = <<x, y>>
    BY <1>1, <1>3
  <2> HIDE DEF x, y
  <2>2. ASSUME NEW type
        PROVE  /\ \A p : Sat(m(type), p) <=> Sat(r.match, p) /\ p["ethtype"] = type
               /\ Placed(m(type)) /\ Untagged(m(type))
    <3> DEFINE n == m(type)
               k == r.match
               e == "ethtype"
    <3>1. n = Meet(k, HasField(e, type)) /\ e \notin DOMAIN k
      BY <1>3
    <3> HIDE DEF n, k, e
    <3>2. /\ \A p : Sat(n, p) <=> Sat(k, p) /\ p[e] = type
          /\ DOMAIN n = DOMAIN k \union {e}
          /\ Placed(k) => Placed(n)
      BY <3>1, MeetField
    <3>3. Placed(k) /\ Untagged(k)
      BY DEF k
    <3>4. Placed(n) /\ Untagged(n)
      BY <3>2, <3>3 DEF Untagged, e
    <3> QED
      BY <3>2, <3>4 DEF n, k, e
  <2> HIDE DEF m
  <2>4. /\ x.match = m(IPv4) /\ x.actions = r.actions /\ y.match = m(ARP)
        /\ y.actions = IF ArpBug(r.actions) THEN <<Controller>> ELSE r.actions
    BY DEF Rule, x, y
  <2>5. IsSequence(x.actions) /\ IsSequence(y.actions)
    BY <2>4, ControllerAlone
  <2>6. ASSUME Sat(r.match, pkt) PROVE Sat(x.match, pkt) \/ Sat(y.match, pkt)
    <3>1. PICK f \in DOMAIN r.match \intersect {"srcip", "dstip"} : TRUE
      BY <1>3
    <3>2. pkt[f] \in r.match[f] /\ pkt[f] # Absent
      BY <2>6, <3>1 DEF Sat, Addressed
    <3>3. pkt["ethtype"] = IPv4 \/ pkt["ethtype"] = ARP
      BY <3>1, <3>2, ArrivingExact
    <3> QED
      BY <2>2, <2>4, <2>6, <3>3
  <2>7. ~Sat(r.match, pkt) => ~Sat(x.match, pkt) /\ ~Sat(y.match, pkt)
    BY <2>2, <2>4
  <2> HIDE DEF Split
  <2>8. /\ IsSequence(<<x, y>>) /\ Range(<<x, y>>) = {x, y}
        /\ ~Sat(r.match, pkt) => Silent(<<x, y>>, pkt)
        /\ Sat(r.match, pkt) => \/ Decided(<<x, y>>, pkt, x.actions)
                                \/ Decided(<<x, y>>, pkt, y.actions)
    BY <2>6, <2>7, PairDecides
  <2>9. \A q \in {x, y} : Placed(q.match) /\ Untagged(q.match) /\ IsSequence(q.actions)
    BY <2>2, <2>4, <2>5
  <2> QED
    BY <2>1, <2>4, <2>8, <2>9
<1> QED
  BY <1>2, <1>3

LEMMA Layer3Exact ==
    ASSUME Installable, NEW pkt \in Arriving, NEW c, IsSequence(c),
           \A r \in Range(c) : /\ Placed(r.match) /\ Untagged(r.match) /\ Addressed(r.match)
                               /\ IsSequence(r.actions) /\ DOMAIN r.match \subseteq Fields
    PROVE  LET d == Layer3Specialize(c)
           IN  /\ Steady(d) /\ \A r \in Range(d) : Untagged(r.match)
               /\ Silent(c, pkt) => Silent(d, pkt)
               /\ \A as : Decided(c, pkt, as) => Decided(d, pkt, as) \/ Decided(d, pkt, <<Controller>>)
<1> DEFINE ss == [i \in DOMAIN c |-> Layer3Rule(c[i])]
           Good(r) == Placed(r.match) /\ Untagged(r.match) /\ IsSequence(r.actions)
           l == Rule(HasField("ethtype", LLDP), <<Controller>>)
           top == <<l>>
           rest == FlattenSeq(ss)
<1>1. ss = [i \in DOMAIN c |-> ss[i]] /\ \A i \in DOMAIN c : ss[i] = Layer3Rule(c[i])
  OBVIOUS
<1>2. \A i \in DOMAIN c : c[i] \in Range(c)
  BY DEF Range
<1> HIDE DEF ss
<1>3. ASSUME NEW i \in DOMAIN c
      PROVE  /\ IsSequence(ss[i]) /\ \A q \in Range(ss[i]) : Good(q)
             /\ ~Sat(c[i].match, pkt) => Silent(ss[i], pkt)
             /\ Sat(c[i].match, pkt) => \/ Decided(ss[i], pkt, c[i].actions)
                                        \/ Decided(ss[i], pkt, <<Controller>>)
  <2> DEFINE r == c[i]
  <2>1. /\ Placed(r.match) /\ Untagged(r.match) /\ Addressed(r.match)
        /\ IsSequence(r.actions) /\ DOMAIN r.match \subseteq Fields
    BY <1>2
  <2> HIDE DEF r
  <2>2. /\ IsSequence(Layer3Rule(r)) /\ \A q \in Range(Layer3Rule(r)) : Good(q)
        /\ ~Sat(r.match, pkt) => Silent(Layer3Rule(r), pkt)
        /\ Sat(r.match, pkt) => \/ Decided(Layer3Rule(r), pkt, r.actions)
                                \/ Decided(Layer3Rule(r), pkt, <<Controller>>)
    BY <2>1, Layer3RuleExact
  <2>3. ss[i] = Layer3Rule(r)
    BY <1>1 DEF r
  <2> QED
    BY <2>2, <2>3 DEF r
<1>4. \A i \in DOMAIN c : IsSequence(ss[i])
  BY <1>3
<1>5. IsSequence(rest) /\ Range(rest) = UNION {Range(ss[i]) : i \in DOMAIN c}
  BY <1>1, <1>4, BlocksChange
<1>6. /\ Silent(c, pkt) => Silent(rest, pkt)
      /\ \A as : Decided(c, pkt, as) =>
            \E i \in DOMAIN c : /\ Sat(c[i].match, pkt) /\ c[i].actions = as
                                /\ \A bs : Decided(ss[i], pkt, bs) => Decided(rest, pkt, bs)
  BY <1>1, <1>3, <1>4, BlocksDecide
<1>7. \A as : Decided(c, pkt, as) => Decided(rest, pkt, as) \/ Decided(rest, pkt, <<Controller>>)
  <2> SUFFICES ASSUME NEW as, Decided(c, pkt, as)
               PROVE  Decided(rest, pkt, as) \/ Decided(rest, pkt, <<Controller>>)
    OBVIOUS
  <2>1. PICK i \in DOMAIN c : /\ Sat(c[i].match, pkt) /\ c[i].actions = as
                              /\ \A bs : Decided(ss[i], pkt, bs) => Decided(rest, pkt, bs)
    BY <1>6
  <2>2. Decided(ss[i], pkt, as) \/ Decided(ss[i], pkt, <<Controller>>)
    BY <1>3, <2>1
  <2> QED
    BY <2>1, <2>2
<1>8. Layer3Specialize(c) = top \o rest
  BY DEF Layer3Specialize, ss
<1>9. Good(l) /\ ~Sat(l.match, pkt)
  <2>1. l.match = HasField("ethtype", LLDP) /\ l.actions = <<Controller>>
    BY DEF Rule
  <2> DEFINE h == HasField("ethtype", LLDP)
  <2>2. DOMAIN h = {"ethtype"} /\ h["ethtype"] = {LLDP}
    BY DEF HasField
  <2> HIDE DEF l, h
  <2>3. Placed(h) /\ Untagged(h)
    BY <2>2 DEF Placed, Untagged
  <2>4. ~Sat(h, pkt)
    BY <2>2, ArrivingExact DEF Sat
  <2> QED
    BY <2>1, <2>3, <2>4, ControllerAlone DEF h
<1> HIDE DEF l
<1>10. IsSequence(top) /\ Range(top) = {l} /\ Silent(top, pkt)
  BY <1>9, OneDecides
<1> HIDE DEF top, rest
<1> DEFINE S == Range(top) \union Range(rest)
           d == top \o rest
<1>11. top \in Seq(S) /\ rest \in Seq(S)
  <2>1. Range(top) \subseteq S /\ Range(rest) \subseteq S
    OBVIOUS
  <2> HIDE DEF S
  <2> QED
    BY <2>1, <1>5, <1>10, SequenceIn
<1>12. /\ d \in Seq(S) /\ Range(d) = S
       /\ Silent(d, pkt) <=> Silent(top, pkt) /\ Silent(rest, pkt)
       /\ \A as : Decided(d, pkt, as) <=>
             Decided(top, pkt, as) \/ (Silent(top, pkt) /\ Decided(rest, pkt, as))
  <2> HIDE DEF S
  <2>1. Range(d) = Range(top) \union Range(rest)
    BY <1>11, ConcatRange
  <2>2. d \in Seq(S)
    BY <1>11, ConcatProperties
  <2>3. /\ Silent(d, pkt) <=> Silent(top, pkt) /\ Silent(rest, pkt)
        /\ \A as : Decided(d, pkt, as) <=>
              Decided(top, pkt, as) \/ (Silent(top, pkt) /\ Decided(rest, pkt, as))
    BY <1>11, ConcatDecides
  <2> QED
    BY <2>1, <2>2, <2>3 DEF S
<1>13. IsSequence(d)
  BY <1>12 DEF IsSequence
<1>14. \A r \in Range(d) : Good(r)
  BY <1>3, <1>5, <1>9, <1>10, <1>12
<1> HIDE DEF d
<1>15. Steady(d) /\ \A r \in Range(d) : Untagged(r.match)
  BY <1>13, <1>14 DEF Steady
<1>16. d = Layer3Specialize(c)
  BY <1>8 DEF d
<1> QED
  BY <1>6, <1>7, <1>10, <1>12, <1>15, <1>16

LEMMA VlanExact ==
    ASSUME NEW c, Steady(c), \A r \in Range(c) : Untagged(r.match), NEW pkt
    PROVE  LET d == VlanSpecialize(c)
           IN  /\ Steady(d)
               /\ Silent(c, pkt) \/ pkt["vlan_id"] # Absent => Silent(d, pkt)
               /\ pkt["vlan_id"] = Absent => \A as : Decided(c, pkt, as) => Decided(d, pkt, as)
<1> DEFINE d == VlanSpecialize(c)
           v == "vlan_id"
           m(i) == Meet(c[i].match, HasField(v, Absent))
<1>1. \A i \in DOMAIN c : c[i] \in Range(c)
  BY DEF Range
<1>2. /\ d = [i \in DOMAIN c |-> d[i]]
      /\ \A i \in DOMAIN c : d[i].match = m(i) /\ d[i].actions = c[i].actions
  <2>1. \A i \in DOMAIN c : v \notin DOMAIN c[i].match
    BY <1>1 DEF Untagged
  <2>2. d = [i \in DOMAIN c |-> IF v \in DOMAIN c[i].match THEN c[i] ELSE Rule(m(i), c[i].actions)]
    BY DEF VlanSpecialize
  <2> QED
    BY <2>1, <2>2 DEF Rule
<1> HIDE DEF d
<1>3. ASSUME NEW i \in DOMAIN c
      PROVE  /\ Placed(d[i].match) /\ IsSequence(d[i].actions)
             /\ Sat(d[i].match, pkt) <=> Sat(c[i].match, pkt) /\ pkt[v] = Absent
  <2> DEFINE k == c[i].match
             n == d[i].match
  <2>1. n = Meet(k, HasField(v, Absent)) /\ v \notin DOMAIN k /\ Placed(k)
    BY <1>1, <1>2 DEF Untagged, Steady
  <2> HIDE DEF n, k, v
  <2>2. /\ Sat(n, pkt) <=> Sat(k, pkt) /\ pkt[v] = Absent
        /\ Placed(n)
    BY <2>1, MeetField
  <2>3. IsSequence(d[i].actions)
    BY <1>1, <1>2 DEF Steady
  <2> QED
    BY <2>2, <2>3 DEF n, k
<1>4. IsSequence(c)
  BY DEF Steady
<1>5. IsSequence(d) /\ Range(d) = {d[i] : i \in DOMAIN c}
  BY <1>2, <1>4, RulesChange
<1>6. Steady(d)
  BY <1>3, <1>5 DEF Steady
<1>7. DOMAIN d = DOMAIN c
  BY <1>2
<1>8. Silent(c, pkt) \/ pkt[v] # Absent => Silent(d, pkt)
  BY <1>3, <1>7 DEF Silent
<1>9. ASSUME pkt[v] = Absent, NEW as, Decided(c, pkt, as)
      PROVE  Decided(d, pkt, as)
  <2>1. \A i \in DOMAIN c : Sat(d[i].match, pkt) <=> Sat(c[i].match, pkt)
    BY <1>3, <1>9
  <2>2. \E i \in DOMAIN c : c[i].actions = as /\ Decided(d, pkt, d[i].actions)
    <3>1. Decided(c, pkt, as)
      BY <1>9
    <3> HIDE DEF v, m
    <3>2. \A bs : Decided(c, pkt, bs) => \E i \in DOMAIN c : c[i].actions = bs /\ Decided(d, pkt, d[i].actions)
      BY <1>4, <1>7, <2>1, RulesDecide
    <3> QED
      BY <3>1, <3>2
  <2> QED
    BY <1>2, <2>2
<1> QED
  BY <1>6, <1>8, <1>9 DEF d, v
-----------------------------------------------------------------------------
(* The rules of a program, as prioritize gets them *)

LEMMA CompiledRules ==
    ASSUME ModsExact, Installable, NEW p \in Policy
    PROVE  /\ IsSequence(Compile[p])
           /\ \A r \in Range(Compile[p]) :
                 /\ Placed(r.match) /\ Untagged(r.match) /\ Addressed(r.match)
                 /\ IsSequence(r.actions) /\ DOMAIN r.match \subseteq Fields
<1> DEFINE c == Compile[p]
           R == Rules(Mixed(Tests), Seq(Deeds))
<1>1. c \in Seq(R)
  BY CompileExact DEF Classifiers
<1> HIDE DEF c, R
<1>2. IsSequence(c) /\ Range(c) \subseteq R
  BY <1>1, SequenceOf
<1>3. ASSUME NEW m \in Mixed(Tests)
      PROVE  Placed(m) /\ Untagged(m) /\ Addressed(m) /\ DOMAIN m \subseteq Fields
  <2>1. \A f \in DOMAIN m : \E k \in Tests : f \in DOMAIN k /\ m[f] = k[f]
    BY MixedIn
  <2>2. \A k \in Tests :
           /\ "vlan_id" \notin DOMAIN k /\ DOMAIN k \subseteq Fields
           /\ \A f \in DOMAIN k \intersect {"switch", "inport"} : \E v : k[f] = {v}
           /\ \A f \in DOMAIN k \intersect {"srcip", "dstip"} : Absent \notin k[f]
    BY PoliciesAssumption DEF Installable
  <2>3. Placed(m)
    <3> SUFFICES ASSUME NEW f \in DOMAIN m \intersect {"switch", "inport"} PROVE \E v : m[f] = {v}
      BY DEF Placed
    <3>1. PICK k \in Tests : f \in DOMAIN k /\ m[f] = k[f]
      BY <2>1
    <3> QED
      BY <2>2, <3>1
  <2>4. Addressed(m)
    BY <2>1, <2>2 DEF Addressed
  <2> QED
    BY <2>1, <2>2, <2>3, <2>4 DEF Untagged
<1>4. \A r \in R : r.match \in Mixed(Tests) /\ IsSequence(r.actions)
  BY SequenceOf DEF R, Rules
<1> QED
  BY <1>2, <1>3, <1>4 DEF c

\* The actions bs that the transformations make of as: to the controller, or what
\* as does but for drops, counters and identities.
Reduced(as, bs) ==
    \/ Range(bs) = {Controller}
    \/ Controller \notin Range(as) /\ Range(bs) = {a \in Range(as) : ~IsRemoved(a)}

LEMMA PreparedExact ==
    ASSUME ModsExact, Installable, NEW p \in Policy, NEW pkt \in Arriving,
           NEW as, Decided(Compile[p], pkt, as)
    PROVE  /\ Steady(Prepared(Compile[p]))
           /\ \/ Silent(Prepared(Compile[p]), pkt)
              \/ /\ pkt["vlan_id"] = Absent
                 /\ \E bs : Decided(Prepared(Compile[p]), pkt, bs) /\ Reduced(as, bs)
<1> DEFINE c0 == Compile[p]
           c1 == RemoveActions(c0)
           c2 == Controllerify(c1)
           c3 == Layer3Specialize(c2)
           c4 == VlanSpecialize(c3)
           c5 == RemoveActions(c4)
           as1 == Remaining(as)
           as2 == Controlled(as1)
           Fit(r) == /\ Placed(r.match) /\ Untagged(r.match) /\ Addressed(r.match)
                     /\ IsSequence(r.actions) /\ DOMAIN r.match \subseteq Fields
<1>0. Prepared(c0) = c5
  BY DEF Prepared
<1>1. IsSequence(c0) /\ \A r \in Range(c0) : Fit(r)
  BY CompiledRules
<1>2. IsSequence(as)
  BY <1>1 DEF Decided, Range
<1> HIDE DEF c0
<1>3. /\ IsSequence(c1) /\ Decided(c1, pkt, as1)
      /\ \A r \in Range(c1) : \E q \in Range(c0) : r = Rule(q.match, Remaining(q.actions))
  BY <1>1, RemoveActionsExact DEF c0
<1> HIDE DEF c1
<1>4. \A r \in Range(c1) : Fit(r) /\ r = Rule(r.match, r.actions)
  BY <1>1, <1>3, RemainingExact DEF Rule
<1>5. /\ IsSequence(c2) /\ Decided(c2, pkt, as2)
      /\ \A r \in Range(c2) : \E q \in Range(c1) : r = Rule(q.match, Controlled(q.actions))
  BY <1>3, <1>4, ControllerifyExact
<1> HIDE DEF c2
<1>6. \A r \in Range(c2) : Fit(r)
  BY <1>4, <1>5, ControllerAlone DEF Rule, Controlled
<1>7. /\ Steady(c3) /\ \A r \in Range(c3) : Untagged(r.match)
      /\ Decided(c3, pkt, as2) \/ Decided(c3, pkt, <<Controller>>)
  BY <1>5, <1>6, Layer3Exact
<1> HIDE DEF c3
<1>8. /\ Steady(c4) /\ IsSequence(c4)
      /\ pkt["vlan_id"] # Absent => Silent(c4, pkt)
      /\ pkt["vlan_id"] = Absent => \A bs : Decided(c3, pkt, bs) => Decided(c4, pkt, bs)
  BY <1>7, VlanExact DEF Steady
<1> HIDE DEF c4
<1>9. /\ IsSequence(c5)
      /\ \A r \in Range(c5) : \E q \in Range(c4) : r = Rule(q.match, Remaining(q.actions))
      /\ Silent(c4, pkt) => Silent(c5, pkt)
      /\ \A bs : Decided(c4, pkt, bs) => Decided(c5, pkt, Remaining(bs))
  BY <1>8, RemoveActionsExact
<1> HIDE DEF c5
<1>10. Steady(c5)
  BY <1>8, <1>9, RemainingExact DEF Steady, Rule
<1>11. IsSequence(as1) /\ Range(as1) = {a \in Range(as) : ~IsRemoved(a)}
  BY <1>2, RemainingExact
<1>12. Reduced(as, Remaining(<<Controller>>))
  <2>1. Range(Remaining(<<Controller>>)) = {a \in {Controller} : ~IsRemoved(a)}
    BY ControllerAlone, RemainingExact
  <2>2. Range(Remaining(<<Controller>>)) = {Controller}
    BY <2>1, ControllerAlone
  <2> QED
    BY <2>2 DEF Reduced
<1>13. Reduced(as, Remaining(as2))
  <2>1. CASE Controller \in Range(as1)
    BY <2>1, <1>12 DEF Controlled
  <2>2. CASE Controller \notin Range(as1)
    <3>1. as2 = as1
      BY <2>2 DEF Controlled
    <3>2. Controller \notin Range(as)
      BY <2>2, <1>11, ControllerAlone
    <3>3. Range(Remaining(as1)) = {a \in Range(as1) : ~IsRemoved(a)}
      BY <1>11, RemainingExact
    <3>4. Range(Remaining(as1)) = {a \in Range(as) : ~IsRemoved(a)}
      BY <1>11, <3>3
    <3> QED
      BY <3>1, <3>2, <3>4 DEF Reduced
  <2> QED
    BY <2>1, <2>2
<1>14. CASE pkt["vlan_id"] # Absent
  BY <1>0, <1>8, <1>9, <1>10, <1>14 DEF c0
<1>15. CASE pkt["vlan_id"] = Absent
  <2> HIDE DEF as2
  <2>1. Decided(c4, pkt, as2) \/ Decided(c4, pkt, <<Controller>>)
    BY <1>7, <1>8, <1>15
  <2>2. Decided(c5, pkt, Remaining(as2)) \/ Decided(c5, pkt, Remaining(<<Controller>>))
    BY <1>9, <2>1
  <2> QED
    BY <1>0, <1>10, <1>12, <1>13, <1>15, <2>2 DEF c0
<1> QED
  BY <1>14, <1>15
-----------------------------------------------------------------------------
(* The rules of the switches *)

\* Rules of one switch each.
PerSwitch(c) == Steady(c) /\ \A r \in Range(c) : "switch" \in DOMAIN r.match

LEMMA SwitchRulesExact ==
    ASSUME Installable, NEW pkt \in Arriving, NEW r, Placed(r.match), IsSequence(r.actions)
    PROVE  LET b == SwitchRules(r)
           IN  /\ PerSwitch(b)
               /\ ~Sat(r.match, pkt) => Silent(b, pkt)
               /\ Sat(r.match, pkt) => Decided(b, pkt, r.actions)
<1> DEFINE w == "switch"
           b == SwitchRules(r)
           f == [s \in Switches |-> Rule(Meet(r.match, HasField(w, s)), r.actions)]
           B == {f[s] : s \in Switches}
<1>1. b = IF w \in DOMAIN r.match
          THEN IF \E s \in Switches : r.match[w] = {s} THEN <<r>> ELSE <<>>
          ELSE SetToSeq({Rule(Meet(r.match, HasField(w, s)), r.actions) : s \in Switches})
  BY DEF SwitchRules
<1>2. pkt[w] \in Switches /\ IsFiniteSet(Switches)
  BY ArrivingExact DEF Installable
<1>3. CASE w \in DOMAIN r.match
  <2>1. CASE \E s \in Switches : r.match[w] = {s}
    <3>1. b = <<r>>
      BY <1>1, <1>3, <2>1
    <3> HIDE DEF b
    <3> QED
      BY <1>3, <3>1, OneDecides DEF PerSwitch, Steady, b, w
  <2>2. CASE ~\E s \in Switches : r.match[w] = {s}
    <3>1. b = <<>>
      BY <1>1, <1>3, <2>2
    <3>2. PICK v : r.match[w] = {v}
      BY <1>3 DEF Placed
    <3>3. ~Sat(r.match, pkt)
      BY <1>2, <1>3, <2>2, <3>2 DEF Sat
    <3>4. <<>> \in Seq({r}) /\ Range(<<>>) = {} /\ Silent(<<>>, pkt)
      BY SingleDecides
    <3>5. IsSequence(<<>>)
      BY <3>4, SequenceOf
    <3> HIDE DEF b
    <3> QED
      BY <3>1, <3>3, <3>4, <3>5 DEF PerSwitch, Steady, b
  <2> QED
    BY <2>1, <2>2
<1>4. CASE w \notin DOMAIN r.match
  <2>1. B = {Rule(Meet(r.match, HasField(w, s)), r.actions) : s \in Switches}
    OBVIOUS
  <2>2. b = SetToSeq(B)
    BY <1>1, <1>4, <2>1
  <2>3. ASSUME NEW s \in Switches
        PROVE  /\ Placed(f[s].match) /\ f[s].actions = r.actions /\ w \in DOMAIN f[s].match
               /\ Sat(f[s].match, pkt) <=> Sat(r.match, pkt) /\ pkt[w] = s
    <3> DEFINE k == r.match
               n == f[s].match
    <3>1. n = Meet(k, HasField(w, s)) /\ w \notin DOMAIN k /\ Placed(k) /\ f[s].actions = r.actions
      BY <1>4 DEF Rule
    <3> HIDE DEF n, k, w
    <3>2. Sat(n, pkt) <=> Sat(k, pkt) /\ pkt[w] = s
      BY <3>1, MeetFieldSat
    <3>3. Placed(n)
      BY <3>1, MeetField
    <3>4. w \in DOMAIN n
      <4>1. DOMAIN n = DOMAIN k \union {w}
        BY <3>1, MeetFieldDomain
      <4> QED
        BY <4>1
    <3> QED
      BY <3>1, <3>2, <3>3, <3>4 DEF n, k
  <2>4. f = [s \in Switches |-> f[s]]
    OBVIOUS
  <2> HIDE DEF f
  <2>5. IsFiniteSet(B)
    BY <1>2, <2>4, ImageFinite
  <2> HIDE DEF B, b
  <2>6. IsSequence(b) /\ Range(b) = B
    BY <2>2, <2>5, SetToSeqExact
  <2>7. \A q \in Range(b) : \E s \in Switches : q = f[s]
    BY <2>6 DEF B
  <2>8. \A s \in Switches : f[s] \in Range(b)
    BY <2>6 DEF B
  <2>9. PerSwitch(b)
    BY <2>3, <2>6, <2>7 DEF PerSwitch, Steady, w
  <2>10. /\ \A q \in Range(b) : Sat(q.match, pkt) => q.actions = r.actions
         /\ (\E q \in Range(b) : Sat(q.match, pkt)) <=> Sat(r.match, pkt)
    BY <1>2, <2>3, <2>7, <2>8
  <2> QED
    BY <2>6, <2>9, <2>10, UniformDecides DEF b
<1> QED
  BY <1>3, <1>4

LEMMA SwitchifyExact ==
    ASSUME Installable, NEW pkt \in Arriving, NEW c, Steady(c)
    PROVE  LET d == Switchify(c)
           IN  /\ PerSwitch(d)
               /\ Silent(c, pkt) => Silent(d, pkt)
               /\ \A as : Decided(c, pkt, as) => Decided(d, pkt, as)
<1> DEFINE ss == [i \in DOMAIN c |-> SwitchRules(c[i])]
           d == FlattenSeq(ss)
<1>1. ss = [i \in DOMAIN c |-> ss[i]] /\ \A i \in DOMAIN c : ss[i] = SwitchRules(c[i])
  OBVIOUS
<1>2. \A i \in DOMAIN c : c[i] \in Range(c)
  BY DEF Range
<1>3. Switchify(c) = d /\ IsSequence(c)
  BY DEF Switchify, Steady
<1> HIDE DEF ss
<1>4. ASSUME NEW i \in DOMAIN c
      PROVE  /\ PerSwitch(ss[i])
             /\ ~Sat(c[i].match, pkt) => Silent(ss[i], pkt)
             /\ Sat(c[i].match, pkt) => Decided(ss[i], pkt, c[i].actions)
  <2> DEFINE r == c[i]
  <2>1. Placed(r.match) /\ IsSequence(r.actions)
    BY <1>2 DEF Steady
  <2> HIDE DEF r
  <2>2. /\ PerSwitch(SwitchRules(r))
        /\ ~Sat(r.match, pkt) => Silent(SwitchRules(r), pkt)
        /\ Sat(r.match, pkt) => Decided(SwitchRules(r), pkt, r.actions)
    BY <2>1, SwitchRulesExact
  <2>3. ss[i] = SwitchRules(r)
    BY <1>1 DEF r
  <2> QED
    BY <2>2, <2>3 DEF r
<1>5. \A i \in DOMAIN c : IsSequence(ss[i])
  BY <1>4 DEF PerSwitch, Steady
<1>6. IsSequence(d) /\ Range(d) = UNION {Range(ss[i]) : i \in DOMAIN c}
  BY <1>1, <1>3, <1>5, BlocksChange
<1>7. /\ Silent(c, pkt) => Silent(d, pkt)
      /\ \A as : Decided(c, pkt, as) =>
            \E i \in DOMAIN c : /\ Sat(c[i].match, pkt) /\ c[i].actions = as
                                /\ \A bs : Decided(ss[i], pkt, bs) => Decided(d, pkt, bs)
  BY <1>1, <1>3, <1>4, <1>5, BlocksDecide
<1> HIDE DEF d
<1>8. PerSwitch(d)
  BY <1>4, <1>6 DEF PerSwitch, Steady
<1>9. \A as : Decided(c, pkt, as) => Decided(d, pkt, as)
  <2> SUFFICES ASSUME NEW as, Decided(c, pkt, as) PROVE Decided(d, pkt, as)
    OBVIOUS
  <2>1. PICK i \in DOMAIN c : /\ Sat(c[i].match, pkt) /\ c[i].actions = as
                              /\ \A bs : Decided(ss[i], pkt, bs) => Decided(d, pkt, bs)
    BY <1>7
  <2> QED
    BY <1>4, <2>1
<1> QED
  BY <1>3, <1>7, <1>8, <1>9

ToTheController == Modify([f \in {"outport"} |-> ToController])
Concreted(as)   == [j \in DOMAIN as |-> IF as[j] = Controller THEN ToTheController ELSE as[j]]

LEMMA ConcretedExact ==
    ASSUME NEW as, IsSequence(as)
    PROVE  /\ IsSequence(Concreted(as))
           /\ Range(Concreted(as)) = {IF a = Controller THEN ToTheController ELSE a : a \in Range(as)}
<1> DEFINE d == Concreted(as)
<1>1. d = [j \in DOMAIN as |-> d[j]]
  BY DEF Concreted
<1>2. \A j \in DOMAIN as : d[j] = IF as[j] = Controller THEN ToTheController ELSE as[j]
  BY DEF Concreted
<1> HIDE DEF d
<1>3. IsSequence(d) /\ Range(d) = {d[j] : j \in DOMAIN as}
  BY <1>1, RulesChange
<1> DEFINE to == ToTheController
<1> HIDE DEF to
<1>4. \A j \in DOMAIN as : d[j] = IF as[j] = Controller THEN to ELSE as[j]
  BY <1>2 DEF to
<1>5. {d[j] : j \in DOMAIN as} = {IF a = Controller THEN to ELSE a : a \in Range(as)}
  BY <1>4 DEF Range
<1> QED
  BY <1>3, <1>5 DEF d, to

LEMMA ConcretizeExact ==
    ASSUME NEW c, PerSwitch(c), NEW pkt
    PROVE  LET d == Concretize(c)
           IN  /\ PerSwitch(d)
               /\ Silent(c, pkt) => Silent(d, pkt)
               /\ \A as : Decided(c, pkt, as) => Decided(d, pkt, Concreted(as))
<1> DEFINE d == Concretize(c)
<1>1. /\ d = [i \in DOMAIN c |-> d[i]]
      /\ \A i \in DOMAIN c : d[i] = Rule(c[i].match, Concreted(c[i].actions))
  BY DEF Concretize, Concreted, ToTheController
<1>2. \A i \in DOMAIN c : d[i].match = c[i].match /\ d[i].actions = Concreted(c[i].actions)
  BY <1>1 DEF Rule
<1> HIDE DEF d
<1>3. IsSequence(c) /\ \A i \in DOMAIN c : c[i] \in Range(c)
  BY DEF PerSwitch, Steady, Range
<1>4. IsSequence(d) /\ Range(d) = {d[i] : i \in DOMAIN c}
  BY <1>1, <1>3, RulesChange
<1>5. ASSUME NEW i \in DOMAIN c
      PROVE  Placed(d[i].match) /\ IsSequence(d[i].actions) /\ "switch" \in DOMAIN d[i].match
  <2>1. Placed(c[i].match) /\ IsSequence(c[i].actions) /\ "switch" \in DOMAIN c[i].match
    BY <1>3 DEF PerSwitch, Steady
  <2> QED
    BY <1>2, <2>1, ConcretedExact
<1>6. PerSwitch(d)
  BY <1>4, <1>5 DEF PerSwitch, Steady
<1>7. DOMAIN d = DOMAIN c
  BY <1>1
<1>8. \A i \in DOMAIN c : Sat(d[i].match, pkt) <=> Sat(c[i].match, pkt)
  BY <1>2
<1>9. /\ Silent(c, pkt) => Silent(d, pkt)
      /\ \A as : Decided(c, pkt, as) => \E i \in DOMAIN c : c[i].actions = as /\ Decided(d, pkt, d[i].actions)
  BY <1>3, <1>7, <1>8, RulesDecide
<1>10. \A as : Decided(c, pkt, as) => Decided(d, pkt, Concreted(as))
  BY <1>2, <1>9
<1> QED
  BY <1>6, <1>9, <1>10 DEF d

\* The ports that a rule forwards to, and what becomes of it at one of them.
Ports(acts)        == {a.a["outport"] : a \in Range(acts)} \ {ToController, InPort}
AtPort(acts, port) == IF port \in Ports(acts) THEN BackOut(acts, port) ELSE acts

LEMMA AtPortSequence ==
    ASSUME NEW acts, IsSequence(acts), NEW port
    PROVE  IsSequence(BackOut(acts, port)) /\ IsSequence(AtPort(acts, port))
<1> DEFINE d == BackOut(acts, port)
<1>1. d = [i \in DOMAIN acts |-> d[i]]
  BY DEF BackOut
<1> HIDE DEF d
<1>2. IsSequence(d)
  BY <1>1, RulesChange
<1> QED
  BY <1>2 DEF AtPort, d

LEMMA PortsFinite ==
    ASSUME NEW acts, IsSequence(acts)
    PROVE  IsFiniteSet(Ports(acts))
<1> DEFINE S == Range(acts)
           f == [a \in S |-> a.a["outport"]]
<1>1. IsFiniteSet(S) /\ f = [a \in S |-> f[a]]
  BY RangeFinite
<1>2. Ports(acts) \subseteq {f[a] : a \in S}
  BY DEF Ports
<1> HIDE DEF f, S
<1>3. IsFiniteSet({f[a] : a \in S})
  BY <1>1, ImageFinite
<1> QED
  BY <1>2, <1>3, FS_Subset

LEMMA InportCopies ==
    ASSUME NEW r, Placed(r.match), IsSequence(r.actions), "switch" \in DOMAIN r.match,
           "inport" \notin DOMAIN r.match, NEW pkt
    PROVE  LET b == SetToSeq({Rule(Meet(r.match, HasField("inport", p)), BackOut(r.actions, p)) :
                                 p \in Ports(r.actions)})
           IN  /\ PerSwitch(b)
               /\ ~Sat(r.match, pkt) \/ pkt["inport"] \notin Ports(r.actions) => Silent(b, pkt)
               /\ Sat(r.match, pkt) /\ pkt["inport"] \in Ports(r.actions) =>
                     Decided(b, pkt, BackOut(r.actions, pkt["inport"]))
<1> DEFINE w == "inport"
           P == Ports(r.actions)
           f == [p \in P |-> Rule(Meet(r.match, HasField(w, p)), BackOut(r.actions, p))]
           B == {f[p] : p \in P}
           b == SetToSeq(B)
<1>1. B = {Rule(Meet(r.match, HasField(w, p)), BackOut(r.actions, p)) : p \in P}
  OBVIOUS
<1>2. ASSUME NEW p \in P
      PROVE  /\ Placed(f[p].match) /\ f[p].actions = BackOut(r.actions, p)
             /\ "switch" \in DOMAIN f[p].match
             /\ Sat(f[p].match, pkt) <=> Sat(r.match, pkt) /\ pkt[w] = p
  <2> DEFINE k == r.match
             n == f[p].match
  <2>1. /\ n = Meet(k, HasField(w, p)) /\ w \notin DOMAIN k /\ Placed(k)
        /\ f[p].actions = BackOut(r.actions, p) /\ "switch" \in DOMAIN k
    BY DEF Rule
  <2> HIDE DEF n, k, w
  <2>2. Sat(n, pkt) <=> Sat(k, pkt) /\ pkt[w] = p
    BY <2>1, MeetFieldSat
  <2>3. Placed(n)
    BY <2>1, MeetField
  <2>4. DOMAIN n = DOMAIN k \union {w}
    BY <2>1, MeetFieldDomain
  <2> QED
    BY <2>1, <2>2, <2>3, <2>4 DEF n, k
<1>3. f = [p \in P |-> f[p]] /\ IsFiniteSet(P)
  BY PortsFinite
<1> HIDE DEF f, P
<1>4. IsFiniteSet(B)
  BY <1>3, ImageFinite
<1> HIDE DEF B
<1>5. IsSequence(b) /\ Range(b) = B
  BY <1>4, SetToSeqExact
<1> HIDE DEF b
<1>6. /\ \A q \in Range(b) : \E p \in P : q = f[p]
      /\ \A p \in P : f[p] \in Range(b)
  BY <1>5 DEF B
<1>7. \A q \in Range(b) : Placed(q.match) /\ IsSequence(q.actions) /\ "switch" \in DOMAIN q.match
  BY <1>2, <1>6, AtPortSequence
<1>8. PerSwitch(b)
  BY <1>5, <1>7 DEF PerSwitch, Steady
<1>9. /\ \A q \in Range(b) : Sat(q.match, pkt) =>
            Sat(r.match, pkt) /\ pkt[w] \in P /\ q.actions = BackOut(r.actions, pkt[w])
      /\ Sat(r.match, pkt) /\ pkt[w] \in P => \E q \in Range(b) : Sat(q.match, pkt)
  BY <1>2, <1>6
<1>10. /\ Silent(b, pkt) <=> \A q \in Range(b) : ~Sat(q.match, pkt)
       /\ (\E q \in Range(b) : Sat(q.match, pkt)) => Decided(b, pkt, BackOut(r.actions, pkt[w]))
  <2>1. \A q \in Range(b) : Sat(q.match, pkt) => q.actions = BackOut(r.actions, pkt[w])
    BY <1>9
  <2> HIDE DEF w
  <2> QED
    BY <2>1, <1>5, UniformDecides
<1>11. /\ ~Sat(r.match, pkt) \/ pkt[w] \notin P => Silent(b, pkt)
       /\ Sat(r.match, pkt) /\ pkt[w] \in P => Decided(b, pkt, BackOut(r.actions, pkt[w]))
  BY <1>9, <1>10
<1> QED
  BY <1>1, <1>8, <1>11 DEF b, w, P

LEMMA ListsJoin ==
    ASSUME NEW c, PerSwitch(c), NEW d, PerSwitch(d), NEW pkt
    PROVE  /\ PerSwitch(c \o d)
           /\ Silent(c, pkt) /\ Silent(d, pkt) => Silent(c \o d, pkt)
           /\ \A as : /\ Decided(c, pkt, as) => Decided(c \o d, pkt, as)
                      /\ Silent(c, pkt) /\ Decided(d, pkt, as) => Decided(c \o d, pkt, as)
<1> DEFINE S == Range(c) \union Range(d)
           e == c \o d
<1>1. c \in Seq(S) /\ d \in Seq(S)
  <2>1. Range(c) \subseteq S /\ Range(d) \subseteq S
    OBVIOUS
  <2>2. IsSequence(c) /\ IsSequence(d)
    BY DEF PerSwitch, Steady
  <2> HIDE DEF S
  <2> QED
    BY <2>1, <2>2, SequenceIn
<1> HIDE DEF S
<1>2. /\ Silent(e, pkt) <=> Silent(c, pkt) /\ Silent(d, pkt)
      /\ \A as : Decided(e, pkt, as) <=> Decided(c, pkt, as) \/ (Silent(c, pkt) /\ Decided(d, pkt, as))
  BY <1>1, ConcatDecides
<1>3. Range(e) = Range(c) \union Range(d)
  BY <1>1, ConcatRange
<1>4. IsSequence(e)
  <2>1. e \in Seq(S)
    BY <1>1, ConcatProperties
  <2> QED
    BY <2>1, SequenceOf
<1> HIDE DEF e
<1>5. PerSwitch(e)
  BY <1>3, <1>4 DEF PerSwitch, Steady
<1> QED
  BY <1>2, <1>5 DEF e

LEMMA InportRulesExact ==
    ASSUME NEW r, Placed(r.match), IsSequence(r.actions), "switch" \in DOMAIN r.match, NEW pkt
    PROVE  LET b == InportRules(r)
           IN  /\ PerSwitch(b)
               /\ ~Sat(r.match, pkt) => Silent(b, pkt)
               /\ Sat(r.match, pkt) => Decided(b, pkt, AtPort(r.actions, pkt["inport"]))
<1> DEFINE w == "inport"
           P == Ports(r.actions)
           Copy(p) == Rule(Meet(r.match, HasField(w, p)), BackOut(r.actions, p))
           copies == SetToSeq({Copy(p) : p \in P})
           v == pkt[w]
           b == InportRules(r)
<1>1. b = IF w \notin DOMAIN r.match THEN copies \o <<r>>
          ELSE IF \E p \in P : r.match[w] = {p} THEN <<Copy(CHOOSE p \in P : r.match[w] = {p})>>
          ELSE <<r>>
  BY DEF InportRules, Ports
<1>2. /\ IsSequence(<<r>>) /\ Range(<<r>>) = {r}
      /\ ~Sat(r.match, pkt) => Silent(<<r>>, pkt)
      /\ Sat(r.match, pkt) => Decided(<<r>>, pkt, r.actions)
  BY OneDecides
<1>3. PerSwitch(<<r>>)
  BY <1>2 DEF PerSwitch, Steady
<1> DEFINE one == <<r>>
<1> HIDE DEF one
<1>4. CASE w \notin DOMAIN r.match
  <2>1. /\ PerSwitch(copies)
        /\ ~Sat(r.match, pkt) \/ v \notin P => Silent(copies, pkt)
        /\ Sat(r.match, pkt) /\ v \in P => Decided(copies, pkt, BackOut(r.actions, v))
    BY <1>4, InportCopies
  <2>2. b = copies \o one
    BY <1>1, <1>4 DEF one
  <2>3. /\ PerSwitch(one)
        /\ ~Sat(r.match, pkt) => Silent(one, pkt)
        /\ Sat(r.match, pkt) => Decided(one, pkt, r.actions)
    BY <1>2, <1>3 DEF one
  <2> HIDE DEF copies, b, v, P
  <2>4. /\ PerSwitch(copies \o one)
        /\ Silent(copies, pkt) /\ Silent(one, pkt) => Silent(copies \o one, pkt)
        /\ \A as : /\ Decided(copies, pkt, as) => Decided(copies \o one, pkt, as)
                   /\ Silent(copies, pkt) /\ Decided(one, pkt, as) => Decided(copies \o one, pkt, as)
    BY <2>1, <2>3, ListsJoin
  <2>5. AtPort(r.actions, v) = IF v \in P THEN BackOut(r.actions, v) ELSE r.actions
    BY DEF AtPort, P
  <2>6. /\ PerSwitch(b)
        /\ ~Sat(r.match, pkt) => Silent(b, pkt)
        /\ Sat(r.match, pkt) => Decided(b, pkt, AtPort(r.actions, v))
    BY <2>1, <2>2, <2>3, <2>4, <2>5
  <2> QED
    BY <2>6 DEF b, v
<1>5. CASE w \in DOMAIN r.match /\ \E p \in P : r.match[w] = {p}
  <2> DEFINE q == CHOOSE p \in P : r.match[w] = {p}
             x == Copy(q)
             n == x.match
             k == r.match
  <2>1. q \in P /\ k[w] = {q} /\ w \in DOMAIN k
    BY <1>5
  <2>2. b = <<x>>
    BY <1>1, <1>5
  <2>3. n = Meet(k, HasField(w, q)) /\ x.actions = BackOut(r.actions, q)
    BY DEF Rule
  <2> HIDE DEF q, x, n, P, b
  <2>4. \A y : Sat(k, y) => y[w] = q
    BY <2>1 DEF Sat
  <2> HIDE DEF w, k
  <2>5. DOMAIN n = DOMAIN k
    BY <2>1, <2>3, MeetAgain
  <2>6. Sat(n, pkt) <=> Sat(k, pkt)
    BY <2>1, <2>3, MeetAgain
  <2>7. Placed(n)
    <3>1. Placed(k)
      BY DEF k
    <3> QED
      BY <2>1, <2>3, <3>1, MeetAgain
  <2>8. "switch" \in DOMAIN n /\ IsSequence(x.actions)
    BY <2>3, <2>5, AtPortSequence DEF k
  <2>9. /\ IsSequence(<<x>>) /\ Range(<<x>>) = {x}
        /\ ~Sat(n, pkt) => Silent(<<x>>, pkt)
        /\ Sat(n, pkt) => Decided(<<x>>, pkt, x.actions)
    BY OneDecides DEF n
  <2>10. PerSwitch(b)
    BY <2>2, <2>7, <2>8, <2>9 DEF PerSwitch, Steady, n
  <2>11. Sat(k, pkt) => AtPort(r.actions, v) = BackOut(r.actions, q)
    BY <2>1, <2>4 DEF AtPort, P
  <2>12. /\ ~Sat(k, pkt) => Silent(b, pkt)
         /\ Sat(k, pkt) => Decided(b, pkt, AtPort(r.actions, v))
    BY <2>2, <2>3, <2>6, <2>9, <2>11
  <2> QED
    BY <2>10, <2>12 DEF b, k, w
<1>6. CASE w \in DOMAIN r.match /\ ~\E p \in P : r.match[w] = {p}
  <2>1. b = <<r>>
    BY <1>1, <1>6
  <2>2. PICK u : r.match[w] = {u}
    BY <1>6 DEF Placed
  <2>3. Sat(r.match, pkt) => v = u
    BY <1>6, <2>2 DEF Sat
  <2>4. Sat(r.match, pkt) => AtPort(r.actions, v) = r.actions
    BY <1>6, <2>2, <2>3 DEF AtPort
  <2> HIDE DEF b, P
  <2>5. /\ PerSwitch(b)
        /\ ~Sat(r.match, pkt) => Silent(b, pkt)
        /\ Sat(r.match, pkt) => Decided(b, pkt, AtPort(r.actions, v))
    BY <1>2, <1>3, <2>1, <2>4
  <2> QED
    BY <2>5 DEF b
<1> QED
  BY <1>4, <1>5, <1>6

LEMMA OFInportizeExact ==
    ASSUME NEW c, PerSwitch(c), NEW pkt
    PROVE  LET d == OFInportize(c)
           IN  /\ PerSwitch(d)
               /\ Silent(c, pkt) => Silent(d, pkt)
               /\ \A as : Decided(c, pkt, as) => Decided(d, pkt, AtPort(as, pkt["inport"]))
<1> DEFINE ss == [i \in DOMAIN c |-> InportRules(c[i])]
           d == FlattenSeq(ss)
           v == pkt["inport"]
<1>1. ss = [i \in DOMAIN c |-> ss[i]] /\ \A i \in DOMAIN c : ss[i] = InportRules(c[i])
  OBVIOUS
<1>2. \A i \in DOMAIN c : c[i] \in Range(c)
  BY DEF Range
<1>3. OFInportize(c) = d /\ IsSequence(c)
  BY DEF OFInportize, PerSwitch, Steady
<1> HIDE DEF ss
<1>4. ASSUME NEW i \in DOMAIN c
      PROVE  /\ PerSwitch(ss[i])
             /\ ~Sat(c[i].match, pkt) => Silent(ss[i], pkt)
             /\ Sat(c[i].match, pkt) => Decided(ss[i], pkt, AtPort(c[i].actions, v))
  <2> DEFINE r == c[i]
  <2>1. Placed(r.match) /\ IsSequence(r.actions) /\ "switch" \in DOMAIN r.match
    BY <1>2 DEF PerSwitch, Steady
  <2> HIDE DEF r
  <2>2. /\ PerSwitch(InportRules(r))
        /\ ~Sat(r.match, pkt) => Silent(InportRules(r), pkt)
        /\ Sat(r.match, pkt) => Decided(InportRules(r), pkt, AtPort(r.actions, v))
    BY <2>1, InportRulesExact
  <2>3. ss[i] = InportRules(r)
    BY <1>1 DEF r
  <2> QED
    BY <2>2, <2>3 DEF r
<1> HIDE DEF v
<1>5. \A i \in DOMAIN c : IsSequence(ss[i])
  BY <1>4 DEF PerSwitch, Steady
<1>6. IsSequence(d) /\ Range(d) = UNION {Range(ss[i]) : i \in DOMAIN c}
  BY <1>1, <1>3, <1>5, BlocksChange
<1>7. /\ Silent(c, pkt) => Silent(d, pkt)
      /\ \A as : Decided(c, pkt, as) =>
            \E i \in DOMAIN c : /\ Sat(c[i].match, pkt) /\ c[i].actions = as
                                /\ \A bs : Decided(ss[i], pkt, bs) => Decided(d, pkt, bs)
  BY <1>1, <1>3, <1>4, <1>5, BlocksDecide
<1> HIDE DEF d
<1>8. PerSwitch(d)
  BY <1>4, <1>6 DEF PerSwitch, Steady
<1>9. \A as : Decided(c, pkt, as) => Decided(d, pkt, AtPort(as, v))
  <2> SUFFICES ASSUME NEW as, Decided(c, pkt, as) PROVE Decided(d, pkt, AtPort(as, v))
    OBVIOUS
  <2>1. PICK i \in DOMAIN c : /\ Sat(c[i].match, pkt) /\ c[i].actions = as
                              /\ \A bs : Decided(ss[i], pkt, bs) => Decided(d, pkt, bs)
    BY <1>7
  <2> QED
    BY <1>4, <2>1
<1> QED
  BY <1>3, <1>7, <1>8, <1>9 DEF v
-----------------------------------------------------------------------------
(* Priorities *)

LEMMA PrioritizeExact ==
    ASSUME NEW c, PerSwitch(c), NEW pkt
    PROVE  LET t == Prioritize(c)
           IN  /\ Silent(c, pkt) => Matching(t, pkt) = {}
               /\ \A as : Decided(c, pkt, as) =>
                     Matching(t, pkt) # {} /\ TopRule(t, pkt).actions = as
<1> DEFINE t == Prioritize(c)
           M == Matching(t, pkt)
           s == "switch"
           B(i) == {j \in 1 .. i - 1 : c[j].match[s] = c[i].match[s]}
           q(i) == [match |-> c[i].match, priority |-> FirstPriority - Cardinality(B(i)),
                    actions |-> c[i].actions]
<1>1. t = {q(i) : i \in DOMAIN c}
  BY DEF Prioritize
<1>2. Len(c) \in Nat /\ DOMAIN c = 1 .. Len(c)
  BY SequenceIn DEF PerSwitch, Steady
<1>3. \A i \in DOMAIN c : /\ q(i).match = c[i].match /\ q(i).actions = c[i].actions
                          /\ q(i).priority = FirstPriority - Cardinality(B(i))
  OBVIOUS
<1> HIDE DEF q, t
<1>4. /\ \A i \in DOMAIN c : Sat(c[i].match, pkt) => q(i) \in M
      /\ \A r \in M : \E i \in DOMAIN c : r = q(i) /\ Sat(c[i].match, pkt)
  BY <1>1, <1>3 DEF Matching
<1> HIDE DEF M
<1>5. ASSUME NEW i \in DOMAIN c, Sat(c[i].match, pkt) PROVE c[i].match[s] = {pkt[s]}
  <2>1. s \in DOMAIN c[i].match /\ Placed(c[i].match)
    BY DEF PerSwitch, Steady, Range
  <2>2. PICK v : c[i].match[s] = {v}
    BY <2>1 DEF Placed
  <2> HIDE DEF s
  <2>3. pkt[s] \in c[i].match[s]
    BY <1>5, <2>1 DEF Sat
  <2> QED
    BY <2>2, <2>3
<1> HIDE DEF s
<1>6. ASSUME NEW i \in DOMAIN c, NEW j \in DOMAIN c, i < j,
             Sat(c[i].match, pkt), Sat(c[j].match, pkt)
      PROVE  q(j).priority < q(i).priority
  <2>1. i \in Nat /\ j \in Nat /\ i \in 1 .. j - 1 /\ i \notin 1 .. i - 1
        /\ 1 .. i - 1 \subseteq 1 .. j - 1 /\ j - 1 \in Int
    BY <1>2, <1>6
  <2>2. c[i].match[s] = c[j].match[s]
    BY <1>5, <1>6
  <2>3. B(i) \subseteq B(j) /\ i \in B(j) /\ i \notin B(i)
    BY <2>1, <2>2
  <2>4. IsFiniteSet(B(j))
    <3>1. IsFiniteSet(1 .. j - 1) /\ B(j) \subseteq 1 .. j - 1
      BY <2>1, FS_Interval
    <3> QED
      BY <3>1, FS_Subset
  <2> DEFINE X == B(i)
             Y == B(j)
  <2>5. X \subseteq Y /\ X # Y /\ IsFiniteSet(Y)
    BY <2>3, <2>4
  <2>6. q(i).priority = FirstPriority - Cardinality(X) /\ q(j).priority = FirstPriority - Cardinality(Y)
    BY <1>3
  <2> HIDE DEF X, Y, B
  <2>7. IsFiniteSet(X) /\ Cardinality(X) <= Cardinality(Y) /\ Cardinality(X) # Cardinality(Y)
    BY <2>5, FS_Subset
  <2>8. Cardinality(X) \in Nat /\ Cardinality(Y) \in Nat
    BY <2>5, <2>7, FS_CardinalityType
  <2> QED
    BY <2>6, <2>7, <2>8 DEF FirstPriority
<1>7. \A i \in DOMAIN c : q(i).priority \in Int
  <2> SUFFICES ASSUME NEW i \in DOMAIN c PROVE q(i).priority \in Int
    OBVIOUS
  <2>0. 1 \in Int /\ i - 1 \in Int
    BY <1>2
  <2>1. IsFiniteSet(1 .. i - 1) /\ B(i) \subseteq 1 .. i - 1
    BY <2>0, FS_Interval
  <2>2. Cardinality(B(i)) \in Nat
    BY <2>1, FS_Subset, FS_CardinalityType
  <2> QED
    BY <1>3, <2>2 DEF FirstPriority
<1> HIDE DEF B
<1>8. Silent(c, pkt) => M = {}
  BY <1>4 DEF Silent
<1>9. ASSUME NEW as, Decided(c, pkt, as) PROVE M # {} /\ TopRule(t, pkt).actions = as
  <2>1. PICK i \in DOMAIN c : /\ Sat(c[i].match, pkt) /\ c[i].actions = as
                              /\ \A j \in 1 .. i - 1 : ~Sat(c[j].match, pkt)
    BY <1>9 DEF Decided
  <2>2. q(i) \in M
    BY <1>4, <2>1
  <2>3. \A r \in M : \E j \in DOMAIN c : r = q(j) /\ Sat(c[j].match, pkt) /\ (j = i \/ i < j)
    <3> SUFFICES ASSUME NEW r \in M
                 PROVE  \E j \in DOMAIN c : r = q(j) /\ Sat(c[j].match, pkt) /\ (j = i \/ i < j)
      OBVIOUS
    <3>1. PICK j \in DOMAIN c : r = q(j) /\ Sat(c[j].match, pkt)
      BY <1>4
    <3>2. j \notin 1 .. i - 1
      BY <2>1, <3>1
    <3>3. j = i \/ i < j
      BY <1>2, <3>2
    <3> QED
      BY <3>1, <3>3
  <2>4. \A r \in M : r.priority <= q(i).priority
    <3> SUFFICES ASSUME NEW r \in M PROVE r.priority <= q(i).priority
      OBVIOUS
    <3>1. PICK j \in DOMAIN c : r = q(j) /\ Sat(c[j].match, pkt) /\ (j = i \/ i < j)
      BY <2>3
    <3> QED
      BY <1>6, <1>7, <2>1, <3>1
  <2> DEFINE top == TopRule(t, pkt)
  <2>5. top \in M /\ \A r \in M : r.priority <= top.priority
    <3>1. top = CHOOSE r \in M : \A x \in M : x.priority <= r.priority
      BY DEF TopRule, M
    <3> HIDE DEF top
    <3> QED
      BY <2>2, <2>4, <3>1
  <2> HIDE DEF top
  <2>6. PICK k \in DOMAIN c : top = q(k) /\ Sat(c[k].match, pkt) /\ (k = i \/ i < k)
    BY <2>3, <2>5
  <2>7. ~(i < k)
    <3> SUFFICES ASSUME i < k PROVE FALSE
      OBVIOUS
    <3>1. q(k).priority < q(i).priority
      BY <1>6, <2>1, <2>6
    <3>2. q(i).priority <= q(k).priority
      BY <2>2, <2>5, <2>6
    <3> QED
      BY <1>7, <3>1, <3>2
  <2>8. top.actions = as
    BY <1>3, <2>1, <2>6, <2>7
  <2> QED
    BY <2>2, <2>8 DEF top
<1> QED
  BY <1>8, <1>9 DEF M, t

\* What the table of a program makes of a packet for which its classifier decides as.
LEMMA FlowTableExact ==
    ASSUME ModsExact, Installable, NEW p \in Policy, NEW pkt \in Arriving,
           NEW as, Decided(Compile[p], pkt, as)
    PROVE  LET t == FlowTable(Compile[p])
           IN  \/ Matching(t, pkt) = {}
               \/ /\ pkt["vlan_id"] = Absent /\ Matching(t, pkt) # {}
                  /\ \E bs : /\ IsSequence(bs) /\ Reduced(as, bs)
                             /\ Decided(ForSwitches(Compile[p]), pkt, bs)
                             /\ TopRule(t, pkt).actions = AtPort(Concreted(bs), pkt["inport"])
<1> DEFINE c == Prepared(Compile[p])
           d == Switchify(c)
           e == Concretize(d)
           f == OFInportize(e)
           t == Prioritize(f)
<1>1. ForSwitches(Compile[p]) = d /\ FlowTable(Compile[p]) = t
  BY DEF ForSwitches, FlowTable
<1>2. /\ Steady(c)
      /\ \/ Silent(c, pkt)
         \/ pkt["vlan_id"] = Absent /\ \E bs : Decided(c, pkt, bs) /\ Reduced(as, bs)
  BY PreparedExact
<1> HIDE DEF c
<1>3. /\ PerSwitch(d)
      /\ Silent(c, pkt) => Silent(d, pkt)
      /\ \A bs : Decided(c, pkt, bs) => Decided(d, pkt, bs)
  BY <1>2, SwitchifyExact
<1> HIDE DEF d
<1>4. /\ PerSwitch(e)
      /\ Silent(d, pkt) => Silent(e, pkt)
      /\ \A bs : Decided(d, pkt, bs) => Decided(e, pkt, Concreted(bs))
  BY <1>3, ConcretizeExact
<1> HIDE DEF e
<1>5. /\ PerSwitch(f)
      /\ Silent(e, pkt) => Silent(f, pkt)
      /\ \A bs : Decided(e, pkt, bs) => Decided(f, pkt, AtPort(bs, pkt["inport"]))
  BY <1>4, OFInportizeExact
<1> HIDE DEF f
<1>6. /\ Silent(f, pkt) => Matching(t, pkt) = {}
      /\ \A bs : Decided(f, pkt, bs) => Matching(t, pkt) # {} /\ TopRule(t, pkt).actions = bs
  BY <1>5, PrioritizeExact
<1> HIDE DEF t
<1>7. CASE Silent(c, pkt)
  BY <1>1, <1>3, <1>4, <1>5, <1>6, <1>7
<1>8. CASE pkt["vlan_id"] = Absent /\ \E bs : Decided(c, pkt, bs) /\ Reduced(as, bs)
  <2>1. PICK bs : Decided(c, pkt, bs) /\ Reduced(as, bs)
    BY <1>8
  <2>2. Decided(d, pkt, bs)
    BY <1>3, <2>1
  <2>3. Decided(f, pkt, AtPort(Concreted(bs), pkt["inport"]))
    BY <1>4, <1>5, <2>2
  <2>4. IsSequence(bs)
    BY <1>2, <2>1 DEF Steady, Decided, Range
  <2> QED
    BY <1>1, <1>6, <1>8, <2>1, <2>2, <2>3, <2>4
<1> QED
  BY <1>2, <1>7, <1>8
-----------------------------------------------------------------------------
(* What the switches send *)

\* Modifications that a program forwards packets with.
Forwards(m) ==
    /\ m \in Mixed(Mods) /\ Compilable(m) /\ "outport" \in DOMAIN m
    /\ DOMAIN m \intersect Virtual = {} /\ m["outport"] \notin {InPort, ToController}

LEMMA MixedForwards ==
    ASSUME ModsExact, Installable, NEW m \in Mixed(Mods), "outport" \in DOMAIN m
    PROVE  Forwards(m)
<1>1. \A f \in DOMAIN m : \E n \in Mods : f \in DOMAIN n /\ m[f] = n[f]
  BY MixedIn
<1>2. \A n \in Mods : /\ DOMAIN n \intersect Virtual = {}
                      /\ "outport" \in DOMAIN n => n["outport"] \notin {InPort, ToController}
  BY DEF Installable
<1>3. DOMAIN m \intersect Virtual = {} /\ m["outport"] \notin {InPort, ToController}
  BY <1>1, <1>2
<1> QED
  BY <1>3, MixedMods DEF Forwards

\* OFPP_IN_PORT in the place of the port that the packet came from.
Returned(a, port) ==
    IF a.a["outport"] = port THEN Modify([a.a EXCEPT !["outport"] = InPort]) ELSE a

LEMMA ReturnedSent ==
    ASSUME Installable, NEW pkt \in Arriving, NEW m, Forwards(m),
           ~(pkt["ethtype"] = ARP /\ \E f, g \in DOMAIN m : f # g)
    PROVE  Sent(Returned(Modify(m), pkt["inport"]), pkt) = {Modified(pkt, m)}
<1> DEFINE o == "outport"
           port == pkt["inport"]
           x == Returned(Modify(m), port)
           out == Modified(pkt, x.a)
<1>1. /\ o \in DOMAIN m /\ o \in Fields /\ m[o] \notin Fields /\ m[o] \notin {InPort, ToController}
      /\ m = [f \in DOMAIN m |-> m[f]] /\ \A f \in DOMAIN m : m[f] \notin Fields
  BY ArrivingExact, MixedIn DEF Forwards, Compilable
<1>2. InPort \notin Fields
  BY DEF Installable
<1>3. x = IF m[o] = port THEN Modify([m EXCEPT ![o] = InPort]) ELSE Modify(m)
  BY DEF Returned, Modify
<1>4. x.k = "modify" /\ DOMAIN x.a = DOMAIN m
  BY <1>3 DEF Modify
<1>5. ~(pkt["ethtype"] = ARP /\ ArpBug(<<x>>))
  BY <1>4 DEF ArpBug
<1>6. Sent(x, pkt) = IF out[o] = InPort THEN {[out EXCEPT ![o] = port]}
                     ELSE IF out[o] = port THEN {} ELSE {out}
  <2> HIDE DEF x
  <2> QED
    BY <1>5 DEF Sent
<1>7. \A n : /\ Modified(pkt, n) = [f \in Fields |-> Modified(pkt, n)[f]]
             /\ \A f \in Fields : f \notin DOMAIN n => Modified(pkt, n)[f] = pkt[f]
             /\ \A f \in Fields : f \in DOMAIN n /\ n[f] \notin Fields => Modified(pkt, n)[f] = n[f]
  BY DEF Modified
<1>8. CASE m[o] # port
  <2>1. x.a = m
    BY <1>3, <1>8 DEF Modify
  <2>2. out = Modified(pkt, m)
    BY <2>1
  <2>3. out[o] = m[o]
    BY <1>1, <1>7, <2>2
  <2> HIDE DEF out, x
  <2>4. out[o] # InPort /\ out[o] # port
    BY <1>1, <1>8, <2>3
  <2>5. Sent(x, pkt) = {out}
    BY <1>6, <2>4
  <2> QED
    BY <2>2, <2>5 DEF x
<1>9. CASE m[o] = port
  <2> DEFINE n == [m EXCEPT ![o] = InPort]
             back == Modified(pkt, m)
  <2>1. x.a = n
    <3> HIDE DEF n, x, out
    <3>1. x = Modify(n)
      BY <1>3, <1>9 DEF n
    <3> QED
      BY <3>1 DEF Modify
  <2>2. /\ DOMAIN n = DOMAIN m /\ n[o] = InPort
        /\ \A f \in DOMAIN m : f # o => n[f] = m[f]
    BY <1>1
  <2>3. out = Modified(pkt, n)
    BY <2>1
  <2> HIDE DEF n, x
  <2>4. out[o] = InPort /\ back[o] = port
    BY <1>1, <1>2, <1>7, <1>9, <2>2, <2>3
  <2>5. \A f \in Fields : f # o => out[f] = back[f]
    BY <1>1, <1>7, <2>2, <2>3
  <2>6. out = [f \in Fields |-> out[f]] /\ back = [f \in Fields |-> back[f]]
    BY <1>7, <2>3
  <2> HIDE DEF out, back, port, o
  <2>7. [out EXCEPT ![o] = port] = back
    BY <1>1, <2>4, <2>5, <2>6
  <2> QED
    BY <1>6, <2>4, <2>7 DEF x, back, port
<1> QED
  BY <1>8, <1>9

LEMMA AtPortSends ==
    ASSUME Installable, NEW pkt \in Arriving, NEW acts, IsSequence(acts),
           \A a \in Range(acts) : a = Modify(a.a) /\ Forwards(a.a),
           ~(pkt["ethtype"] = ARP /\ ArpBug(AtPort(acts, pkt["inport"])))
    PROVE  UNION {Sent(x, pkt) : x \in Range(AtPort(acts, pkt["inport"]))}
              = {Modified(pkt, a.a) : a \in Range(acts)}
<1> DEFINE port == pkt["inport"]
           d == AtPort(acts, port)
<1>1. \A i \in DOMAIN acts : acts[i] \in Range(acts)
  BY DEF Range
<1>2. /\ d = [i \in DOMAIN acts |-> d[i]]
      /\ \A i \in DOMAIN acts : d[i] = Returned(acts[i], port)
  <2>1. CASE port \in Ports(acts)
    BY <2>1 DEF AtPort, BackOut, Returned
  <2>2. CASE port \notin Ports(acts)
    <3>1. d = acts /\ acts = [i \in DOMAIN acts |-> acts[i]]
      BY <2>2, SequenceIn DEF AtPort
    <3>2. ASSUME NEW i \in DOMAIN acts PROVE acts[i].a["outport"] # port
      <4>1. acts[i].a["outport"] \notin {InPort, ToController}
        BY <1>1 DEF Forwards
      <4>2. acts[i].a["outport"] \in Ports(acts)
        BY <1>1, <4>1 DEF Ports
      <4> QED
        BY <2>2, <4>2
    <3> QED
      BY <3>1, <3>2 DEF Returned
  <2> QED
    BY <2>1, <2>2
<1> HIDE DEF d
<1>3. Range(d) = {d[i] : i \in DOMAIN acts}
  BY <1>2, RulesChange
<1>4. ASSUME NEW i \in DOMAIN acts PROVE Sent(d[i], pkt) = {Modified(pkt, acts[i].a)}
  <2> DEFINE m == acts[i].a
  <2>1. acts[i] = Modify(m) /\ Forwards(m)
    BY <1>1
  <2>2. d[i] = Returned(Modify(m), port)
    BY <1>2, <2>1
  <2>3. d[i].k = "modify" /\ DOMAIN d[i].a = DOMAIN m
    BY <2>2 DEF Returned, Modify
  <2>4. DOMAIN d = DOMAIN acts
    BY <1>2
  <2>5. ASSUME pkt["ethtype"] = ARP, \E f, g \in DOMAIN m : f # g PROVE FALSE
    <3>1. ArpBug(d)
      BY <2>3, <2>4, <2>5 DEF ArpBug
    <3> QED
      BY <2>5, <3>1 DEF d
  <2> HIDE DEF m
  <2>6. Sent(Returned(Modify(m), port), pkt) = {Modified(pkt, m)}
    BY <2>1, <2>5, ReturnedSent
  <2> QED
    BY <2>2, <2>6 DEF m
<1> DEFINE f(a) == Modified(pkt, a.a)
           h(x) == Sent(x, pkt)
<1>5. \A i \in DOMAIN acts : h(d[i]) = {f(acts[i])}
  BY <1>4
<1> HIDE DEF f, h
<1>6. UNION {h(x) : x \in Range(d)} = {f(a) : a \in Range(acts)}
  <2>1. \A y : y \in UNION {h(x) : x \in Range(d)} <=> \E i \in DOMAIN acts : y \in h(d[i])
    BY <1>3
  <2>2. \A y : y \in {f(a) : a \in Range(acts)} <=> \E i \in DOMAIN acts : y = f(acts[i])
    BY DEF Range
  <2>3. \A y : \A i \in DOMAIN acts : y \in h(d[i]) <=> y = f(acts[i])
    BY <1>5
  <2> DEFINE U == UNION {h(x) : x \in Range(d)}
             V == {f(a) : a \in Range(acts)}
  <2> HIDE DEF U, V
  <2>4. \A y : y \in U <=> y \in V
    BY <2>1, <2>2, <2>3 DEF U, V
  <2>5. U = V
    BY <2>4
  <2> QED
    BY <2>5 DEF U, V
<1> QED
  BY <1>6 DEF f, h, d

\* The tag stays out of the way of a packet without virtual headers.
LEMMA ConcretePlain ==
    ASSUME Installable, NEW q, q = [f \in Fields |-> q[f]], \A f \in Virtual : q[f] = Absent
    PROVE  Concrete(q) = q
<1>1. DOMAIN Extended(q) = {}
  BY DEF Extended
<1>2. Concrete(q) = [f \in Fields |-> IF f \in Virtual THEN Absent ELSE q[f]]
  BY <1>1 DEF Concrete
<1> QED
  BY <1>2

LEMMA OutputExact ==
    ASSUME ModsExact, Installable, NEW p \in Policy, NEW pkt \in Arriving, pkt["vlan_id"] = Absent,
           NEW as, Decided(Compile[p], pkt, as), Controller \notin Range(as),
           NEW S, S = {a \in Range(as) : ~IsRemoved(a)},
           \A a \in S : a = Modify(a.a) /\ Forwards(a.a)
    PROVE  Leaving(Output(p, pkt)) = Leaving({Modified(pkt, a.a) : a \in S})
<1> DEFINE c == Compile[p]
           E == Eval[p][pkt]
           R == Reached[p][pkt]
<1>1. /\ pkt \in Frames /\ pkt \in [Fields -> Values \union {Absent}] /\ pkt["outport"] = Absent
      /\ \A f \in Virtual : pkt[f] = Absent
      /\ Virtual \subseteq Fields /\ "outport" \in Fields
  BY ArrivingExact
<1>2. c \in Classifiers
  BY CompileExact
<1>3. Agrees(c, Eval[p], Reached[p])
  BY PoliciesCompile DEF Compiles
<1>4. PICK L : Decides(c, pkt, L) /\ Right(L, pkt, E, R)
  BY <1>1, <1>3 DEF Agrees
<1>5. PICK bs : Decided(c, pkt, bs) /\ Live(bs) = L
  BY <1>4 DEF Decides
<1>6. Decided(c, pkt, as)
  OBVIOUS
<1> HIDE DEF c, E, R
<1>7. bs = as
  BY <1>2, <1>5, <1>6, DecidedOnce DEF Classifiers
<1>8. L = Range(as) \ {Drop} /\ L \subseteq Deeds
  <2>1. L \subseteq Deeds \ {Drop}
    BY <1>2, <1>4, DecidesType
  <2> QED
    BY <2>1, <1>5, <1>7 DEF Live
<1>9. E = Out(L, pkt)
  BY <1>4, <1>8 DEF Right
<1>10. \A y : y \in E <=> \E a \in L : Goes(a) /\ y = Moved(a, pkt)
  <2>1. L \subseteq Deeds
    BY <1>8
  <2>2. \A y : y \in Out(L, pkt) <=> \E a \in L : Goes(a) /\ y = Moved(a, pkt)
    BY <2>1, OutExact
  <2> QED
    BY <1>9, <2>2
<1>11. ASSUME NEW a \in L, Goes(a) PROVE a = True \/ a \in S
  <2>1. a \in Actions
    BY <1>8, DeedsExact
  <2>2. a = True \/ a.k = "modify"
    BY <1>11, <2>1, ActionKinds DEF Goes
  <2>3. a.k = "modify" => a \in S
    BY <1>8 DEF IsRemoved
  <2> QED
    BY <2>2, <2>3
<1>12. ASSUME NEW a \in S
       PROVE  a \in L /\ Goes(a) /\ Moved(a, pkt) = Modified(pkt, a.a)
  <2> DEFINE m == a.a
  <2>1. a = Modify(m)
    OBVIOUS
  <2> HIDE DEF m
  <2>2. a.k = "modify"
    BY <2>1 DEF Modify
  <2>3. a \in Range(as)
    OBVIOUS
  <2>4. a # Drop
    BY <2>2 DEF Drop
  <2>5. a \in L
    BY <1>8, <2>3, <2>4
  <2> QED
    BY <2>2, <2>5 DEF Goes, Moved, m
<1>13. Pyretic(pkt) = pkt
  BY DEF Pyretic
<1>14. Output(p, pkt) = {Concrete(q) : q \in E}
  BY <1>13 DEF Output, E
<1>15. Concrete(pkt) = pkt
  <2>1. pkt = [f \in Fields |-> pkt[f]]
    BY <1>1
  <2> QED
    BY <1>1, <2>1, ConcretePlain
<1>16. ASSUME NEW a \in S PROVE Concrete(Modified(pkt, a.a)) = Modified(pkt, a.a)
  <2> DEFINE q == Modified(pkt, a.a)
  <2>1. q = [f \in Fields |-> q[f]] /\ \A f \in Fields : f \notin DOMAIN a.a => q[f] = pkt[f]
    BY DEF Modified
  <2>2. \A f \in Virtual : f \in Fields /\ f \notin DOMAIN a.a
    BY <1>1 DEF Forwards
  <2> HIDE DEF q
  <2>3. \A f \in Virtual : q[f] = Absent
    BY <1>1, <2>1, <2>2
  <2>4. Concrete(q) = q
    BY <2>1, <2>3, ConcretePlain
  <2> QED
    BY <2>4 DEF q
<1> DEFINE X == Output(p, pkt)
           Y == {Modified(pkt, a.a) : a \in S}
<1>17. ASSUME NEW y \in X, y["outport"] # Absent PROVE y \in Y
  <2>1. PICK q \in E : y = Concrete(q)
    BY <1>14
  <2>2. PICK a \in L : Goes(a) /\ q = Moved(a, pkt)
    BY <1>10
  <2>3. CASE a = True
    <3>1. a.k # "modify"
      BY <2>3 DEF True
    <3>2. q = pkt
      BY <2>2, <3>1 DEF Moved
    <3> QED
      BY <1>1, <1>15, <1>17, <2>1, <3>2
  <2>4. CASE a \in S
    BY <1>12, <1>16, <2>1, <2>2, <2>4
  <2> QED
    BY <1>11, <2>2, <2>3, <2>4
<1>18. ASSUME NEW y \in Y PROVE y \in X
  <2>1. PICK a \in S : y = Modified(pkt, a.a)
    OBVIOUS
  <2>2. y \in E
    BY <1>10, <1>12, <2>1
  <2>3. Concrete(y) = y
    BY <1>16, <2>1
  <2> QED
    BY <1>14, <2>2, <2>3
<1> HIDE DEF X, Y
<1>19. Leaving(X) = Leaving(Y)
  BY <1>17, <1>18 DEF Leaving
<1> QED
  BY <1>19 DEF X, Y

LEMMA ControllerTold ==
    ASSUME Installable, NEW bs, IsSequence(bs), Range(bs) = {Controller}, NEW port, NEW pkt
    PROVE  \E a \in Range(AtPort(Concreted(bs), port)) : Modified(pkt, a.a)["outport"] = ToController
<1> DEFINE to == ToTheController
           d == Concreted(bs)
<1>1. Range(d) = {IF a = Controller THEN to ELSE a : a \in {Controller}}
  BY ConcretedExact
<1> HIDE DEF to, d
<1>2. Range(d) = {to}
  BY <1>1
<1>3. to.a = [f \in {"outport"} |-> ToController]
  BY DEF to, ToTheController, Modify
<1>4. to.a["outport"] = ToController
  BY <1>3
<1>5. Ports(d) = {}
  BY <1>2, <1>4 DEF Ports
<1>6. AtPort(d, port) = d
  BY <1>5 DEF AtPort
<1>7. "outport" \in Fields /\ ToController \notin Fields
  BY DEF Installable
<1>8. Modified(pkt, to.a)["outport"] = ToController
  <2> DEFINE n == to.a
  <2>1. "outport" \in DOMAIN n /\ n["outport"] = ToController
    BY <1>3
  <2> HIDE DEF n
  <2>2. Modified(pkt, n)["outport"] = ToController
    BY <1>7, <2>1 DEF Modified
  <2> QED
    BY <2>2 DEF n
<1> QED
  BY <1>2, <1>6, <1>8 DEF d

LEMMA TableForwards ==
    ASSUME ModsExact, Installable, NEW p \in Policy, ~Raises(ForSwitches(Compile[p])),
           NEW pkt \in Arriving
    PROVE  LET table == FlowTable(Compile[p])
           IN  \/ Forwarded(p, table, pkt) = Leaving(Output(p, pkt))
               \/ pkt["ethtype"] = ARP /\ ArpBug(TopRule(table, pkt).actions)
<1> DEFINE c == Compile[p]
           t == FlowTable(c)
           port == pkt["inport"]
           sends == TopRule(t, pkt).actions
<1>1. ToControl(t, pkt) => Forwarded(p, t, pkt) = Leaving(Output(p, pkt))
  BY DEF Forwarded
<1>2. ~ToControl(t, pkt) => Forwarded(p, t, pkt) = Leaving(UNION {Sent(a, pkt) : a \in Range(sends)})
  BY DEF Forwarded
<1>3. PICK as : Decided(c, pkt, as)
  <2>1. pkt \in Frames
    BY ArrivingExact
  <2>2. Agrees(c, Eval[p], Reached[p])
    BY PoliciesCompile DEF Compiles
  <2> HIDE DEF c
  <2> QED
    BY <2>1, <2>2 DEF Agrees, Decides
<1>4. \/ Matching(t, pkt) = {}
      \/ /\ pkt["vlan_id"] = Absent
         /\ \E bs : /\ IsSequence(bs) /\ Reduced(as, bs)
                    /\ Decided(ForSwitches(c), pkt, bs)
                    /\ sends = AtPort(Concreted(bs), port)
  BY <1>3, FlowTableExact
<1>5. CASE Matching(t, pkt) = {}
  BY <1>1, <1>5 DEF ToControl
<1>6. ASSUME pkt["vlan_id"] = Absent, NEW bs, IsSequence(bs), Reduced(as, bs),
             Decided(ForSwitches(c), pkt, bs), sends = AtPort(Concreted(bs), port),
             ~(pkt["ethtype"] = ARP /\ ArpBug(sends))
      PROVE  Forwarded(p, t, pkt) = Leaving(Output(p, pkt))
  <2>1. CASE Range(bs) = {Controller}
    <3>1. \E a \in Range(sends) : Modified(pkt, a.a)["outport"] = ToController
      BY <1>6, <2>1, ControllerTold
    <3>2. ToControl(t, pkt)
      BY <3>1 DEF ToControl
    <3> QED
      BY <1>1, <3>2
  <2>2. CASE Controller \notin Range(as) /\ Range(bs) = {a \in Range(as) : ~IsRemoved(a)}
    <3>1. as \in Seq(Deeds)
      BY <1>3, CompileExact, DecidedType DEF Classifiers
    <3>2. ASSUME NEW a \in Range(bs) PROVE a = Modify(a.a) /\ Forwards(a.a) /\ a # Controller
      <4>1. a \in Deeds /\ ~IsRemoved(a) /\ a # Controller
        BY <2>2, <3>1, DeedsExact
      <4>2. \E m \in Mixed(Mods) : a = Modify(m)
        BY <4>1 DEF Deeds, IsRemoved, True, Drop
      <4>3. a = Modify(a.a) /\ a.a \in Mixed(Mods) /\ a.k = "modify"
        BY <4>2 DEF Modify
      <4>4. "outport" \in DOMAIN a.a
        BY <1>6, <4>3 DEF Raises, Decided
      <4> QED
        BY <4>1, <4>3, <4>4, MixedForwards
    <3> DEFINE d == Concreted(bs)
               Y == {Modified(pkt, a.a) : a \in Range(bs)}
    <3>3. IsSequence(d) /\ Range(d) = {IF a = Controller THEN ToTheController ELSE a : a \in Range(bs)}
      BY <1>6, ConcretedExact
    <3> HIDE DEF d
    <3>4. Range(d) = Range(bs)
      BY <3>2, <3>3
    <3>5. ~(pkt["ethtype"] = ARP /\ ArpBug(AtPort(d, port))) /\ sends = AtPort(d, port)
      BY <1>6 DEF d
    <3> HIDE DEF sends
    <3>6. UNION {Sent(x, pkt) : x \in Range(AtPort(d, port))} = {Modified(pkt, a.a) : a \in Range(d)}
      BY <3>2, <3>3, <3>4, <3>5, AtPortSends
    <3>7. UNION {Sent(x, pkt) : x \in Range(sends)} = Y
      BY <3>4, <3>5, <3>6
    <3>8. Leaving(Output(p, pkt)) = Leaving(Y)
      BY <1>3, <1>6, <2>2, <3>2, OutputExact
    <3> QED
      BY <1>1, <1>2, <3>7, <3>8
  <2> QED
    BY <1>6, <2>1, <2>2 DEF Reduced
<1> QED
  BY <1>4, <1>5, <1>6

(* The proactive mode: whatever the program, every packet that comes to a switch is
   forwarded as the policy's eval says, by the tables that install_classifier makes of
   the program's classifier or by the controller behind them. *)
THEOREM ProactiveForwardHolds ==
    ASSUME ModsExact, Installable
    PROVE  Spec => []ProactiveForward
<1>1. pol \in Policy => ProactiveForward
  BY TableForwards DEF ProactiveForward
<1> QED
  BY <1>1, ProgramsArePolicies, PTL
=============================================================================
