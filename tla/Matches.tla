------------------------------ MODULE Matches ------------------------------
(***************************************************************************)
(* Packets, matches and modifications of src/core/language.py, the algebra *)
(* that classifiers and flow tables are built from.                        *)
(*                                                                         *)
(* A packet gives every field a value, Absent where the header has none.   *)
(* A pattern is the set of values that it accepts: {v} for a value v, the  *)
(* addresses of a network for an IPPrefix, {Absent} for None.  A match is  *)
(* a function from some fields to patterns (match.map); the empty one is   *)
(* the policy identity.  A modification gives values to some fields        *)
(* (modify.map); None, which deletes a field, is left out.                 *)
(***************************************************************************)
CONSTANTS Fields, Values, Absent, Patterns

Packets == [Fields -> Values \union {Absent}]
Identity == [f \in {} |-> {}]

\* Two networks are nested or have no address in common, and so are values.
ASSUME PatternsAssumption ==
    /\ Patterns \subseteq SUBSET (Values \union {Absent})
    /\ \A p, q \in Patterns : p \subseteq q \/ q \subseteq p \/ p \intersect q = {}
    /\ {} \notin Patterns

\* match.eval: every pattern accepts the packet's value.
Sat(m, pkt) == \A f \in DOMAIN m : pkt[f] \in m[f]

\* match.intersect returns drop: a field that both name has unrelated patterns.
Disjoint(m1, m2) ==
    \E f \in DOMAIN m1 \intersect DOMAIN m2 : ~(m1[f] \subseteq m2[f]) /\ ~(m2[f] \subseteq m1[f])

\* match.intersect otherwise: the more specific pattern of a shared field.
Meet(m1, m2) ==
    [f \in DOMAIN m1 \union DOMAIN m2 |->
        IF f \in DOMAIN m1 /\ (f \in DOMAIN m2 => m1[f] \subseteq m2[f]) THEN m1[f] ELSE m2[f]]

\* match.covers
Covers(m1, m2) ==
    /\ DOMAIN m1 \subseteq DOMAIN m2
    /\ \A f \in DOMAIN m1 : m2[f] \subseteq m1[f]

\* Packet.modifymany: a value that names an available field stands for the
\* value of that field.
Modified(pkt, a) ==
    [f \in Fields |->
        IF f \notin DOMAIN a THEN pkt[f]
        ELSE IF a[f] \in Fields /\ pkt[a[f]] # Absent THEN pkt[a[f]]
        ELSE a[f]]

\* Classifier._commute_test on a modify, returning drop: the value is compared
\* with the pattern itself, so an address differs from every network.
CommuteDrops(a, m) == \E f \in DOMAIN a \intersect DOMAIN m : m[f] # {a[f]}

\* Classifier._commute_test otherwise: the test before the modification.
Commuted(a, m) == [f \in DOMAIN m \ DOMAIN a |-> m[f]]

\* Classifier._sequence_actions, modify after modify: the later value wins.
Merged(a, b) == [f \in DOMAIN a \union DOMAIN b |-> IF f \in DOMAIN b THEN b[f] ELSE a[f]]

\* A compilable modification: header fields, constant values.
Compilable(a) == \A f \in DOMAIN a : a[f] \notin Fields

\* The test and the modification the comparison above is right about.
Exact(a, m) == \A f \in DOMAIN a \intersect DOMAIN m : a[f] \in m[f] => m[f] = {a[f]}
=============================================================================
