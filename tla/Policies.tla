------------------------------ MODULE Policies ------------------------------
(***************************************************************************)
(* The policy language of src/core/language.py: what eval does with a      *)
(* packet, and the classifier that compile produces.  Policies are records *)
(* whose field k names the class.  The specification builds policies with  *)
(* the operators of the language, up to a number of atoms.                 *)
(*                                                                         *)
(* What a policy does follows from what the policies in it do.  EvalOf,    *)
(* CompileOf and their like say how, for the class of the policy; Eval,    *)
(* Compile and their like apply them from the atoms up.                    *)
(***************************************************************************)
EXTENDS Matches, Naturals, SequencesExt

CONSTANTS
    Tests,      \* maps of the match atoms
    Mods,       \* maps of the modify atoms, over header fields
    Tags,       \* maps of the modify atoms over virtual headers
    Buckets,    \* FwdBucket objects
    Counters,   \* CountBucket objects
    Samples,    \* packets that the properties try
    MaxAtoms,   \* bound on the atoms of a policy
    MaxDepth    \* bound on the nesting of policies

VARIABLE pol

ASSUME PoliciesAssumption ==
    /\ \A m \in Tests : m \in [DOMAIN m -> Patterns] /\ DOMAIN m \subseteq Fields
    /\ \A a \in Mods \union Tags : a \in [DOMAIN a -> Values \union Fields] /\ DOMAIN a \subseteq Fields
    /\ Samples \subseteq Packets
    /\ MaxAtoms \in Nat /\ MaxDepth \in Nat

Match(m)  == [k |-> "match", m |-> m]
Modify(a) == [k |-> "modify", a |-> a]
True      == [k |-> "identity"]
Drop      == [k |-> "drop"]
Controller == [k |-> "controller"]

Parallels   == {"parallel", "union"}
Sequentials == {"sequential", "intersection"}

\* Filters that negate can compile.  A Query is a Filter too, but the
\* compilation of its negation raises TypeError.
IsFilter(p) == p.k \in {"match", "identity", "drop", "negate", "union", "intersection"}

\* Combinators keep a list of policies; adding to one extends its list.
Operands(p, ks) == IF p.k \in ks THEN p.ps ELSE <<p>>
Plus(p, q)   == [k |-> "parallel", ps |-> Operands(p, Parallels) \o Operands(q, Parallels)]
Rshift(p, q) == [k |-> "sequential", ps |-> Operands(p, Sequentials) \o Operands(q, Sequentials)]
Or(p, q)     == [k |-> "union", ps |-> Operands(p, {"union"}) \o Operands(q, {"union"})]
Invert(p)    == [k |-> "negate", ps |-> <<p>>]

\* match.__and__ builds one match, or drop.
And(p, q) ==
    IF p.k = "match" /\ q.k = "match"
    THEN IF Disjoint(p.m, q.m) THEN Drop ELSE Match(Meet(p.m, q.m))
    ELSE [k |-> "intersection", ps |-> Operands(p, {"intersection"}) \o Operands(q, {"intersection"})]

\* Mutant: the second policy is not guarded by the negated predicate.
Unguarded(f, p, q) == Plus(Rshift(f, p), q)
Guarded(f, p, q)   == Plus(Rshift(f, p), Rshift(Invert(f), q))

\* if_ keeps its predicate and branches, and the policy that it is derived to.
\* Other derived policies (difference, xfwd and the like) have only the latter.
If(f, p, q) == [k |-> "if", ps |-> <<f, p, q, Guarded(f, p, q)>>]
Derived(p)  == p.ps[4]

\* The maps that give every field what one of the maps in S gives it.
Mixed(S) ==
    LET values == UNION {{m[f] : f \in DOMAIN m} : m \in S}
        maps   == UNION {[D -> values] : D \in SUBSET UNION {DOMAIN m : m \in S}}
    IN  {m \in maps : \A f \in DOMAIN m : \E n \in S : f \in DOMAIN n /\ m[f] = n[f]}

Constants == {True, Drop}
Matches == {Match(m) : m \in Tests}
Others  == {Modify(a) : a \in Mods \union Tags}
                \union {[k |-> "bucket", b |-> b] : b \in Buckets}
                \union {[k |-> "count", b |-> b] : b \in Counters}
Atoms   == Matches \union Others
Leaves  == Constants \union Others \union {Match(m) : m \in Mixed(Tests)}

Combinators == Parallels \union Sequentials \union {"negate", "if"}
WellBuilt(p) ==
    /\ p.ps # <<>>
    /\ p.k \in {"union", "intersection", "negate"} => \A i \in DOMAIN p.ps : IsFilter(p.ps[i])
    /\ p.k = "negate" => Len(p.ps) = 1
    /\ p.k = "if" => Len(p.ps) = 4 /\ IsFilter(p.ps[1]) /\ p = If(p.ps[1], p.ps[2], p.ps[3])

\* The policies over some leaves, by their nesting.
Levels(leaves, depth) ==
    LET level[n \in 0 .. depth] ==
            IF n = 0 THEN leaves
            ELSE leaves \union {p \in [k : Combinators, ps : Seq(level[n - 1])] : WellBuilt(p)}
    IN  level
Policy == Levels(Leaves, MaxDepth)[MaxDepth]

Subs(p) == IF p.k \in Combinators THEN p.ps ELSE <<>>
-----------------------------------------------------------------------------
(* Evaluation, from es, the functions that the policies in p eval to. *)

\* Packets on the way: modifymany leaves the name of a field that they lack.
Frames == [Fields -> Values \union Fields \union {Absent}]

\* The packets after so many of the policies in sequence.
Through(es, pkt) ==
    LET after[n \in 0 .. Len(es)] ==
            IF n = 0 THEN {pkt} ELSE UNION {es[n][x] : x \in after[n - 1]}
    IN  after

EvalModify(p, pkt)      == {Modified(pkt, p.a)}
EvalNegate(es, pkt)     == IF es[1][pkt] = {} THEN {pkt} ELSE {}
EvalParallel(es, pkt)   == UNION {es[i][pkt] : i \in DOMAIN es}
EvalSequential(es, pkt) == Through(es, pkt)[Len(es)]
Chosen(es, pkt)         == IF es[1][pkt] # {} THEN 2 ELSE 3
EvalIf(es, pkt)         == es[Chosen(es, pkt)][pkt]

EvalOf(p, es, pkt) ==
    CASE p.k = "match"       -> IF Sat(p.m, pkt) THEN {pkt} ELSE {}
      [] p.k = "modify"      -> EvalModify(p, pkt)
      [] p.k = "identity"    -> {pkt}
      [] p.k = "negate"      -> EvalNegate(es, pkt)
      [] p.k \in Parallels   -> EvalParallel(es, pkt)
      [] p.k \in Sequentials -> EvalSequential(es, pkt)
      [] p.k = "if"          -> EvalIf(es, pkt)
      [] p.k \in {"drop", "controller", "bucket", "count"} -> {}

Eval[p \in Policy] ==
    LET es == [i \in DOMAIN Subs(p) |-> Eval[Subs(p)[i]]]
    IN  [pkt \in Frames |-> EvalOf(p, es, pkt)]

HasVirtualHeaders(a) == a \in Tags

\* The policies whose eval runs on pkt or on what becomes of it, and that a switch
\* cannot do by itself (they set virtual headers), or has to count for.  A
\* FwdBucket keeps the packet until its apply.
ReachedParallel(rs, pkt) == UNION {rs[i][pkt] : i \in DOMAIN rs}
ReachedSequential(es, rs, pkt) ==
    UNION {UNION {rs[i][x] : x \in Through(es, pkt)[i - 1]} : i \in DOMAIN rs}

ReachedOf(p, es, rs, pkt) ==
    CASE p.k \in {"bucket", "count"} -> {p}
      [] p.k = "modify"      -> IF HasVirtualHeaders(p.a) THEN {p} ELSE {}
      [] p.k \in Parallels   -> ReachedParallel(rs, pkt)
      [] p.k \in Sequentials -> ReachedSequential(es, rs, pkt)
      [] p.k = "if"          -> rs[Chosen(es, pkt)][pkt]
      [] OTHER               -> {}

Reached[p \in Policy] ==
    LET es == [i \in DOMAIN Subs(p) |-> Eval[Subs(p)[i]]]
        rs == [i \in DOMAIN Subs(p) |-> Reached[Subs(p)[i]]]
    IN  [pkt \in Frames |-> ReachedOf(p, es, rs, pkt)]

\* queries_in_eval: the queries that handle_packet_in applies afterwards, res, and
\* the packets that are left, pkts.
Found == [res : SUBSET Leaves, pkts : SUBSET Frames]
FindNext(q, acc) == IF acc.pkts = {} THEN acc ELSE q[acc]
FindParallel(qs, acc) ==
    [res  |-> UNION {qs[i][acc].res : i \in DOMAIN qs},
     pkts |-> UNION {qs[i][acc].pkts : i \in DOMAIN qs}]
FindSequential(qs, acc) ==
    LET after[n \in 1 .. Len(qs)] == IF n = 1 THEN qs[1][acc] ELSE FindNext(qs[n], after[n - 1])
    IN  after[Len(qs)]
FindPackets(p, acc) == [acc EXCEPT !.pkts = UNION {Eval[p][x] : x \in acc.pkts}]

QueriesOf(p, qs, acc) ==
    CASE p.k = "drop" -> [acc EXCEPT !.pkts = {}]
      [] p.k \in {"match", "modify", "negate"} -> FindPackets(p, acc)
      [] p.k \in {"bucket", "count"} -> [res |-> acc.res \union {p}, pkts |-> {}]
      [] p.k = "if"          -> qs[4][acc]
      [] p.k \in Parallels   -> FindParallel(qs, acc)
      [] p.k \in Sequentials -> FindSequential(qs, acc)
      [] OTHER -> acc

QueriesInEval[p \in Policy] ==
    LET qs == [i \in DOMAIN Subs(p) |-> QueriesInEval[Subs(p)[i]]]
    IN  [acc \in Found |-> QueriesOf(p, qs, acc)]
-----------------------------------------------------------------------------
(* Classifiers: sequences of rules, the first that matches decides. *)
Rule(m, acts) == [match |-> m, actions |-> acts]
Nothing == <<Rule(Identity, <<Drop>>)>>

\* remove_shadowed_cover_single compares with the rules kept so far; what a rule
\* that is not kept would cover, the one that covers that rule does.
Optimize(c) ==
    LET Kept(i) == IF \E j \in 1 .. i - 1 : Covers(c[j].match, c[i].match) THEN <<>> ELSE <<c[i]>>
    IN  FlattenSeq([i \in DOMAIN c |-> Kept(i)])

\* The actions of both rules, without drops unless nothing else is left.
JoinActions(as1, as2) ==
    LET both == as1 \o as2
        acts == FlattenSeq([i \in DOMAIN both |-> IF both[i] = Drop THEN <<>> ELSE <<both[i]>>])
    IN  IF acts = <<>> THEN <<Drop>> ELSE acts

\* Classifier.__add__
Both(r1, r2) ==
    IF Disjoint(r1.match, r2.match) THEN <<>>
    ELSE <<Rule(Meet(r1.match, r2.match), JoinActions(r1.actions, r2.actions))>>
\* Mutant: the first classifier's rules come before the combined ones.
AddFirstBefore(c1, c2) ==
    LET cross == FlattenSeq([i \in DOMAIN c1 |-> FlattenSeq([j \in DOMAIN c2 |-> Both(c1[i], c2[j])])])
    IN  Optimize(c1 \o cross \o c2)
AddClassifiers(c1, c2) ==
    LET cross == FlattenSeq([i \in DOMAIN c1 |-> FlattenSeq([j \in DOMAIN c2 |-> Both(c1[i], c2[j])])])
    IN  Optimize(cross \o c1 \o c2)

\* One classifier after the other.
AddAll(cs) ==
    LET sum[n \in 1 .. Len(cs)] == IF n = 1 THEN cs[1] ELSE AddClassifiers(sum[n - 1], cs[n])
    IN  sum[Len(cs)]

\* Mutant: a test after the controller's action drops.
CommuteTestUnsent(act, m) ==
    CASE act.k = "identity" -> {m}
      [] act.k = "modify"   -> IF CommuteDrops(act.a, m) THEN {} ELSE {Commuted(act.a, m)}
      [] act.k \in {"drop", "controller", "count"} -> {}

\* Classifier._commute_test: the test before the action, {} for drop.
CommuteTest(act, m) ==
    CASE act.k = "identity" -> {m}
      [] act.k = "drop"     -> {}
      [] act.k = "modify"   -> IF CommuteDrops(act.a, m) THEN {} ELSE {Commuted(act.a, m)}
      [] act.k \in {"controller", "count"} -> {Identity}

\* Classifier._sequence_actions
SequenceActions(a1, as2) ==
    LET Seq2(a2) == CASE a2.k = "identity" -> a1
                      [] a2.k = "modify"   -> Modify(Merged(a1.a, a2.a))
                      [] OTHER             -> a2
    IN  CASE a1.k = "identity" -> as2
          [] a1.k = "modify"   -> [i \in DOMAIN as2 |-> Seq2(as2[i])]
          [] OTHER             -> <<a1>>

\* Classifier._sequence_action_classifier: up to the first test that is
\* identity once moved before the action.
SequenceActionClassifier(act, c) ==
    LET tests == [i \in DOMAIN c |-> CommuteTest(act, c[i].match)]
        After(i) == {Rule(m, SequenceActions(act, c[i].actions)) : m \in tests[i]}
        Kept(i)  == IF tests[i] = {} \/ \E j \in 1 .. i - 1 : tests[j] = {Identity} THEN <<>>
                    ELSE <<CHOOSE r \in After(i) : TRUE>>
        new == FlattenSeq([i \in DOMAIN c |-> Kept(i)])
    IN  IF new = <<>> THEN Nothing ELSE new

\* Classifier._sequence_actions_classifier
SequenceActionsClassifier(acts, c) ==
    AddAll(<<Nothing>> \o [i \in DOMAIN acts |-> SequenceActionClassifier(acts[i], c)])

\* Classifier._sequence_rule_classifier
Within(r, r2) ==
    IF Disjoint(r2.match, r.match) THEN <<>> ELSE <<Rule(Meet(r2.match, r.match), r2.actions)>>
SequenceRuleClassifier(r, c) ==
    LET c2 == SequenceActionsClassifier(r.actions, c)
    IN  Optimize(FlattenSeq([i \in DOMAIN c2 |-> Within(r, c2[i])]))

\* Classifier.__rshift__
SequenceClassifiers(c1, c2) ==
    Optimize(FlattenSeq([i \in DOMAIN c1 |-> SequenceRuleClassifier(c1[i], c2)]))

SequenceAll(cs) ==
    LET all[n \in 1 .. Len(cs)] == IF n = 1 THEN cs[1] ELSE SequenceClassifiers(all[n - 1], cs[n])
    IN  all[Len(cs)]

\* negate.compile swaps the first action of each rule.
NegateRules(c) ==
    [i \in DOMAIN c |-> Rule(c[i].match, IF c[i].actions[1] = True THEN <<Drop>> ELSE <<True>>)]

All(acts) == <<Rule(Identity, acts)>>
CompileMatch(p)  == <<Rule(p.m, <<True>>)>> \o Nothing
CompileModify(p) == All(<<IF HasVirtualHeaders(p.a) THEN Controller ELSE p>>)
CompileBucket(p) == All(<<Controller>>)

CompileParallel(cs)   == AddAll(cs)
CompileSequential(cs) == SequenceAll(cs)

CompileOf(p, cs) ==
    CASE p.k = "match"       -> CompileMatch(p)
      [] p.k = "modify"      -> CompileModify(p)
      [] p.k = "bucket"      -> CompileBucket(p)
      [] p.k = "negate"      -> NegateRules(cs[1])
      [] p.k \in Parallels   -> CompileParallel(cs)
      [] p.k \in Sequentials -> CompileSequential(cs)
      [] p.k = "if"          -> cs[4]
      [] p.k \in {"identity", "drop", "controller", "count"} -> All(<<p>>)

Compile[p \in Policy] == CompileOf(p, [i \in DOMAIN Subs(p) |-> Compile[Subs(p)[i]]])

\* Classifier.eval finds the first rule that matches.
RuleFor(c, pkt) ==
    c[CHOOSE i \in DOMAIN c : Sat(c[i].match, pkt) /\ \A j \in 1 .. i - 1 : ~Sat(c[j].match, pkt)]
Acts(c, pkt) == Range(RuleFor(c, pkt).actions)
ClassifierEval(c, pkt) == UNION {EvalOf(a, <<>>, pkt) : a \in Acts(c, pkt)}
-----------------------------------------------------------------------------
(* The policies of a program: expressions of the language over some atoms. *)
Size[p \in Policy] ==
    LET part == [i \in DOMAIN Subs(p) |-> IF p.k = "if" /\ i = 4 THEN 0 ELSE Size[Subs(p)[i]]]
    IN  IF p.k \in Combinators THEN FoldLeft(+, 0, part) ELSE 1

Init == pol \in Atoms \union Constants

Compose == \E a \in Atoms :
    /\ Size[pol] < MaxAtoms
    /\ pol' \in {Plus(pol, a), Rshift(pol, a), Rshift(a, pol)}
Combine == \E f \in Matches :
    /\ IsFilter(pol) /\ Size[pol] < MaxAtoms
    /\ pol' \in {Or(pol, f), And(pol, f)}
Negate == IsFilter(pol) /\ pol.k # "negate" /\ pol' = Invert(pol)
Branch == \E f \in Matches, a \in Atoms \union Constants :
    /\ Size[pol] + 1 < MaxAtoms
    /\ \/ pol' = If(f, pol, a)
       \/ IsFilter(pol) /\ pol' = If(pol, a, f)

Next == (Compose \/ Combine \/ Negate \/ Branch) /\ pol' \in Policy
Spec == Init /\ [][Next]_pol
-----------------------------------------------------------------------------
\* Modifications of header fields only, with values that lie in no network of a test:
\* _commute_test compares them with a network by equality.
ModsExact == \A a \in Mods : Compilable(a) /\ \A m \in Tests : Exact(a, m)

(* The classifier treats every packet as eval does, unless it sends it to the
   controller: same packets out, same counters touched (compile of every class,
   the classifiers' + and >>, and the removal of shadowed rules). *)
CompileAgrees ==
    LET c == Compile[pol]
    IN  \A pkt \in Samples :
            /\ \E i \in DOMAIN c : Sat(c[i].match, pkt)
            /\ Controller \notin Acts(c, pkt) =>
                  /\ ClassifierEval(c, pkt) = Eval[pol][pkt]
                  /\ {a \in Acts(c, pkt) : a.k = "count"} = Reached[pol][pkt]

(* A packet goes to the controller exactly when its evaluation fills a bucket
   or sets a virtual header: no query misses packets, and no others are sent up
   (FwdBucket.compile, modify.compile, and Controller's way through + and >>). *)
BucketsAreFed ==
    LET c == Compile[pol]
    IN  \A pkt \in Samples :
            Controller \in Acts(c, pkt) <=> \E x \in Reached[pol][pkt] : x.k \in {"bucket", "modify"}

(* The queries that handle_packet_in applies after an evaluation are those that
   the evaluation reached: no packet waits in a bucket for the next one. *)
QueriesApplied ==
    \A pkt \in Samples :
        QueriesInEval[pol][[res |-> {}, pkts |-> {pkt}]].res
            = {x \in Reached[pol][pkt] : x.k # "modify"}
=============================================================================
