------------------------------ MODULE Traceback ------------------------------
(***************************************************************************)
(* Traceback of src/traceback/policy_traceback.py over a topology: link    *)
(* and backlink carry packets along its cables, back_policy (of Inverses)  *)
(* undoes the policy of a switch, and simplify_tb of src/core/language.py  *)
(* shortens the result before it is evaluated.                             *)
(*                                                                         *)
(* simplify_tb works on the objects of the policy.  A match of the policy  *)
(* has an identity, id, and edits says which of them hold another map now: *)
(* if_ has its predicate in both branches.  A match that back_policy or    *)
(* simplify_tb makes is in one place, and has none.                        *)
(***************************************************************************)
EXTENDS Inverses

CONSTANTS
    Switches,
    Port(_, _)    \* Port(s, t): the port of switch s towards t, Absent if none

Broken == [k |-> "broken"]    \* a modify whose map has become None

\* A parallel of no policies is drop.
Parallel(ps) == IF ps = <<>> THEN Drop ELSE [k |-> "parallel", ps |-> ps]
-----------------------------------------------------------------------------
(* The matches of a policy as objects *)
NoEdits == [id \in {} |-> Identity]

\* The policy with its matches named by their places; an if_ is derived from
\* the predicate it was given, so that both branches have the same.
RECURSIVE Objects(_, _)
Objects(p, place) ==
    LET parts == [i \in DOMAIN Subs(p) |-> Objects(Subs(p)[i], Append(place, i))]
    IN  CASE p.k = "match"       -> [k |-> "match", m |-> p.m, id |-> place]
          [] p.k = "if"          -> If(parts[1], parts[2], parts[3])
          [] p.k \in Combinators -> Like(p, parts)
          [] OTHER               -> p

IsEdited(p, edits) == p.k = "match" /\ "id" \in DOMAIN p /\ p.id \in DOMAIN edits
Seen(p, edits) == IF IsEdited(p, edits) THEN [p EXCEPT !.m = edits[p.id]] ELSE p

\* What a policy means once its objects hold what they hold.
RECURSIVE Resolve(_, _)
Resolve(p, edits) ==
    CASE p.k = "match"       -> Match(Seen(p, edits).m)
      [] p.k \in Combinators -> Like(p, [i \in DOMAIN p.ps |-> Resolve(p.ps[i], edits)])
      [] OTHER               -> p
-----------------------------------------------------------------------------
(* simplify_seq_pair: what stands for two policies in sequence, and whether the
   pass over the sequence starts again. *)
Keep(ps)    == [ps |-> ps, again |-> FALSE]
Become(p)   == [ps |-> <<p>>, again |-> TRUE]

\* Mutant: tests of one field are merged, and the second wins.
ClashNever(m1, m2) == FALSE

\* Two values of a test differ, and two networks always do.
Clash(m1, m2) ==
    \E f \in DOMAIN m1 \intersect DOMAIN m2 : m1[f] # m2[f] \/ Cardinality(m1[f]) > 1

\* sum_to_modify: a field whose policy is one match becomes a modify.
SumToModify(fields) ==
    LET set  == {f \in DOMAIN fields : fields[f] # AnyValue}
        mod  == Modify([f \in set |-> CHOOSE v \in fields[f] : TRUE])
        rest == Sum([f \in DOMAIN fields \ set |-> AnyValue])
    IN  IF DOMAIN fields = set THEN mod
        ELSE IF set = {} THEN rest
        ELSE Sequential(<<mod, rest>>)

\* A test after a sum_modify settles the fields that both name.
ResolveSum(s, m) ==
    LET shared   == DOMAIN s.fields \intersect DOMAIN m
        resolved == SumToModify([f \in DOMAIN s.fields |-> IF f \in shared THEN m[f] ELSE s.fields[f]])
        rest     == [f \in DOMAIN m \ shared |-> m[f]]
    IN  IF shared = {} THEN Keep(<<s, Match(m)>>)
        ELSE IF rest = Identity THEN Become(resolved)
        ELSE Become(Rshift(resolved, Match(rest)))

\* A modify after a sum_modify overrides the fields that both name.
ShadowSum(s, a) ==
    LET rest == [f \in DOMAIN s.fields \ DOMAIN a |-> s.fields[f]]
    IN  IF rest = Identity THEN Become(Modify(a)) ELSE Keep(<<Sum(rest), Modify(a)>>)

SimplifyPair(p, q) ==
    CASE p.k = "match" /\ q.k = "match" ->
            IF Clash(p.m, q.m) THEN Become(Drop) ELSE Become([p EXCEPT !.m = Merged(p.m, q.m)])
      [] p.k = "modify" /\ q.k = "modify" -> Become(Broken)    \* dict.update returns None
      [] p.k = "sum" /\ q.k = "match"  -> ResolveSum(p, q.m)
      [] p.k = "sum" /\ q.k = "modify" -> ShadowSum(p, q.a)
      [] OTHER -> Keep(<<p, q>>)

\* The first of two matches is given the merged map, wherever else it is.
GiveMaps(s, edits) ==
    LET p == s.ps[1]
    IN  IF s.again /\ p.k = "match" /\ "id" \in DOMAIN p THEN (p.id :> p.m) @@ edits ELSE edits

\* The pass over a sequence, from its i-th policy.
RECURSIVE SimplifyFrom(_, _, _)
SimplifyFrom(ps, i, edits) ==
    IF i >= Len(ps) THEN [ps |-> ps, edits |-> edits]
    ELSE LET s    == SimplifyPair(Seen(ps[i], edits), Seen(ps[i + 1], edits))
             next == SubSeq(ps, 1, i - 1) \o s.ps \o SubSeq(ps, i + 2, Len(ps))
         IN  IF s.ps = <<Drop>> THEN [ps |-> <<Drop>>, edits |-> edits]
             ELSE SimplifyFrom(next, IF s.again THEN 1 ELSE i + 1, GiveMaps(s, edits))

\* A sum over outport alone is taken out.
UnsetOutport == Sum([f \in {"outport"} |-> AnyValue])

\* simplify_tb: the policy that it returns, and what the matches hold afterwards.
RECURSIVE Simplify(_, _), SimplifyAll(_, _)
SimplifyAll(ps, edits) ==
    IF ps = <<>> THEN [ps |-> <<>>, edits |-> edits]
    ELSE LET first == Simplify(Head(ps), edits)
             rest  == SimplifyAll(Tail(ps), first.edits)
         IN  [ps |-> <<first.pol>> \o rest.ps, edits |-> rest.edits]

SimplifySequential(p, edits) ==
    LET simp == SimplifyAll(SelectSeq(p.ps, LAMBDA q : q # True), edits)
        flat == FlattenSeq([i \in DOMAIN simp.ps |-> Operands(simp.ps[i], Sequentials)])
        pass == SimplifyFrom(flat, 1, simp.edits)
    IN  IF \E i \in DOMAIN p.ps : p.ps[i] = Drop \/ IsQuery(p.ps[i])
        THEN [pol |-> Drop, edits |-> edits]
        ELSE [edits |-> pass.edits,
              pol   |-> IF Len(flat) = 1 THEN flat[1]
                        ELSE IF pass.ps = <<Drop>> THEN Drop
                        ELSE Sequential(SelectSeq(pass.ps, LAMBDA q : q # UnsetOutport))]

SimplifyParallel(p, edits) ==
    LET simp == SimplifyAll(p.ps, edits)
    IN  [pol   |-> IF True \in Range(simp.ps) THEN True ELSE Parallel(simp.ps),
         edits |-> simp.edits]

Simplify(p, edits) ==
    CASE IsQuery(p) -> [pol |-> Drop, edits |-> edits]
      [] p.k \in Sequentials -> SimplifySequential(p, edits)
      [] p.k \in Parallels -> SimplifyParallel(p, edits)
      [] p.k = "if" -> Simplify(Derived(p), edits)
      [] OTHER -> [pol |-> p, edits |-> edits]

\* back_policy of a policy with objects: their matches stay what they are.
RECURSIVE Back(_)
Back(p) == BackOf(p, [i \in DOMAIN Subs(p) |-> Back(Subs(p)[i])])

\* What the callers do with it.
Simplified(p)     == Simplify(Objects(p, <<>>), NoEdits)
BackSimplified(p) == Simplify(Back(Objects(p, <<>>)), NoEdits)
Meaning(simp)     == Resolve(simp.pol, simp.edits)
-----------------------------------------------------------------------------
(* Links of the topology *)
Neighbors(s) == {t \in Switches : Port(s, t) # Absent}
Edges == {e \in Switches \X Switches : Port(e[1], e[2]) # Absent}
At(fields, s, port) ==
    [f \in {"switch", fields} |-> IF f = "switch" THEN s ELSE port]

\* topo_policy: link moves a packet from an output port to the far end.
Link(e) ==
    LET from == At("outport", e[1], Port(e[1], e[2]))
    IN  Rshift(Match([f \in DOMAIN from |-> {from[f]}]), Modify(At("inport", e[2], Port(e[2], e[1]))))
TopoPolicy == Parallel(SetToSeq({Link(e) : e \in Edges}))

\* back_topo_policy: backlink moves it back, to any port with a link as inport.
InFlood(s) == Parallel(SetToSeq({Modify([f \in {"inport"} |-> Port(s, t)]) : t \in Neighbors(s)}))
\* Mutant: the input port of the far switch is kept.
BackLinkOnly(e) ==
    LET at == At("inport", e[2], Port(e[2], e[1]))
    IN  Sequential(<<Match([f \in DOMAIN at |-> {at[f]}]), Modify(At("outport", e[1], Port(e[1], e[2])))>>)
BackLink(e) ==
    LET at == At("inport", e[2], Port(e[2], e[1]))
    IN  Sequential(<<Match([f \in DOMAIN at |-> {at[f]}]),
                     Modify(At("outport", e[1], Port(e[1], e[2]))), InFlood(e[1])>>)
BackTopoPolicy == Parallel(SetToSeq({BackLink(e) : e \in Edges}))

\* simplify_tb leaves links alone, so that only the policy behind them changes.
TracebackPolicy(p) ==
    LET forth == Simplified(p)
    IN  Rshift(BackTopoPolicy, Meaning(Simplify(Back(forth.pol), forth.edits)))
-----------------------------------------------------------------------------
RECURSIVE Parts(_)
Parts(p) ==
    {p} \union CASE p.k = "if" -> Parts(Derived(p))
                 [] p.k \in Parallels \union Sequentials \union {"negate"} ->
                       UNION {Parts(p.ps[i]) : i \in DOMAIN p.ps}
                 [] OTHER -> {}
IsBroken(p)  == Broken \in Parts(p)
Forwards(p)  == \E q \in Parts(p) : q.k = "modify" /\ "outport" \in DOMAIN q.a

\* A parallel with an identity in it becomes identity, and loses what else it did.
HasIdle(p) == \E q \in Parts(p) : q.k \in Parallels /\ \E i \in DOMAIN q.ps : Simplify(q.ps[i], NoEdits).pol = True

\* outport is set again after it was set: its sum is taken out too early.
ForwardsAgain(p) == \E q \in Parts(p) :
    q.k \in Sequentials /\ \E i, j \in DOMAIN q.ps : i < j /\ Forwards(q.ps[i]) /\ Forwards(q.ps[j])

\* Two packets that differ in no field but outport.
SameBut(p, q) == \A f \in Fields \ {"outport"} : p[f] = q[f]
-----------------------------------------------------------------------------
\* A match that a negation tests holds another map than it was given.
Spoilt(p, edits) ==
    \E q \in Parts(Objects(p, <<>>)) : q.k = "negate" /\
        \E t \in Parts(q) : IsEdited(t, edits) /\ edits[t.id] # t.m

(* simplify_tb invents no packet, on the way forth or back, unless two modifies
   follow each other, where it leaves a policy that cannot be evaluated, or a
   match that it gave another map is tested by a negation, too. *)
SimplifySound ==
    LET forth == Simplified(pol)
        back  == BackSimplified(pol)
    IN  ~IsBroken(forth.pol) =>
            \A p \in Samples :
                /\ Spoilt(pol, forth.edits) \/ Relate[Meaning(forth)][p] \subseteq Eval[pol][p]
                /\ Spoilt(pol, back.edits) \/
                        Relate[Meaning(back)][p] \subseteq Relate[BackPolicy[pol]][p]

(* Traced back from the far end of a link, a packet leads to the one that the
   policy forwarded there, if that had come in at a port with a link. *)
HopTracedBack ==
    LET trace == TracebackPolicy(pol)
    IN  ~IsBroken(Simplified(pol).pol) /\ ~HasIdle(pol) /\ ~ForwardsAgain(pol) =>
        \A p \in Samples : \A r \in Eval[pol][p] : \A e \in Edges : \A q \in Relate[Link(e)][r] :
            (\E t \in Neighbors(e[1]) : r["inport"] = Port(e[1], t)) =>
                \E x \in Relate[trace][q] : SameBut(x, p)
=============================================================================
