------------------------------- MODULE Inverses -------------------------------
(***************************************************************************)
(* back_policy of src/traceback/policy_traceback.py: the policy that leads *)
(* a packet back to the packets that a policy turns into it.               *)
(*                                                                         *)
(* A sum_modify sets its fields to any value that their policies accept.   *)
(* Its eval raises: Relate gives it the meaning of its docstring, so that  *)
(* policies with sums can be compared with others.                         *)
(***************************************************************************)
EXTENDS Policies

AnyValue == Values \union {Absent}
Sum(fields) == [k |-> "sum", fields |-> fields]

\* A sequential of no policies is identity.
Sequential(ps) == IF ps = <<>> THEN True ELSE [k |-> "sequential", ps |-> ps]
Like(p, ps)    == [k |-> p.k, ps |-> ps]

IsQuery(p) == p.k \in {"controller", "bucket", "count"}
-----------------------------------------------------------------------------
(* back_policy, from bs, the inverses of the policies in p *)

\* Mutant: the inverses of a sequence stay in its order.
AsWritten(ps) == ps
Backwards(ps) == Reverse(ps)

BackModify(a) ==
    Sequential(<<Match([f \in DOMAIN a |-> {a[f]}]), Sum([f \in DOMAIN a |-> AnyValue])>>)

\* A sequence with a drop or a query in it drops, and identities are left out.
BackSequential(p, bs) ==
    LET kept == FlattenSeq([i \in DOMAIN bs |-> IF p.ps[i] = True THEN <<>> ELSE <<bs[i]>>])
    IN  IF \E i \in DOMAIN p.ps : p.ps[i] = Drop \/ IsQuery(p.ps[i]) THEN Drop
        ELSE IF kept = <<>> THEN True
        ELSE Like(p, Backwards(kept))

BackOf(p, bs) ==
    CASE p.k \in {"identity", "drop", "match"} -> p
      [] p.k = "modify"      -> BackModify(p.a)
      [] p.k \in Sequentials -> BackSequential(p, bs)
      [] p.k \in Parallels \union {"negate"} -> Like(p, bs)
      [] p.k = "if"          -> bs[4]
      [] OTHER               -> Drop

BackPolicy[p \in Policy] == BackOf(p, [i \in DOMAIN Subs(p) |-> BackPolicy[Subs(p)[i]]])
-----------------------------------------------------------------------------
(* Evaluation of policies with sums *)

PartialMaps(S) == UNION {[D -> S] : D \in SUBSET Fields}
TraceLeaves ==
    Constants \union [k : {"match"}, m : PartialMaps(SUBSET AnyValue)]
              \union [k : {"modify"}, a : PartialMaps(Values \union Fields)]
              \union [k : {"sum"}, fields : PartialMaps(SUBSET AnyValue)]

\* An inverse is nested once more than its policy, and a trace twice more than that.
TraceDepth == MaxDepth + 3
Traces == Levels(TraceLeaves, TraceDepth)[TraceDepth]

Summed(fields, pkt) ==
    {[f \in Fields |-> IF f \in DOMAIN fields THEN v[f] ELSE pkt[f]] :
        v \in {w \in [DOMAIN fields -> AnyValue] : \A f \in DOMAIN w : w[f] \in fields[f]}}

RelateOf(p, rs, pkt) == IF p.k = "sum" THEN Summed(p.fields, pkt) ELSE EvalOf(p, rs, pkt)

\* The packets that a policy with sums turns a packet into.
Relate[p \in Traces] ==
    LET rs == [i \in DOMAIN Subs(p) |-> Relate[Subs(p)[i]]]
    IN  [pkt \in Frames |-> RelateOf(p, rs, pkt)]
-----------------------------------------------------------------------------
\* modify sets fields to values, and copies no other field.
NoCopies == \A a \in Mods \union Tags : Compilable(a)

(* back_policy is the inverse: a packet leads back to the packets that the
   policy turns into it, and to no others. *)
BackInverts ==
    LET back == BackPolicy[pol]
    IN  /\ \A p \in Samples : \A q \in Eval[pol][p] : p \in Relate[back][q]
        /\ \A q \in Samples : \A p \in Relate[back][q] : q \in Eval[pol][p]
=============================================================================
