----------------------------- MODULE MCFlowTables -----------------------------
(* Small instances of FlowTables for TLC. *)
EXTENDS FlowTables

\* One rule kept and one changed, one removed, and rules that differ by switch.
MCUnforwardable == {[s \in Switches |-> [k \in Keys |-> "b"]]}
MCClassifiers ==
    {[s \in Switches |-> [k \in Keys |-> IF k = "high" THEN "a" ELSE None]],
     [s \in Switches |-> [k \in Keys |-> "a"]],
     [s \in Switches |-> [k \in Keys |-> IF k = "high" THEN "a" ELSE "b"]]}
    \union MCUnforwardable
=============================================================================
