----------------------------- MODULE MCTraceback -----------------------------
(* Small instances of Traceback for TLC: three switches in a line. *)
EXTENDS Traceback

MCFields == {"switch", "inport", "outport"}
MCValues == {"1", "2", "3"}
MCPatterns == {{v} : v \in MCValues}
MCPort(s, t) ==
    CASE <<s, t>> \in {<<"1", "2">>, <<"2", "1">>, <<"3", "2">>} -> "1"
      [] <<s, t>> = <<"2", "3">> -> "2"
      [] OTHER -> "none"
MCTests == {[f \in {"switch"} |-> {"1"}], [f \in {"inport"} |-> {"1"}], [f \in {"inport"} |-> {"2"}]}
MCMods == {[f \in {"outport"} |-> v] : v \in {"1", "2"}} \union {[f \in {"inport"} |-> "1"]}
MCSamples == {p \in Packets : p["switch"] # "none" /\ p["inport"] \in {"1", "2"} /\ p["outport"] # "3"}

\* The theorems on back_policy suppose it of the modifications.
ASSUME MCNoCopies == NoCopies
=============================================================================
