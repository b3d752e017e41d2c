----------------------------- MODULE TableStore -----------------------------
(***************************************************************************)
(* What an installation of rules promises: the tables that the runtime     *)
(* keeps track of change as a whole, from a set of rules that was asked    *)
(* for to one that was asked for later; a switch that disconnects may be   *)
(* lost track of.                                                          *)
(***************************************************************************)
EXTENDS Naturals, Sequences

CONSTANTS Switches, Rules, Nothing, Unknown

VARIABLES
    asked,    \* the rules asked for so far, each a function from switches
    latest,   \* the number of those in the tables
    shown     \* the rules of each switch, Unknown when the runtime lost track

Init == asked = <<>> /\ latest = 0 /\ shown = [s \in Switches |-> Nothing]

Ask == /\ \E r \in [Switches -> Rules] : asked' = Append(asked, r)
       /\ UNCHANGED <<latest, shown>>

\* One set of rules is installed on the switches that are kept track of.
Update == \E i \in latest + 1 .. Len(asked), known \in SUBSET Switches :
    /\ latest' = i
    /\ shown' = [s \in Switches |-> IF s \in known THEN asked[i][s] ELSE Unknown]
    /\ UNCHANGED asked

Lose == /\ \E s \in Switches : shown' = [shown EXCEPT ![s] = Unknown]
        /\ UNCHANGED <<asked, latest>>

Next == Ask \/ Update \/ Lose
Spec == Init /\ [][Next]_<<asked, latest, shown>>
=============================================================================
