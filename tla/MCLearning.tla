------------------------------ MODULE MCLearning ------------------------------
(* Small networks for Learning: three switches in a ring, with two places for one
   of the hosts; and two switches with two cables between them. *)
EXTENDS Learning

CONSTANTS h1, h2, h3

\* Port 1 is for a host, 2 and 3 for the next and the last switch; 4 is spare.
Next3(s) == CASE s = "s1" -> "s2" [] s = "s2" -> "s3" [] OTHER -> "s1"
Cable(s) == {<<s, 2>>, <<Next3(s), 3>>}
Home == [h \in Hosts |-> CASE h = h1 -> <<"s1", 1>> [] h = h2 -> <<"s2", 1>> [] OTHER -> <<"s3", 1>>]
Ring == [cables |-> {Cable(s) : s \in Switches}, at |-> Home]
Moved == [Ring EXCEPT !.at[h1] = <<"s2", 4>>]
MCWirings == {Ring, Moved}
Twins == [cables |-> {Cable("s1"), {<<"s1", 3>>, <<"s2", 2>>}}, at |-> Home]
MCTwins == {Twins}
MCTwinTalks == {<<h1, h2>>}
MCTalks == {<<h1, h3>>, <<h3, h1>>}
=============================================================================
