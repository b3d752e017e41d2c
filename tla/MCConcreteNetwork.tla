------------------------- MODULE MCConcreteNetwork -------------------------
(* Small networks for ConcreteNetwork.                                     *)
EXTENDS ConcreteNetwork

CONSTANTS s1, s2

\* One cable between two one-port switches.
OneCable == {{<<s1, 1>>, <<s2, 1>>}}

\* Two cables between the same two switches: an nx.Graph holds one edge.
TwinCables == {{<<s1, p>>, <<s2, p>>} : p \in {1, 2}}

End1 == {<<s1, 1>>}
End2 == {<<s2, 1>>}
BothEnds == End1 \cup End2
=============================================================================
