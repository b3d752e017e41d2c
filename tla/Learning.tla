------------------------------- MODULE Learning -------------------------------
(***************************************************************************)
(* MAC learning over flooding: the mac_learner of                          *)
(* src/modules/mac_learner.py with the packets query of src/lib/query.py   *)
(* (a LimitFilter before a FwdBucket) and the flood policy of              *)
(* src/core/language.py on a spanning tree of the topology, in a network   *)
(* whose hosts and cables move while packets are on their way.             *)
(*                                                                         *)
(* Every packet is sent to the controller and evaluated there, one at a    *)
(* time (mode interpreted).  How the runtime comes to see the topology is  *)
(* in ConcreteNetwork and RuntimeUpdate; here it does so in one step.      *)
(***************************************************************************)
EXTENDS Naturals, Sequences

CONSTANTS
    Hosts, Switches,
    Talks,          \* pairs of hosts: who sends packets to whom
    Wirings,        \* the networks there may be: cables, and where each host is
    MaxPackets,     \* bound on packets sent by hosts and changes of the network, together
    None

Limit == 1          \* packets(1,['srcmac','switch'])

\* A location is <<switch, port>>, a cable the set of its two ends.
LocationsOf(w) == (UNION w.cables) \union {w.at[h] : h \in Hosts}
Locations == UNION {LocationsOf(w) : w \in Wirings}
PortsOf(s) == {l[2] : l \in {k \in Locations : k[1] = s}}

ASSUME LearningAssumption ==
    /\ MaxPackets \in Nat
    /\ Talks \subseteq {t \in Hosts \X Hosts : t[1] # t[2]}
    /\ Locations \subseteq Switches \X {l[2] : l \in Locations}
    /\ None \notin {l[2] : l \in Locations}

\* A cable joins two switches; a port has one cable, or one host, or nothing.
ASSUME WiringsAssumption == \A w \in Wirings :
    /\ \A c \in w.cables : \E k, l \in c : k[1] # l[1] /\ c = {k, l}
    /\ \A c, d \in w.cables : c # d => c \intersect d = {}
    /\ \A h \in Hosts : w.at[h] \notin UNION w.cables
    /\ \A g, h \in Hosts : g # h => w.at[g] # w.at[h]

VARIABLES
    wiring,     \* the network as it is
    topology,   \* self.network.topology at the last handle_network_change
    edges,      \* the cables among its edges: it keeps one for two switches
    mst,        \* flood's spanning tree: some of the edges
    forward,    \* mac_learner's: the port learned for a host at a switch, or None
    counted,    \* LimitFilter.seen: packets per source and switch
    packetIns,  \* packets that arrived at a location and are not handled yet
    sent,       \* packets sent by hosts: source, destination, and the packets delivered before
    received,   \* history: how often each host got each packet, up to two
    calm,       \* history: packets sent since the network was last changed and seen
    tainted,    \* history: a packet that is not calm was handled since the policies were set
    changes

vars == <<wiring, topology, edges, mst, forward, counted, packetIns, sent, received, calm, tainted, changes>>
-----------------------------------------------------------------------------
\* Topology is a networkx Graph, with one edge for two switches whatever the cables
\* between them: the graphs that a set of cables can become.
Joined(c) == {l[1] : l \in c}
Graphs(cables) ==
    {g \in SUBSET cables : \A c \in cables : \E d \in g :
        /\ Joined(d) = Joined(c)
        /\ \A e \in g \ {d} : Joined(e) # Joined(c)}

\* No two cables join the same switches: the graph is the network.
OneCable == \A w \in Wirings : \A c, d \in w.cables : Joined(c) = Joined(d) => c = d

\* No cable leads out of a set of switches.
Closed(S, cables) == \A c \in cables : \A k, l \in c : k[1] \in S => l[1] \in S

\* The switches reached from a switch over some of the cables.
Reachable ==
    [cables \in SUBSET UNION {w.cables : w \in Wirings} |->
        [s \in Switches |->
            {t \in Switches : \A S \in SUBSET Switches : s \in S /\ Closed(S, cables) => t \in S}]]
Spans(tree, cables) == Reachable[tree] = Reachable[cables]

\* Topology.minimum_spanning_tree: networkx gives any of them.
SpanningTrees(cables) ==
    {t \in SUBSET cables : Spans(t, cables) /\ \A c \in t : ~Spans(t \ {c}, cables)}

\* Mutant: flood uses all ports of the topology.
FloodAllPorts(s) == PortsOf(s)

\* Its reconcile_attributes takes the ports of the other edges out of the nodes; a
\* cable that is no edge keeps its ports.
FloodPorts(s) == {p \in PortsOf(s) : <<s, p>> \notin UNION (edges \ mst)}

\* Mutant: flood sends a packet back where it came from.
OutputFwd(s, dst, inport) ==
    IF forward[s][dst] # None THEN {forward[s][dst]} ELSE FloodPorts(s)

\* mac_learner's forward policy: if_ the host is known at the switch, fwd(port),
\* else flood, which is xfwd of every port of the tree.
Output(s, dst, inport) ==
    IF forward[s][dst] # None THEN {forward[s][dst]} ELSE FloodPorts(s) \ {inport}

Blank(value) == [s \in Switches |-> [h \in Hosts |-> value]]

\* Mutant: mac_learner does not reset its state.
SetNetworkKeep ==
    /\ topology' = wiring
    /\ edges' \in Graphs(wiring.cables)
    /\ mst' \in SpanningTrees(edges')
    /\ UNCHANGED <<forward, counted>>

\* flood.set_network and mac_learner.set_network, on a change of the topology:
\* a new tree, and set_initial_state with a new query.
SetNetwork ==
    /\ topology' = wiring
    /\ edges' \in Graphs(wiring.cables)
    /\ mst' \in SpanningTrees(edges')
    /\ forward' = Blank(None)
    /\ counted' = Blank(0)

Init ==
    /\ wiring \in Wirings /\ topology = wiring
    /\ edges \in Graphs(wiring.cables)
    /\ mst \in SpanningTrees(edges)
    /\ forward = Blank(None) /\ counted = Blank(0)
    /\ packetIns = [l \in Locations |-> <<>>]
    /\ sent = <<>> /\ received = [i \in 1 .. MaxPackets |-> [h \in Hosts |-> 0]]
    /\ calm = {} /\ tainted = FALSE /\ changes = 0

\* handle_network_change, when the topology differs from the last one.
NetworkChange ==
    /\ topology # wiring /\ SetNetwork
    /\ calm' = {} /\ tainted' = FALSE
    /\ UNCHANGED <<wiring, packetIns, sent, received, changes>>

\* Cables and hosts are moved; packets that arrived somewhere stay to be handled.
Rewire ==
    /\ changes + Len(sent) < MaxPackets /\ changes' = changes + 1
    /\ wiring' \in Wirings \ {wiring}
    /\ calm' = {}
    /\ UNCHANGED <<topology, edges, mst, forward, counted, packetIns, sent, received, tainted>>

\* A host sends a packet to another.
Send(h, d) ==
    /\ <<h, d>> \in Talks /\ changes + Len(sent) < MaxPackets
    /\ LET i == Len(sent) + 1
           before == {j \in DOMAIN sent : received[j][sent[j].dst] > 0}
       IN  /\ sent' = Append(sent, [src |-> h, dst |-> d, before |-> before])
           /\ packetIns' = [packetIns EXCEPT ![wiring.at[h]] = Append(@, i)]
           /\ calm' = IF topology = wiring THEN calm \union {i} ELSE calm
    /\ UNCHANGED <<wiring, topology, edges, mst, forward, counted, received, tainted, changes>>
-----------------------------------------------------------------------------
\* Mutant: the limit counts the packets of a source in the whole network.
PassesBySource(s, src) == \A t \in Switches : counted[t][src] < Limit

\* The query of mac_learner.update_policy: packets pass while their group has not
\* reached the limit; apply calls LimitFilter.update_policy, then learn_new_MAC.
Passes(s, src) == counted[s][src] < Limit
Learn(s, src, inport) ==
    /\ counted' = [counted EXCEPT ![s][src] = IF Passes(s, src) THEN @ + 1 ELSE @]
    /\ forward' = [forward EXCEPT ![s][src] = IF Passes(s, src) THEN inport ELSE @]

\* What leaves at some ports comes to the other ends of their cables.
FarEnds(out) == UNION {c \ out : c \in {k \in wiring.cables : k \intersect out # {}}}

\* handle_packet_in: the policy is evaluated as it is, the query applied, and the
\* output sent; it reaches other switches, in the order of each cable, and hosts.
HandlePacketIn(l) ==
    /\ packetIns[l] # <<>>
    /\ LET i == Head(packetIns[l])
           out == {<<l[1], p>> : p \in Output(l[1], sent[i].dst, l[2])}
           rest == [packetIns EXCEPT ![l] = Tail(@)]
       IN  /\ Learn(l[1], sent[i].src, l[2])
           /\ packetIns' = [k \in Locations |-> IF k \in FarEnds(out) THEN Append(rest[k], i) ELSE rest[k]]
           /\ received' = [received EXCEPT ![i] =
                 [h \in Hosts |-> IF wiring.at[h] \in out /\ @[h] < 2 THEN @[h] + 1 ELSE @[h]]]
           /\ tainted' = (tainted \/ i \notin calm)
    /\ UNCHANGED <<wiring, topology, edges, mst, sent, calm, changes>>

Next ==
    \/ NetworkChange
    \/ Rewire
    \/ \E h, d \in Hosts : Send(h, d)
    \/ \E l \in Locations : HandlePacketIn(l)

Spec == Init /\ [][Next]_vars
FairSpec == Spec /\ WF_vars(\E l \in Locations : HandlePacketIn(l))
-----------------------------------------------------------------------------
\* The policies know the network, and nothing from before was learned.
Settled == topology = wiring /\ ~tainted

\* The port at which s finds host h on the tree.
Leads(s, p, h) ==
    \/ <<s, p>> = wiring.at[h]
    \/ \E c \in mst : /\ <<s, p>> \in c
                      /\ \E l \in c \ {<<s, p>>} : wiring.at[h][1] \in Reachable[mst \ {c}][l[1]]

(* What a switch has learned of a host leads to it, along the tree, for as long as
   no packet from before the last change is handled after it: mac_learner takes the
   port of the first packet it sees and keeps it until the next change. *)
LearnedLeadsHome ==
    Settled => \A s \in Switches, h \in Hosts : forward[s][h] # None => Leads(s, forward[s][h], h)

(* "floods packets on a minimum spanning tree" (flood, language.py:1210): no host
   gets a packet twice, and none gets its own, for the tree has no loops, and floods
   mixed with learned ports do not either.  Two cables between the same switches
   make a loop that is not taken out: the Topology has one of them. *)
FloodsOnce ==
    Settled => \A i \in calm : \A h \in Hosts :
        received[i][h] <= (IF h = sent[i].src THEN 0 ELSE 1)

(* "confirm that h2 does not see packets on second ping" (the set-up notes of
   mac_learner.py): a packet to a host that the sender has had one from is seen by
   its destination alone, the reply to the first ping and all that follow. *)
SecondPingUnseen ==
    Settled => \A j, k \in calm :
        /\ sent[j].src = sent[k].dst /\ sent[j].dst = sent[k].src /\ j \in sent[k].before
        => \A h \in Hosts \ {sent[k].dst} : received[k][h] = 0

(* A packet sent in a network that the policies know comes to its destination,
   flooded or by learned ports, unless the network changes on its way or the
   switches have learned from an older packet. *)
EventuallyDelivered ==
    \A i \in 1 .. MaxPackets :
        i \in calm ~> (i \notin calm \/ tainted \/ received[i][sent[i].dst] > 0)
=============================================================================
