---------------------------- MODULE LearningProofs ----------------------------
(***************************************************************************)
(* Proofs about Learning, for any hosts, switches and packets, and any     *)
(* networks without two cables between the same switches: learned ports    *)
(* lead home, no host gets a packet twice, and a packet to a host that the *)
(* sender has had one from goes there alone.                               *)
(*                                                                         *)
(* First lemmas about reachability and spanning trees, on which the cables *)
(* at a switch lead to sets of switches that have nothing in common.  Then *)
(* the invariant, about the packets on their way and what is learned.      *)
(***************************************************************************)
EXTENDS Learning, TLAPS

Cables == UNION {w.cables : w \in Wirings}

LEMMA CableEnds ==
    ASSUME NEW c \in Cables
    PROVE  /\ c \subseteq Locations
           /\ \A k \in c : k[1] \in Switches /\ k = <<k[1], k[2]>>
  BY LearningAssumption DEF Cables, Locations, LocationsOf
-----------------------------------------------------------------------------
(* Reachability *)

LEMMA ReachType ==
    ASSUME NEW G \in SUBSET Cables, NEW s \in Switches
    PROVE  /\ Reachable[G][s] =
                 {t \in Switches : \A S \in SUBSET Switches : s \in S /\ Closed(S, G) => t \in S}
           /\ Reachable[G][s] \subseteq Switches
           /\ s \in Reachable[G][s]
  <1>1. Reachable[G][s] =
            {t \in Switches : \A S \in SUBSET Switches : s \in S /\ Closed(S, G) => t \in S}
    BY DEF Reachable, Cables
  <1> QED
    BY <1>1

\* No cable leads out of what is reached.
LEMMA ReachClosed ==
    ASSUME NEW G \in SUBSET Cables, NEW s \in Switches
    PROVE  Closed(Reachable[G][s], G)
  <1> SUFFICES ASSUME NEW c \in G, NEW k \in c, NEW l \in c, k[1] \in Reachable[G][s],
                      NEW S \in SUBSET Switches, s \in S, Closed(S, G)
               PROVE  l[1] \in S
    BY ReachType, CableEnds DEF Closed
  <1>1. k[1] \in S
    BY ReachType
  <1> QED
    BY <1>1 DEF Closed

\* It is the least such set.
LEMMA ReachLeast ==
    ASSUME NEW G \in SUBSET Cables, NEW s \in Switches, NEW S, s \in S,
           Closed(S \intersect Switches, G)
    PROVE  Reachable[G][s] \subseteq S
  BY ReachType

LEMMA ReachTransitive ==
    ASSUME NEW G \in SUBSET Cables, NEW s \in Switches, NEW r \in Reachable[G][s]
    PROVE  Reachable[G][r] \subseteq Reachable[G][s]
  <1>1. r \in Switches /\ Reachable[G][s] \intersect Switches = Reachable[G][s]
    BY ReachType
  <1> QED
    BY <1>1, ReachClosed, ReachLeast

LEMMA ReachSymmetric ==
    ASSUME NEW G \in SUBSET Cables, NEW s \in Switches, NEW r \in Reachable[G][s]
    PROVE  s \in Reachable[G][r]
  <1>1. r \in Switches
    BY ReachType
  <1>2. SUFFICES ASSUME s \notin Reachable[G][r] PROVE FALSE
    OBVIOUS
  <1> DEFINE S == Switches \ Reachable[G][r]
  <1>3. Closed(S, G)
    <2>1. Closed(Reachable[G][r], G)
      BY <1>1, ReachClosed
    <2> QED
      BY <2>1, CableEnds DEF Closed
  <1>4. s \in S /\ S \intersect Switches = S
    BY <1>2
  <1>5. Reachable[G][s] \subseteq S
    <2> HIDE DEF S
    <2> QED
      BY <1>3, <1>4, ReachLeast
  <1>6. r \in Reachable[G][r]
    BY <1>1, ReachType
  <1> QED
    BY <1>5, <1>6

LEMMA ReachMonotone ==
    ASSUME NEW G \in SUBSET Cables, NEW H \in SUBSET G, NEW s \in Switches
    PROVE  Reachable[H][s] \subseteq Reachable[G][s]
  <1>1. H \in SUBSET Cables
    OBVIOUS
  <1>2. Closed(Reachable[G][s], H) /\ s \in Reachable[G][s]
    BY ReachClosed, ReachType DEF Closed
  <1>3. Reachable[G][s] \intersect Switches = Reachable[G][s]
    BY ReachType
  <1> QED
    BY <1>1, <1>2, <1>3, ReachLeast
-----------------------------------------------------------------------------
(* Spanning trees *)

\* The switches that the tree connects with the switch of l, but by the cable at l.
Side(t, l) == Reachable[{c \in t : l \notin c}][l[1]]

\* On the tree t of w, the way from the switch of l to host h starts at l.
Toward(w, t, l, h) ==
    \/ l = w.at[h]
    \/ \E c \in t : l \in c /\ \E k \in c \ {l} : w.at[h][1] \in Side(t, k)
Tree(w, t) == w \in Wirings /\ t \in SpanningTrees(w.cables)

\* A cable of a tree has two ends, and shares none with another.
LEMMA TreeCables ==
    ASSUME NEW w, NEW t, Tree(w, t), NEW c \in t
    PROVE  /\ t \in SUBSET Cables /\ t \subseteq w.cables
           /\ \A l : {d \in t : l \notin d} \in SUBSET Cables
           /\ c \subseteq Locations
           /\ \A k \in c : k[1] \in Switches /\ k = <<k[1], k[2]>>
           /\ \A x \in c : {d \in t : x \notin d} = t \ {c}
           /\ \A x, y \in c : x # y => c = {x, y}
  <1>1. t \in SUBSET w.cables /\ w \in Wirings
    BY DEF Tree, SpanningTrees
  <1>2. t \in SUBSET Cables
    BY <1>1 DEF Cables
  <1>3. \A d \in t : c # d => c \intersect d = {}
    BY <1>1, WiringsAssumption
  <1>4. \E k, l \in c : k # l /\ c = {k, l}
    BY <1>1, WiringsAssumption
  <1> QED
    BY <1>1, <1>2, <1>3, <1>4, CableEnds

\* The ends of a cable of a tree are not connected without it.
LEMMA TreeCuts ==
    ASSUME NEW w, NEW t, Tree(w, t), NEW c \in t, NEW x \in c, NEW y \in c, x # y
    PROVE  y[1] \notin Side(t, x) /\ x[1] \notin Side(t, x) \intersect Side(t, y)
  <1> DEFINE G == t \ {c}
  <1>1. /\ t \in SUBSET Cables /\ G \in SUBSET t /\ c = {x, y}
        /\ x[1] \in Switches /\ y[1] \in Switches
        /\ Side(t, x) = Reachable[G][x[1]] /\ Side(t, y) = Reachable[G][y[1]]
    <2>1. t \in SUBSET Cables /\ c = {x, y} /\ x[1] \in Switches /\ y[1] \in Switches
      BY TreeCables
    <2>2. {d \in t : x \notin d} = G /\ {d \in t : y \notin d} = G
      BY TreeCables
    <2> QED
      BY <2>1, <2>2 DEF Side
  <1>2. ASSUME y[1] \in Reachable[G][x[1]] PROVE FALSE
    <2>1. x[1] \in Reachable[G][y[1]]
      BY <1>1, <1>2, ReachSymmetric
    <2>2. ASSUME NEW s \in Switches PROVE Reachable[G][s] = Reachable[t][s]
      <3>1. Closed(Reachable[G][s], G)
        BY <1>1, ReachClosed
      <3>2. x[1] \in Reachable[G][s] => y[1] \in Reachable[G][s]
        BY <1>1, <1>2, ReachTransitive
      <3>3. y[1] \in Reachable[G][s] => x[1] \in Reachable[G][s]
        BY <1>1, <2>1, ReachTransitive
      <3>4. Closed(Reachable[G][s], t)
        BY <1>1, <3>1, <3>2, <3>3 DEF Closed
      <3>5. s \in Reachable[G][s] /\ Reachable[G][s] \intersect Switches = Reachable[G][s]
        BY <1>1, ReachType
      <3>6. Reachable[t][s] \subseteq Reachable[G][s]
        <4>1. Closed(Reachable[G][s] \intersect Switches, t)
          BY <3>4, <3>5
        <4> QED
          BY <1>1, <3>5, <4>1, ReachLeast
      <3> QED
        BY <1>1, <3>6, ReachMonotone
    <2>3. Reachable[G] = [s \in Switches |-> Reachable[G][s]]
      BY <1>1 DEF Reachable, Cables
    <2>4. Reachable[t] = [s \in Switches |-> Reachable[t][s]]
      BY <1>1 DEF Reachable, Cables
    <2>5. Reachable[G] = Reachable[t]
      BY <2>2, <2>3, <2>4
    <2>6. Reachable[t] = Reachable[w.cables] /\ Reachable[G] # Reachable[w.cables]
      BY DEF Tree, SpanningTrees, Spans
    <2> QED
      BY <2>5, <2>6
  <1>3. ASSUME x[1] \in Reachable[G][y[1]] PROVE FALSE
    BY <1>1, <1>2, <1>3, ReachSymmetric
  <1> QED
    BY <1>1, <1>2, <1>3

LEMMA SideType ==
    ASSUME NEW w, NEW t, Tree(w, t), NEW l, l[1] \in Switches
    PROVE  l[1] \in Side(t, l) /\ Side(t, l) \subseteq Switches
  <1>1. {c \in t : l \notin c} \in SUBSET Cables
    BY DEF Tree, SpanningTrees, Cables
  <1> QED
    BY <1>1, ReachType DEF Side

\* Nothing is on both sides of a cable.
LEMMA SidesApart ==
    ASSUME NEW w, NEW t, Tree(w, t), NEW c \in t, NEW x \in c, NEW y \in c, x # y
    PROVE  x[1] # y[1] /\ Side(t, x) \intersect Side(t, y) = {}
  <1> DEFINE G == t \ {c}
  <1>1. /\ G \in SUBSET Cables
        /\ x[1] \in Switches /\ y[1] \in Switches
        /\ Side(t, x) = Reachable[G][x[1]] /\ Side(t, y) = Reachable[G][y[1]]
    BY TreeCables DEF Side
  <1>2. y[1] \notin Side(t, x)
    BY TreeCuts
  <1>3. ASSUME NEW s \in Side(t, x), s \in Side(t, y) PROVE FALSE
    <2>1. y[1] \in Reachable[G][s]
      BY <1>1, <1>3, ReachSymmetric
    <2>2. y[1] \in Reachable[G][x[1]]
      BY <1>1, <1>3, <2>1, ReachTransitive
    <2> QED
      BY <1>1, <1>2, <2>2
  <1>4. x[1] \in Side(t, x)
    BY <1>1, SideType
  <1> QED
    BY <1>2, <1>3, <1>4

\* What is behind a cable is also on the side of any other place at this end of it.
LEMMA SideWithin ==
    ASSUME NEW w, NEW t, Tree(w, t), NEW c \in t, NEW x \in c, NEW y \in c, x # y,
           NEW l, l[1] = x[1], l # x
    PROVE  Side(t, y) \subseteq Side(t, l) \ {x[1]}
  <1> DEFINE G == t \ {c}
             H == {d \in t : l \notin d}
             R == Reachable[H][x[1]]
             B == Reachable[G][y[1]]
  <1>1. /\ G \in SUBSET Cables /\ H \in SUBSET Cables /\ c = {x, y}
        /\ x[1] \in Switches /\ y[1] \in Switches
        /\ Side(t, y) = B /\ Side(t, l) = R
    <2>1. t \in SUBSET Cables /\ c = {x, y} /\ x[1] \in Switches /\ y[1] \in Switches
      BY TreeCables
    <2>2. {d \in t : y \notin d} = G /\ H \in SUBSET Cables
      BY TreeCables
    <2> QED
      BY <2>1, <2>2 DEF Side
  <1>2. x[1] \notin B /\ x[1] # y[1]
    BY <1>1, TreeCuts, SidesApart
  <1>3. c \in H
    BY <1>1, <1>2
  <1>4. Closed(R, H) /\ x[1] \in R /\ Closed(B, G) /\ y[1] \in B /\ B \subseteq Switches
    BY <1>1, ReachClosed, ReachType
  <1>5. y[1] \in R
    BY <1>1, <1>3, <1>4 DEF Closed
  <1>6. Closed(B \intersect R, G)
    <2> SUFFICES ASSUME NEW d \in G, NEW k \in d, NEW m \in d, k[1] \in B \intersect R
                 PROVE  m[1] \in B \intersect R
      BY DEF Closed
    <2> HIDE DEF B, R
    <2>1. m[1] \in B
      BY <1>4 DEF Closed
    <2>2. m[1] \in R
      <3>1. CASE d \in H
        BY <3>1, <1>4 DEF Closed
      <3>2. CASE d \notin H
        <4>1. l \in d
          BY <3>2
        <4>2. d \in t
          OBVIOUS
        <4>3. l # m /\ l # k
          BY <2>1, <1>2
        <4>4. k = m
          BY <4>1, <4>2, <4>3, TreeCables
        <4> QED
          BY <4>4
      <3> QED
        BY <3>1, <3>2
    <2> QED
      BY <2>1, <2>2
  <1>7. (B \intersect R) \intersect Switches = B \intersect R
    BY <1>4
  <1>8. B \subseteq B \intersect R
    <2> DEFINE S == B \intersect R
    <2>1. y[1] \in S /\ Closed(S \intersect Switches, G)
      BY <1>4, <1>5, <1>6, <1>7
    <2> HIDE DEF S
    <2>2. Reachable[G][y[1]] \subseteq S
      BY <1>1, <2>1, ReachLeast
    <2> QED
      BY <2>2 DEF S
  <1> QED
    BY <1>1, <1>2, <1>8

LEMMA SiblingsApart ==
    ASSUME NEW w, NEW t, Tree(w, t),
           NEW c \in t, NEW x \in c, NEW y \in c, x # y,
           NEW d \in t, NEW u \in d, NEW v \in d, u # v,
           u # x, u[1] = x[1]
    PROVE  Side(t, y) \intersect Side(t, v) = {}
  <1>1. Side(t, y) \subseteq Side(t, u)
    BY SideWithin
  <1>2. Side(t, u) \intersect Side(t, v) = {}
    BY SidesApart
  <1> QED
    BY <1>1, <1>2
-----------------------------------------------------------------------------
(* The way to a host *)

LEMMA HostLocation ==
    ASSUME NEW w \in Wirings, NEW h \in Hosts
    PROVE  /\ w.at[h] \in Locations /\ w.at[h][1] \in Switches
           /\ w.at[h] = <<w.at[h][1], w.at[h][2]>>
           /\ w.at[h] \notin UNION w.cables
  <1>1. w.at[h] \in LocationsOf(w)
    BY DEF LocationsOf
  <1>2. w.at[h] \in Locations
    BY <1>1 DEF Locations
  <1>3. w.at[h] \in Switches \X {l[2] : l \in Locations}
    BY <1>2, LearningAssumption
  <1>4. w.at[h] \notin UNION w.cables
    BY WiringsAssumption
  <1>5. w.at[h][1] \in Switches /\ w.at[h] = <<w.at[h][1], w.at[h][2]>>
    BY <1>3
  <1> QED
    BY <1>2, <1>4, <1>5

\* There is one.
LEMMA OneWay ==
    ASSUME NEW w, NEW t, Tree(w, t), NEW h \in Hosts,
           NEW x, NEW l, x[1] = l[1], Toward(w, t, x, h), Toward(w, t, l, h)
    PROVE  x = l
  <1> DEFINE home == w.at[h][1]
  <1>1. w \in Wirings /\ t \subseteq w.cables
    BY DEF Tree, SpanningTrees
  <1>2. SUFFICES ASSUME x # l PROVE FALSE
    OBVIOUS
  <1>3. ASSUME NEW b \in t, NEW a \in b, NEW k \in b, a # k, home \in Side(t, k), a[1] = home
        PROVE  FALSE
    <2>1. a[1] \in Side(t, a)
      BY TreeCables, SideType
    <2> QED
      BY <1>3, <2>1, SidesApart
  <1>4. CASE x = w.at[h]
    BY <1>2, <1>3, <1>4 DEF Toward
  <1>5. CASE l = w.at[h]
    BY <1>2, <1>3, <1>5 DEF Toward
  <1>6. CASE x # w.at[h] /\ l # w.at[h]
    <2>1. PICK c \in t : x \in c /\ \E k \in c \ {x} : home \in Side(t, k)
      BY <1>6 DEF Toward
    <2>2. PICK k \in c : k # x /\ home \in Side(t, k)
      BY <2>1
    <2>3. PICK d \in t : l \in d /\ \E v \in d \ {l} : home \in Side(t, v)
      BY <1>6 DEF Toward
    <2>4. PICK v \in d : v # l /\ home \in Side(t, v)
      BY <2>3
    <2>5. Side(t, k) \intersect Side(t, v) = {}
      BY <1>2, <2>1, <2>2, <2>3, <2>4, SiblingsApart
    <2> QED
      BY <2>2, <2>4, <2>5
  <1> QED
    BY <1>4, <1>5, <1>6

\* From one end of a cable only it leads through the cable.
LEMMA NotBothWays ==
    ASSUME NEW w, NEW t, Tree(w, t), NEW h \in Hosts,
           NEW c \in t, NEW x \in c, NEW y \in c, x # y,
           Toward(w, t, x, h)
    PROVE  ~Toward(w, t, y, h) /\ w.at[h][1] \in Side(t, y)
  <1> DEFINE home == w.at[h][1]
  <1>1. w \in Wirings /\ t \subseteq w.cables
    BY DEF Tree, SpanningTrees
  <1>2. x # w.at[h] /\ y # w.at[h]
    <2>1. x \in UNION w.cables /\ y \in UNION w.cables
      BY <1>1
    <2>2. w.at[h] \notin UNION w.cables
      BY <1>1, HostLocation
    <2> QED
      BY <2>1, <2>2
  <1>3. \A d \in t : x \in d \/ y \in d => d = {x, y}
    BY <1>1, TreeCables, WiringsAssumption
  <1>4. home \in Side(t, y)
    BY <1>2, <1>3 DEF Toward
  <1>5. home \notin Side(t, x)
    BY <1>4, SidesApart
  <1> QED
    BY <1>2, <1>3, <1>4, <1>5 DEF Toward

\* Across the cable at another port, the way home leads back through it.
LEMMA WayBack ==
    ASSUME NEW w, NEW t, Tree(w, t), NEW h \in Hosts,
           NEW l, Toward(w, t, l, h),
           NEW c \in t, NEW x \in c, NEW y \in c, x # y, x[1] = l[1], x # l
    PROVE  Toward(w, t, y, h)
  <1> DEFINE home == w.at[h][1]
  <1>1. x[1] \in Side(t, x)
    BY TreeCables, SideType
  <1>2. home \in Side(t, x)
    <2>1. CASE l = w.at[h]
      BY <1>1, <2>1
    <2>2. CASE l # w.at[h]
      <3>1. PICK d \in t : l \in d /\ \E k \in d \ {l} : home \in Side(t, k)
        BY <2>2 DEF Toward
      <3>2. PICK k \in d : k # l /\ home \in Side(t, k)
        BY <3>1
      <3>3. Side(t, k) \subseteq Side(t, x)
        BY <3>1, <3>2, SideWithin
      <3> QED
        BY <3>2, <3>3
    <2> QED
      BY <2>1, <2>2
  <1> QED
    BY <1>2 DEF Toward
-----------------------------------------------------------------------------
Message == [src : Hosts, dst : Hosts, before : SUBSET Nat]
PortNos == {l[2] : l \in Locations}

TypeOK ==
    /\ wiring \in Wirings /\ topology \in Wirings
    /\ edges = topology.cables /\ mst \in SpanningTrees(edges)
    /\ forward \in [Switches -> [Hosts -> PortNos \union {None}]]
    /\ counted \in [Switches -> [Hosts -> Nat]]
    /\ sent \in Seq(Message)
    /\ \A i \in DOMAIN sent : <<sent[i].src, sent[i].dst>> \in Talks /\ sent[i].before \subseteq DOMAIN sent
    /\ packetIns \in [Locations -> Seq(DOMAIN sent)]
    /\ received \in [1 .. MaxPackets -> [Hosts -> 0 .. 2]]
    /\ \A i \in DOMAIN received \ DOMAIN sent : \A h \in Hosts : received[i][h] = 0
    /\ calm \subseteq DOMAIN sent
    /\ tainted \in BOOLEAN
    /\ changes \in Nat /\ changes + Len(sent) <= MaxPackets

\* A calm packet i waits to be handled at l.
Waits(l, i) == i \in calm /\ \E n \in DOMAIN packetIns[l] : packetIns[l][n] = i

\* Calm packets are of the network that the policies know.
CalmKnown == calm # {} => topology = wiring

\* The query lets one packet of a source pass at a switch, the one it is learned from.
LearnedOnce == \A s \in Switches, h \in Hosts : counted[s][h] < Limit <=> forward[s][h] = None

\* What is learned leads home, and so does the way a packet came.
Homeward ==
    /\ \A s \in Switches, h \in Hosts :
          forward[s][h] # None => Toward(topology, mst, <<s, forward[s][h]>>, h)
    /\ \A l \in Locations, i \in calm : Waits(l, i) => Toward(topology, mst, l, sent[i].src)

\* The switch before the one that has learned h, or is about to, has learned it, too,
\* and not from there.
WayLearned == \A c \in mst : \A x, y \in c : \A h \in Hosts :
    /\ x # y
    /\ forward[x[1]][h] = x[2] \/ \E i \in calm : Waits(x, i) /\ sent[i].src = h
    => forward[y[1]][h] \notin {None, y[2]}

\* No packet goes back by the cable it came by: its destination is not learned there,
\* nor will be from a packet ahead of it.
Onward == \A l \in Locations : \A n \in DOMAIN packetIns[l] :
    packetIns[l][n] \in calm =>
        LET h == sent[packetIns[l][n]].dst
        IN  /\ forward[l[1]][h] # l[2]
            /\ \A m \in 1 .. n - 1 : packetIns[l][m] \in calm => sent[packetIns[l][m]].src # h

\* A packet waits at a place once, and the sides it has yet to see are apart.
Single == \A l \in Locations : \A m, n \in DOMAIN packetIns[l] :
    packetIns[l][m] \in calm /\ packetIns[l][m] = packetIns[l][n] => m = n
Ahead == \A i \in calm : \A l \in Locations : Waits(l, i) =>
    /\ \A k \in Locations \ {l} : Waits(k, i) => Side(mst, l) \intersect Side(mst, k) = {}
    /\ \A h \in Hosts : topology.at[h][1] \in Side(mst, l) => received[i][h] = 0
AtMostOnce == \A i \in calm : \A h \in Hosts : received[i][h] <= (IF h = sent[i].src THEN 0 ELSE 1)

\* The switch of a host that got a packet has learned its source.
SourceLearned == \A i \in calm : \A h \in Hosts :
    received[i][h] > 0 => forward[topology.at[h][1]][sent[i].src] # None

\* A packet to a host that its sender has had one from.
Answers(k) == k \in calm /\ \E j \in calm :
    sent[j].src = sent[k].dst /\ sent[j].dst = sent[k].src /\ j \in sent[k].before
Unicast == \A k \in calm : Answers(k) =>
    /\ \A l \in Locations : Waits(l, k) => forward[l[1]][sent[k].dst] # None
    /\ \A h \in Hosts \ {sent[k].dst} : received[k][h] = 0

Trusted == Homeward /\ WayLearned /\ Onward /\ Single /\ Ahead /\ AtMostOnce /\ SourceLearned /\ Unicast
LearningInv == TypeOK /\ CalmKnown /\ LearnedOnce /\ (~tainted => Trusted)
-----------------------------------------------------------------------------
(* Types *)

LEMMA TreeNow ==
    ASSUME TypeOK PROVE Tree(topology, mst)
  BY DEF TypeOK, Tree

LEMMA PlaceType ==
    ASSUME NEW l \in Locations
    PROVE  l[1] \in Switches /\ l[2] \in PortNos /\ l[2] # None /\ l = <<l[1], l[2]>>
  <1>1. l \in Switches \X PortNos
    BY LearningAssumption DEF PortNos
  <1> QED
    BY <1>1, LearningAssumption DEF PortNos

LEMMA AppendType ==
    ASSUME NEW S, NEW q \in Seq(S), NEW e \in S
    PROVE  Append(q, e) \in Seq(S)
  OBVIOUS

LEMMA QueueEnd ==
    ASSUME NEW S, NEW q \in Seq(S), NEW e
    PROVE  /\ Len(q) \in Nat /\ DOMAIN q = 1 .. Len(q)
           /\ DOMAIN Append(q, e) = 1 .. Len(q) + 1
           /\ Append(q, e)[Len(q) + 1] = e
           /\ \A m \in DOMAIN q : Append(q, e)[m] = q[m] /\ q[m] \in S
           /\ \A m \in DOMAIN Append(q, e) :
                 /\ m \in DOMAIN q \/ m = Len(q) + 1
                 /\ \A k \in 1 .. m - 1 : k \in DOMAIN q
  OBVIOUS

LEMMA SentType ==
    ASSUME TypeOK, NEW i \in DOMAIN sent
    PROVE  /\ sent \in Seq(Message) /\ sent[i] \in Message
           /\ sent[i].src \in Hosts /\ sent[i].dst \in Hosts /\ sent[i].src # sent[i].dst
           /\ i \in DOMAIN received /\ received[i] \in [Hosts -> 0 .. 2]
  <1>1. sent \in Seq(Message) /\ sent[i] \in Message
    BY DEF TypeOK
  <1>2. <<sent[i].src, sent[i].dst>> \in {t \in Hosts \X Hosts : t[1] # t[2]}
    BY LearningAssumption DEF TypeOK
  <1>3. i \in 1 .. MaxPackets
    BY <1>1, LearningAssumption DEF TypeOK
  <1> QED
    BY <1>1, <1>2, <1>3 DEF TypeOK

\* The graph of a network without two cables between the same switches has all of them.
LEMMA OneGraph ==
    ASSUME OneCable, NEW w \in Wirings, NEW g \in Graphs(w.cables)
    PROVE  g = w.cables
  <1>1. g \subseteq w.cables
    BY DEF Graphs
  <1>2. ASSUME NEW c \in w.cables PROVE c \in g
    <2>1. PICK d \in g : Joined(d) = Joined(c)
      BY DEF Graphs
    <2>2. d = c
      BY <1>1, <2>1 DEF OneCable
    <2> QED
      BY <2>1, <2>2
  <1> QED
    BY <1>1, <1>2

LEMMA TypeInit == ASSUME OneCable, Init PROVE TypeOK
  <1>1. <<>> \in Seq(Message) /\ DOMAIN (<<>>) = {} /\ Len(<<>>) = 0
    OBVIOUS
  <1>2. MaxPackets \in Nat
    BY LearningAssumption
  <1>3. /\ mst \in SpanningTrees(edges) /\ edges = topology.cables
        /\ wiring \in Wirings /\ topology \in Wirings
    BY OneGraph DEF Init
  <1>4. forward \in [Switches -> [Hosts -> PortNos \union {None}]] /\ counted \in [Switches -> [Hosts -> Nat]]
    BY DEF Init, Blank
  <1>5. packetIns \in [Locations -> Seq(DOMAIN sent)]
    <2>1. <<>> \in Seq(DOMAIN sent)
      OBVIOUS
    <2> QED
      BY <2>1 DEF Init
  <1>6. /\ sent = <<>> /\ received = [i \in 1 .. MaxPackets |-> [h \in Hosts |-> 0]]
        /\ calm = {} /\ tainted = FALSE /\ changes = 0
    BY DEF Init
  <1>7. received \in [1 .. MaxPackets -> [Hosts -> 0 .. 2]]
    BY <1>6
  <1>8. \A i \in DOMAIN received \ DOMAIN sent : \A h \in Hosts : received[i][h] = 0
    BY <1>6
  <1>9. sent \in Seq(Message) /\ DOMAIN sent = {}
    BY <1>1, <1>6
  <1>10. calm \subseteq DOMAIN sent /\ tainted \in BOOLEAN /\ changes \in Nat /\ changes + Len(sent) <= MaxPackets
    <2>1. Len(sent) = 0
      BY <1>1, <1>6
    <2>2. changes + Len(sent) <= MaxPackets
      BY <2>1, <1>2, <1>6
    <2> QED
      BY <2>2, <1>6
  <1> QED
    BY <1>3, <1>4, <1>5, <1>7, <1>8, <1>9, <1>10 DEF TypeOK

LEMMA SendType ==
    ASSUME TypeOK, NEW h \in Hosts, NEW d \in Hosts, Send(h, d)
    PROVE  /\ TypeOK'
           /\ Len(sent') = Len(sent) + 1 /\ DOMAIN sent = 1 .. Len(sent)
           /\ Len(sent') \in DOMAIN sent' \ DOMAIN sent
           /\ \A i \in DOMAIN sent : i \in DOMAIN sent' /\ sent'[i] = sent[i]
           /\ sent'[Len(sent')] =
                 [src |-> h, dst |-> d, before |-> {j \in DOMAIN sent : received[j][sent[j].dst] > 0}]
           /\ wiring.at[h] \in Locations
           /\ \A l \in Locations : packetIns'[l] =
                 IF l = wiring.at[h] THEN Append(packetIns[l], Len(sent')) ELSE packetIns[l]
  <1> DEFINE n == Len(sent) + 1
             b == {j \in DOMAIN sent : received[j][sent[j].dst] > 0}
             m == [src |-> h, dst |-> d, before |-> b]
  <1>1. sent \in Seq(Message) /\ Len(sent) \in Nat /\ DOMAIN sent = 1 .. Len(sent) /\ MaxPackets \in Nat
    BY LearningAssumption DEF TypeOK
  <1>2. m \in Message
    BY <1>1 DEF Message
  <1>3. sent' = Append(sent, m) /\ <<h, d>> \in Talks
    BY DEF Send
  <1> HIDE DEF b, m
  <1>4. sent' \in Seq(Message) /\ Len(sent') = n /\ DOMAIN sent' = 1 .. n
    BY <1>1, <1>2, <1>3
  <1>5. sent'[n] = m /\ \A i \in DOMAIN sent : sent'[i] = sent[i]
    BY <1>1, <1>2, <1>3
  <1>6. n \in DOMAIN sent' \ DOMAIN sent /\ DOMAIN sent \subseteq DOMAIN sent'
    BY <1>1, <1>4
  <1>7. \A i \in DOMAIN sent' : <<sent'[i].src, sent'[i].dst>> \in Talks /\ sent'[i].before \subseteq DOMAIN sent'
    <2>1. \A i \in DOMAIN sent' : i = n \/ i \in DOMAIN sent
      BY <1>1, <1>4
    <2>2. <<m.src, m.dst>> \in Talks /\ m.before \subseteq DOMAIN sent'
      BY <1>3, <1>6 DEF m, b
    <2> QED
      BY <2>1, <2>2, <1>5, <1>6 DEF TypeOK
  <1>8. wiring.at[h] \in Locations
    BY HostLocation DEF TypeOK
  <1>9. packetIns' = [packetIns EXCEPT ![wiring.at[h]] = Append(@, n)]
    BY DEF Send
  <1>10. packetIns \in [Locations -> Seq(DOMAIN sent)]
    BY DEF TypeOK
  <1>11. \A l \in Locations : packetIns'[l] =
             IF l = wiring.at[h] THEN Append(packetIns[l], n) ELSE packetIns[l]
    BY <1>9, <1>10
  <1>12. packetIns' \in [Locations -> Seq(DOMAIN sent')]
    <2>1. \A l \in Locations : packetIns[l] \in Seq(DOMAIN sent')
      BY <1>6, <1>10
    <2>2. \A l \in Locations : packetIns'[l] \in Seq(DOMAIN sent')
      BY <2>1, <1>6, <1>11, AppendType
    <2>3. packetIns' = [l \in Locations |-> packetIns'[l]]
      BY <1>9, <1>10
    <2> QED
      BY <2>2, <2>3
  <1>13. calm' \subseteq DOMAIN sent'
    <2>1. calm' = calm \/ calm' = calm \union {n}
      BY DEF Send
    <2> QED
      BY <2>1, <1>6 DEF TypeOK
  <1>14. changes' \in Nat /\ changes' + Len(sent') <= MaxPackets
    BY <1>1, <1>4 DEF TypeOK, Send
  <1>15. /\ UNCHANGED <<wiring, topology, edges, mst, forward, counted, received, tainted>>
    BY DEF Send
  <1>16. \A i \in DOMAIN received' \ DOMAIN sent' : \A g \in Hosts : received'[i][g] = 0
    BY <1>6, <1>15 DEF TypeOK
  <1>17. TypeOK'
    BY <1>4, <1>7, <1>12, <1>13, <1>14, <1>15, <1>16 DEF TypeOK
  <1> QED
    BY <1>1, <1>4, <1>5, <1>6, <1>8, <1>11, <1>17 DEF m, b

LEMMA HandleType ==
    ASSUME TypeOK, NEW l \in Locations, HandlePacketIn(l)
    PROVE  TypeOK'
  <1> DEFINE i == Head(packetIns[l])
             out == {<<l[1], p>> : p \in Output(l[1], sent[i].dst, l[2])}
             rest == [packetIns EXCEPT ![l] = Tail(@)]
  <1>1. /\ packetIns \in [Locations -> Seq(DOMAIN sent)]
        /\ packetIns[l] # <<>> /\ packetIns[l] \in Seq(DOMAIN sent)
    BY DEF TypeOK, HandlePacketIn
  <1>2. i \in DOMAIN sent
    BY <1>1
  <1>3. l[1] \in Switches /\ l[2] \in PortNos
    BY PlaceType
  <1>4. sent[i].src \in Hosts /\ sent \in Seq(Message)
    BY <1>2, SentType
  <1>5. Learn(l[1], sent[i].src, l[2])
    BY DEF HandlePacketIn
  <1>6. /\ UNCHANGED <<wiring, topology, edges, mst, sent, calm, changes>>
        /\ tainted' = (tainted \/ i \notin calm)
    BY DEF HandlePacketIn
  <1>7. packetIns' = [k \in Locations |-> IF k \in FarEnds(out) THEN Append(rest[k], i) ELSE rest[k]]
    BY DEF HandlePacketIn
  <1>8. received' = [received EXCEPT ![i] =
             [h \in Hosts |-> IF wiring.at[h] \in out /\ @[h] < 2 THEN @[h] + 1 ELSE @[h]]]
    BY DEF HandlePacketIn
  <1> HIDE DEF i, out
  <1>9. packetIns' \in [Locations -> Seq(DOMAIN sent)]
    <2>1. rest \in [Locations -> Seq(DOMAIN sent)]
      BY <1>1
    <2>2. \A k \in Locations : Append(rest[k], i) \in Seq(DOMAIN sent)
      BY <2>1, <1>2, AppendType
    <2> HIDE DEF rest
    <2> QED
      BY <2>1, <2>2, <1>7
  <1>10. i \in DOMAIN received /\ received[i] \in [Hosts -> 0 .. 2]
    BY <1>2, SentType
  <1>11. received' \in [1 .. MaxPackets -> [Hosts -> 0 .. 2]]
    <2> DEFINE r == [h \in Hosts |->
                      IF wiring.at[h] \in out /\ received[i][h] < 2 THEN received[i][h] + 1 ELSE received[i][h]]
    <2>1. r \in [Hosts -> 0 .. 2]
      BY <1>10
    <2>2. received' = [received EXCEPT ![i] = r]
      BY <1>8, <1>10
    <2> HIDE DEF r
    <2> QED
      BY <2>1, <2>2 DEF TypeOK
  <1>12. \A j \in DOMAIN received \ {i} : received'[j] = received[j]
    BY <1>8
  <1>13. \A j \in DOMAIN received' \ DOMAIN sent' : \A g \in Hosts : received'[j][g] = 0
    BY <1>2, <1>6, <1>8, <1>12 DEF TypeOK
  <1>14. counted' \in [Switches -> [Hosts -> Nat]]
    BY <1>3, <1>4, <1>5 DEF Learn, TypeOK
  <1>15. forward' \in [Switches -> [Hosts -> PortNos \union {None}]]
    BY <1>3, <1>4, <1>5 DEF Learn, TypeOK
  <1>16. tainted' \in BOOLEAN
    BY <1>6 DEF TypeOK
  <1> QED
    BY <1>6, <1>9, <1>11, <1>13, <1>14, <1>15, <1>16 DEF TypeOK

LEMMA NetworkChangeType ==
    ASSUME OneCable, TypeOK, NetworkChange
    PROVE  TypeOK'
  <1>1. /\ wiring \in Wirings /\ topology' = wiring /\ wiring' = wiring
        /\ edges' \in Graphs(wiring.cables) /\ mst' \in SpanningTrees(edges')
        /\ forward' \in [Switches -> [Hosts -> PortNos \union {None}]]
        /\ counted' \in [Switches -> [Hosts -> Nat]]
    BY DEF NetworkChange, SetNetwork, Blank, TypeOK
  <1>2. calm' = {} /\ tainted' = FALSE /\ UNCHANGED <<packetIns, sent, received, changes>>
    BY DEF NetworkChange
  <1>3. edges' = wiring.cables
    BY <1>1, OneGraph
  <1> QED
    BY <1>1, <1>2, <1>3 DEF TypeOK

LEMMA RewireType ==
    ASSUME TypeOK, Rewire
    PROVE  TypeOK'
  <1>1. /\ wiring' \in Wirings /\ calm' = {} /\ changes' = changes + 1 /\ changes + Len(sent) < MaxPackets
        /\ UNCHANGED <<topology, edges, mst, forward, counted, packetIns, sent, received, tainted>>
    BY DEF Rewire
  <1>2. changes' \in Nat /\ changes' + Len(sent) <= MaxPackets
    BY <1>1, LearningAssumption DEF TypeOK
  <1> QED
    BY <1>1, <1>2 DEF TypeOK

\* Types of tables, queues and counts: a packet waits only where there is a port, and
\* nobody has got one that is not sent yet.  All cables are edges of the topology, for
\* no two join the same switches.
THEOREM TypeCorrect == ASSUME OneCable PROVE Spec => []TypeOK
  <1>1. TypeOK /\ [Next]_vars => TypeOK'
    <2> SUFFICES ASSUME TypeOK, [Next]_vars PROVE TypeOK'
      OBVIOUS
    <2>1. CASE UNCHANGED vars
      BY <2>1 DEF vars, TypeOK
    <2>2. CASE Next
      BY <2>2, NetworkChangeType, RewireType, SendType, HandleType DEF Next
    <2> QED
      BY <2>1, <2>2
  <1> QED
    BY <1>1, TypeInit, PTL DEF Spec
-----------------------------------------------------------------------------
(* The invariant: at the start, and when the network or the policies change *)

LEMMA NothingTrusted == TypeOK /\ calm = {} /\ forward = Blank(None) => CalmKnown /\ Trusted
  <1> SUFFICES ASSUME TypeOK, calm = {}, forward = Blank(None) PROVE CalmKnown /\ Trusted
    OBVIOUS
  <1>1. \A s \in Switches, h \in Hosts : forward[s][h] = None
    BY DEF Blank
  <1>2. Homeward
    BY <1>1 DEF Homeward
  <1>3. WayLearned
    <2> SUFFICES ASSUME NEW c \in mst, NEW x \in c, NEW y \in c, NEW h \in Hosts,
                        x # y, forward[x[1]][h] = x[2]
                 PROVE  FALSE
      BY DEF WayLearned
    <2>1. x \in Locations
      BY TreeNow, TreeCables
    <2> QED
      BY <2>1, <1>1, PlaceType
  <1>4. Onward /\ Single /\ Ahead /\ AtMostOnce /\ SourceLearned /\ Unicast
    BY DEF Onward, Single, Ahead, AtMostOnce, SourceLearned, Unicast
  <1> QED
    BY <1>2, <1>3, <1>4 DEF CalmKnown, Trusted

LEMMA BlankLearned ==
    ASSUME counted = Blank(0), forward = Blank(None)
    PROVE  LearnedOnce
  BY DEF LearnedOnce, Blank, Limit

LEMMA LearningInit == ASSUME OneCable, Init PROVE LearningInv
  <1>1. calm = {} /\ forward = Blank(None) /\ counted = Blank(0)
    BY DEF Init
  <1> QED
    BY <1>1, TypeInit, NothingTrusted, BlankLearned DEF LearningInv

LEMMA NetworkChangeLearning ==
    ASSUME OneCable, LearningInv, NetworkChange
    PROVE  LearningInv'
  <1>1. TypeOK'
    BY NetworkChangeType DEF LearningInv
  <1>2. calm' = {} /\ forward' = Blank(None) /\ counted' = Blank(0)
    BY DEF NetworkChange, SetNetwork
  <1>3. CalmKnown' /\ Trusted'
    <2>1. (TypeOK /\ calm = {} /\ forward = Blank(None) => CalmKnown /\ Trusted)'
      BY NothingTrusted, PTL
    <2> QED
      BY <1>1, <1>2, <2>1
  <1>4. LearnedOnce'
    BY <1>2 DEF LearnedOnce, Blank, Limit
  <1> QED
    BY <1>1, <1>3, <1>4 DEF LearningInv

\* Without calm packets the rest of the invariant is about what is learned.
LEMMA CalmLost ==
    ASSUME LearningInv, TypeOK', calm' = {}, UNCHANGED <<topology, edges, mst, forward, counted, tainted>>
    PROVE  LearningInv'
  <1>1. CalmKnown' /\ LearnedOnce'
    BY DEF LearningInv, CalmKnown, LearnedOnce
  <1>2. ASSUME ~tainted PROVE Trusted'
    <2>1. Homeward'
      BY <1>2 DEF LearningInv, Trusted, Homeward, Toward, Side
    <2>2. WayLearned'
      BY <1>2 DEF LearningInv, Trusted, WayLearned
    <2>3. (Onward /\ Single /\ Ahead /\ AtMostOnce /\ SourceLearned /\ Unicast)'
      BY DEF Onward, Single, Ahead, AtMostOnce, SourceLearned, Unicast, Waits, Answers
    <2> QED
      BY <2>1, <2>2, <2>3 DEF Trusted
  <1> QED
    BY <1>1, <1>2 DEF LearningInv

LEMMA RewireLearning ==
    ASSUME LearningInv, Rewire
    PROVE  LearningInv'
  <1>1. TypeOK'
    BY RewireType DEF LearningInv
  <1> QED
    BY <1>1, CalmLost DEF Rewire

LEMMA StutterLearning ==
    ASSUME LearningInv, UNCHANGED vars
    PROVE  LearningInv'
  <1>1. (TypeOK /\ CalmKnown /\ LearnedOnce)'
    BY DEF vars, LearningInv, TypeOK, CalmKnown, LearnedOnce
  <1>2. \A l, i : Waits(l, i)' = Waits(l, i)
    BY DEF Waits, vars
  <1>3. \A k : Answers(k)' = Answers(k)
    BY DEF Answers, vars
  <1>4. ASSUME Trusted PROVE Trusted'
    <2>1. Homeward' /\ WayLearned'
      BY <1>4 DEF vars, Trusted, Homeward, WayLearned, Toward, Side, Waits
    <2>2. Onward' /\ Single'
      BY <1>4 DEF vars, Trusted, Onward, Single
    <2>3. Ahead' /\ AtMostOnce' /\ SourceLearned' /\ Unicast'
      BY <1>2, <1>3, <1>4 DEF vars, Trusted, Ahead, AtMostOnce, SourceLearned, Unicast, Side
    <2> QED
      BY <2>1, <2>2, <2>3 DEF Trusted
  <1> QED
    BY <1>1, <1>4 DEF LearningInv, vars
-----------------------------------------------------------------------------
(* The invariant: a host sends a packet *)

LEMMA SendLearning ==
    ASSUME LearningInv, NEW g \in Hosts, NEW d \in Hosts, Send(g, d)
    PROVE  LearningInv'
  <1> DEFINE n == Len(sent')
             home == wiring.at[g]
  <1>1. /\ TypeOK /\ TypeOK'
        /\ DOMAIN sent = 1 .. Len(sent) /\ Len(sent) \in Nat /\ n = Len(sent) + 1
        /\ n \in DOMAIN sent' \ DOMAIN sent
        /\ \A i \in DOMAIN sent : i \in DOMAIN sent' /\ sent'[i] = sent[i]
        /\ sent'[n] = [src |-> g, dst |-> d, before |-> {j \in DOMAIN sent : received[j][sent[j].dst] > 0}]
        /\ home \in Locations
        /\ \A l \in Locations : packetIns'[l] =
              IF l = home THEN Append(packetIns[l], n) ELSE packetIns[l]
    BY SendType DEF LearningInv, TypeOK
  <1>2. /\ UNCHANGED <<wiring, topology, edges, mst, forward, counted, received, tainted>>
        /\ calm' = IF topology = wiring THEN calm \union {n} ELSE calm
    BY <1>1 DEF Send
  <1>3. CASE topology # wiring
    BY <1>1, <1>2, <1>3, CalmLost DEF LearningInv, CalmKnown
  <1>4. CASE topology = wiring /\ tainted
    BY <1>1, <1>2, <1>4 DEF LearningInv, CalmKnown, LearnedOnce
  <1>5. n \in 1 .. MaxPackets
    BY <1>1, LearningAssumption DEF TypeOK
  <1>6. CASE topology = wiring /\ ~tainted
    <2>1. calm' = calm \union {n} /\ calm \subseteq DOMAIN sent /\ n \notin calm
      BY <1>1, <1>2, <1>6 DEF TypeOK
    <2>2. g # d /\ Tree(topology, mst) /\ topology \in Wirings
      BY TreeNow, <1>1, LearningAssumption DEF Send, TypeOK
    <2>3. Trusted
      BY <1>6 DEF LearningInv
    <2> HIDE DEF n
    <2>4. \A l \in Locations : packetIns[l] \in Seq(DOMAIN sent)
      BY <1>1 DEF TypeOK
    <2>5. \A l \in Locations :
            /\ l # home => packetIns'[l] = packetIns[l]
            /\ l = home => packetIns'[l][Len(packetIns[l]) + 1] = n
            /\ \A m \in DOMAIN packetIns[l] :
                  packetIns'[l][m] = packetIns[l][m] /\ packetIns[l][m] \in DOMAIN sent
      <3> SUFFICES ASSUME NEW l \in Locations
                   PROVE  /\ l # home => packetIns'[l] = packetIns[l]
                          /\ l = home => packetIns'[l][Len(packetIns[l]) + 1] = n
                          /\ \A m \in DOMAIN packetIns[l] :
                                packetIns'[l][m] = packetIns[l][m] /\ packetIns[l][m] \in DOMAIN sent
        OBVIOUS
      <3>1. packetIns[l] \in Seq(DOMAIN sent)
        BY <2>4
      <3>2. l # home => packetIns'[l] = packetIns[l]
        BY <1>1
      <3>3. l = home => packetIns'[l] = Append(packetIns[l], n)
        BY <1>1
      <3> QED
        BY <3>1, <3>2, <3>3, QueueEnd
    <2>6. \A l \in Locations : \A m \in DOMAIN packetIns'[l] :
            /\ m \in DOMAIN packetIns[l] \/ (l = home /\ m = Len(packetIns[l]) + 1 /\ packetIns'[l][m] = n)
            /\ \A k \in 1 .. m - 1 : k \in DOMAIN packetIns[l]
      <3> SUFFICES ASSUME NEW l \in Locations, NEW m \in DOMAIN packetIns'[l]
                   PROVE  /\ \/ m \in DOMAIN packetIns[l]
                             \/ l = home /\ m = Len(packetIns[l]) + 1 /\ packetIns'[l][m] = n
                          /\ \A k \in 1 .. m - 1 : k \in DOMAIN packetIns[l]
        OBVIOUS
      <3>1. CASE l = home
        <4>1. packetIns[l] \in Seq(DOMAIN sent) /\ packetIns'[l] = Append(packetIns[l], n)
          BY <3>1, <1>1, <2>4
        <4>2. packetIns'[l][Len(packetIns[l]) + 1] = n
          BY <3>1, <2>5
        <4> QED
          BY <3>1, <4>1, <4>2, QueueEnd
      <3>2. CASE l # home
        BY <3>2, <2>4, <2>5
      <3> QED
        BY <3>1, <3>2
    <2>7. \A l \in Locations : \A i : Waits(l, i)' => (i \in calm /\ Waits(l, i)) \/ (l = home /\ i = n)
      <3> SUFFICES ASSUME NEW l \in Locations, NEW i, Waits(l, i)'
                   PROVE  (i \in calm /\ Waits(l, i)) \/ (l = home /\ i = n)
        OBVIOUS
      <3>1. PICK m \in DOMAIN packetIns'[l] : packetIns'[l][m] = i
        BY DEF Waits
      <3>2. CASE m \in DOMAIN packetIns[l]
        <4>1. packetIns[l][m] = i /\ i \in DOMAIN sent
          BY <3>1, <3>2, <2>5
        <4>2. i # n
          BY <4>1, <1>1
        <4>3. i \in calm
          BY <4>2, <2>1 DEF Waits
        <4> QED
          BY <3>2, <4>1, <4>3 DEF Waits
      <3>3. CASE m \notin DOMAIN packetIns[l]
        BY <3>1, <3>3, <2>6
      <3> QED
        BY <3>2, <3>3
    <2>8. home = topology.at[g] /\ home \notin UNION topology.cables
      BY <1>6, <2>2, HostLocation
    <2>9. \A i \in calm : sent'[i] = sent[i] /\ i # n
      BY <1>1, <2>1
    \* Who is on the way to the sender is the sender.
    <2>10. \A h \in Hosts : Toward(topology, mst, home, h) => h = g
      <3>1. \A c \in mst : home \notin c
        BY <2>2, <2>8 DEF Tree, SpanningTrees
      <3> QED
        BY <3>1, <2>2, <2>8, WiringsAssumption DEF Toward
    <2>11. Homeward'
      <3>1. \A s \in Switches, h \in Hosts :
              forward'[s][h] # None => Toward(topology', mst', <<s, forward'[s][h]>>, h)
        BY <1>2, <2>3 DEF Trusted, Homeward
      <3>2. ASSUME NEW l \in Locations, NEW i \in calm', Waits(l, i)'
            PROVE  Toward(topology', mst', l, sent'[i].src)
        <4>1. CASE i \in calm /\ Waits(l, i)
          BY <4>1, <1>2, <2>3, <2>9 DEF Trusted, Homeward
        <4>2. CASE l = home /\ i = n
          BY <4>2, <1>1, <1>2, <2>8 DEF Toward
        <4> QED
          BY <3>2, <4>1, <4>2, <2>7
      <3>3. (\A s \in Switches, h \in Hosts :
              forward[s][h] # None => Toward(topology, mst, <<s, forward[s][h]>>, h))'
        BY <3>1 DEF Toward, Side
      <3>4. (\A l \in Locations, i \in calm : Waits(l, i) => Toward(topology, mst, l, sent[i].src))'
        BY <3>2 DEF Toward, Side
      <3> QED
        BY <3>3, <3>4 DEF Homeward
    <2>12. WayLearned'
      <3> SUFFICES ASSUME NEW c \in mst, NEW x \in c, NEW y \in c, NEW h \in Hosts, x # y,
                          forward[x[1]][h] = x[2] \/ \E i \in calm' : Waits(x, i)' /\ sent'[i].src = h
                   PROVE  forward[y[1]][h] \notin {None, y[2]}
        BY <1>2 DEF WayLearned
      <3>1. x \in Locations /\ x # home
        BY <2>2, <2>8, TreeCables
      <3>2. forward[x[1]][h] = x[2] \/ \E i \in calm : Waits(x, i) /\ sent[i].src = h
        BY <3>1, <2>7, <2>9
      <3> QED
        BY <3>2, <2>3 DEF Trusted, WayLearned
    <2>13. Onward'
      <3> SUFFICES ASSUME NEW l \in Locations, NEW m \in DOMAIN packetIns'[l], packetIns'[l][m] \in calm'
                   PROVE  /\ forward[l[1]][sent'[packetIns'[l][m]].dst] # l[2]
                          /\ \A k \in 1 .. m - 1 : packetIns'[l][k] \in calm' =>
                                sent'[packetIns'[l][k]].src # sent'[packetIns'[l][m]].dst
        BY <1>2 DEF Onward
      <3>1. \A k \in 1 .. m - 1 : k \in DOMAIN packetIns[l]
        BY <2>6
      <3>2. \A k \in DOMAIN packetIns[l] :
              packetIns'[l][k] \in calm' => /\ packetIns[l][k] \in calm /\ packetIns'[l][k] = packetIns[l][k]
                                            /\ sent'[packetIns[l][k]] = sent[packetIns[l][k]]
        BY <1>1, <2>1, <2>5
      <3>3. CASE m \in DOMAIN packetIns[l]
        BY <3>1, <3>2, <3>3, <2>3 DEF Trusted, Onward
      <3>4. CASE m \notin DOMAIN packetIns[l]
        <4>1. l = home /\ packetIns'[l][m] = n /\ sent'[n].dst = d
          BY <3>4, <1>1, <2>6
        <4>2. forward[l[1]][d] # l[2]
          <5>1. l[1] \in Switches /\ l[2] # None /\ l = <<l[1], l[2]>>
            BY PlaceType
          <5> QED
            BY <5>1, <4>1, <2>2, <2>3, <2>10 DEF Trusted, Homeward
        <4>3. \A k \in DOMAIN packetIns[l] : packetIns[l][k] \in calm => sent[packetIns[l][k]].src = g
          <5> SUFFICES ASSUME NEW k \in DOMAIN packetIns[l], packetIns[l][k] \in calm
                       PROVE  sent[packetIns[l][k]].src = g
            OBVIOUS
          <5>1. Waits(l, packetIns[l][k])
            BY DEF Waits
          <5>2. sent[packetIns[l][k]].src \in Hosts
            BY <1>1, <2>1, SentType
          <5> QED
            BY <4>1, <5>1, <5>2, <2>3, <2>10 DEF Trusted, Homeward
        <4> QED
          BY <3>1, <3>2, <4>1, <4>2, <4>3, <2>2
      <3> QED
        BY <3>3, <3>4
    <2>14. Single'
      <3> SUFFICES ASSUME NEW l \in Locations, NEW k \in DOMAIN packetIns'[l], NEW m \in DOMAIN packetIns'[l],
                          packetIns'[l][k] \in calm', packetIns'[l][k] = packetIns'[l][m]
                   PROVE  k = m
        BY DEF Single
      <3>1. CASE k \in DOMAIN packetIns[l] /\ m \in DOMAIN packetIns[l]
        <4>1. packetIns[l][k] \in calm /\ packetIns[l][k] = packetIns[l][m]
          BY <3>1, <1>1, <2>1, <2>5
        <4> QED
          BY <3>1, <4>1, <2>3 DEF Trusted, Single
      <3>2. CASE ~(k \in DOMAIN packetIns[l] /\ m \in DOMAIN packetIns[l])
        BY <3>2, <1>1, <2>5, <2>6
      <3> QED
        BY <3>1, <3>2
    <2>15. \A h \in Hosts : received[n][h] = 0
      BY <1>1, <1>5 DEF TypeOK
    <2>16. Ahead'
      <3> SUFFICES ASSUME NEW i \in calm', NEW l \in Locations, Waits(l, i)'
                   PROVE  /\ \A k \in Locations \ {l} : Waits(k, i)' => Side(mst, l) \intersect Side(mst, k) = {}
                          /\ \A h \in Hosts : topology.at[h][1] \in Side(mst, l) => received[i][h] = 0
        <4>1. mst' = mst /\ topology' = topology /\ received' = received
          BY <1>2
        <4>2. \A l : Side(mst, l)' = Side(mst, l)
          BY <4>1 DEF Side
        <4> QED
          BY <4>1, <4>2 DEF Ahead
      <3>1. CASE i \in calm
        <4>1. \A k \in Locations : Waits(k, i)' => Waits(k, i)
          BY <3>1, <2>7, <2>9
        <4> QED
          BY <3>1, <4>1, <2>3 DEF Trusted, Ahead
      <3>2. CASE i = n
        <4>1. \A k \in Locations : Waits(k, i)' => k = home
          BY <3>2, <2>1, <2>7
        <4> QED
          BY <3>2, <4>1, <2>15
      <3> QED
        BY <3>1, <3>2, <2>1
    <2>17. AtMostOnce' /\ SourceLearned'
      BY <1>2, <2>1, <2>3, <2>9, <2>15 DEF Trusted, AtMostOnce, SourceLearned
    <2>18. Unicast'
      <3> SUFFICES ASSUME NEW k \in calm', NEW j \in calm',
                          sent'[j].src = sent'[k].dst, sent'[j].dst = sent'[k].src, j \in sent'[k].before
                   PROVE  /\ \A l \in Locations : Waits(l, k)' => forward[l[1]][sent'[k].dst] # None
                          /\ \A h \in Hosts \ {sent'[k].dst} : received[k][h] = 0
        BY <1>2 DEF Unicast, Answers
      <3>1. CASE k \in calm /\ j \in calm
        <4>1. Answers(k)
          BY <3>1, <2>9 DEF Answers
        <4>2. \A l \in Locations : Waits(l, k)' => Waits(l, k)
          BY <3>1, <2>7, <2>9
        <4> QED
          BY <3>1, <4>1, <4>2, <2>3, <2>9 DEF Trusted, Unicast
      <3>2. CASE k \in calm /\ j = n
        <4>1. j \in sent[k].before /\ k \in DOMAIN sent
          BY <3>2, <2>1, <2>9
        <4> QED
          BY <4>1, <3>2, <1>1 DEF TypeOK
      <3>3. CASE k = n
        <4>1. j \in DOMAIN sent /\ received[j][sent[j].dst] > 0
          BY <3>3, <1>1
        <4>2. j \in calm /\ sent[j].dst = g /\ sent[j].src = d /\ sent'[k].dst = d
          BY <3>3, <4>1, <1>1, <2>1
        <4>3. forward[topology.at[g][1]][d] # None
          BY <4>1, <4>2, <2>3 DEF Trusted, SourceLearned
        <4>4. \A l \in Locations : Waits(l, k)' => l = home
          BY <3>3, <2>1, <2>7
        <4> QED
          BY <3>3, <4>2, <4>3, <4>4, <2>8, <2>15
      <3> QED
        BY <3>1, <3>2, <3>3, <2>1
    <2>19. CalmKnown' /\ LearnedOnce'
      BY <1>2, <1>6 DEF LearningInv, CalmKnown, LearnedOnce
    <2> QED
      BY <1>1, <2>11, <2>12, <2>13, <2>14, <2>16, <2>17, <2>18, <2>19 DEF LearningInv, Trusted
  <1> QED
    BY <1>3, <1>4, <1>6
-----------------------------------------------------------------------------
(* The invariant: a packet is handled *)

\* Packet i is handled at l: what is learned, and where the packet goes.
Moves(l, i, out) ==
    /\ l \in Locations /\ i \in calm /\ i \in DOMAIN sent
    /\ packetIns[l] # <<>> /\ packetIns[l][1] = i
    /\ forward' = [forward EXCEPT ![l[1]][sent[i].src] = l[2]]
    /\ forward[l[1]][sent[i].src] \in {None, l[2]}
    /\ \A y \in out : /\ y[1] = l[1] /\ y = <<y[1], y[2]>> /\ y # l
                      /\ forward[l[1]][sent[i].dst] \in {None, y[2]}
    /\ \A x \in FarEnds(out) :
          x \in Locations /\ x[1] # l[1] /\ \E c \in mst, y \in out : x \in c /\ y \in c /\ x # y
    /\ \A k \in Locations : packetIns'[k] =
          IF k = l THEN Tail(packetIns[k])
          ELSE IF k \in FarEnds(out) THEN Append(packetIns[k], i) ELSE packetIns[k]
    /\ \A j \in calm : \A h \in Hosts : received'[j][h] =
          IF j = i /\ topology.at[h] \in out /\ received[j][h] < 2 THEN received[j][h] + 1 ELSE received[j][h]
    /\ UNCHANGED <<topology, edges, mst, sent, calm>>

LEMMA HandleLearns ==
    ASSUME TypeOK, LearnedOnce, NEW l \in Locations, HandlePacketIn(l)
    PROVE  LearnedOnce'
  <1> DEFINE src == sent[Head(packetIns[l])].src
             s == l[1]
  <1>1. src \in Hosts
    <2>1. packetIns[l] \in Seq(DOMAIN sent) /\ packetIns[l] # <<>>
      BY DEF TypeOK, HandlePacketIn
    <2> QED
      BY <2>1, SentType
  <1>2. s \in Switches /\ l[2] # None
    BY PlaceType
  <1>3. Learn(s, src, l[2])
    BY DEF HandlePacketIn
  <1>4. counted[s][src] \in Nat
    BY <1>1, <1>2 DEF TypeOK
  <1> HIDE DEF src, s
  <1>5. counted[s][src] < 1 => counted[s][src] + 1 = 1
    BY <1>4
  <1>6. \A t \in Switches, h \in Hosts : ~(t = s /\ h = src) =>
           counted'[t][h] = counted[t][h] /\ forward'[t][h] = forward[t][h]
    BY <1>1, <1>2, <1>3 DEF Learn, TypeOK
  <1>7. /\ counted'[s][src] = IF counted[s][src] < 1 THEN counted[s][src] + 1 ELSE counted[s][src]
        /\ forward'[s][src] = IF counted[s][src] < 1 THEN l[2] ELSE forward[s][src]
    BY <1>1, <1>2, <1>3 DEF Learn, TypeOK, Passes, Limit
  <1>8. counted'[s][src] < 1 <=> forward'[s][src] = None
    BY <1>1, <1>2, <1>4, <1>7 DEF LearnedOnce, Limit
  <1> QED
    BY <1>6, <1>8 DEF LearnedOnce, Limit

LEMMA HandleMoves ==
    ASSUME LearningInv, NEW l \in Locations, HandlePacketIn(l), ~tainted'
    PROVE  Trusted /\ \E i : \E out : Moves(l, i, out)
  <1> DEFINE i   == Head(packetIns[l])
             s   == l[1]
             src == sent[i].src
             dst == sent[i].dst
             out == {<<s, p>> : p \in Output(s, dst, l[2])}
  <1>1. /\ TypeOK /\ LearnedOnce
        /\ packetIns \in [Locations -> Seq(DOMAIN sent)]
        /\ packetIns[l] # <<>> /\ packetIns[l] \in Seq(DOMAIN sent)
    BY DEF LearningInv, TypeOK, HandlePacketIn
  <1>2. i \in DOMAIN sent /\ packetIns[l][1] = i /\ 1 \in DOMAIN packetIns[l]
    BY <1>1
  <1>3. i \in calm /\ ~tainted /\ UNCHANGED <<topology, edges, mst, sent, calm>>
    BY DEF HandlePacketIn
  <1>4. Trusted /\ topology = wiring
    BY <1>3 DEF LearningInv, CalmKnown
  <1>5. src \in Hosts /\ dst \in Hosts /\ i \in DOMAIN received /\ received[i] \in [Hosts -> 0 .. 2]
    BY <1>1, <1>2, SentType
  <1>6. s \in Switches /\ l[2] # None /\ l = <<s, l[2]>>
    BY PlaceType
  <1>7. Tree(topology, mst)
    BY <1>1, TreeNow
  <1>8. /\ Learn(s, src, l[2])
        /\ packetIns' = [k \in Locations |->
              IF k \in FarEnds(out) THEN Append([packetIns EXCEPT ![l] = Tail(@)][k], i)
              ELSE [packetIns EXCEPT ![l] = Tail(@)][k]]
        /\ received' = [received EXCEPT ![i] =
              [h \in Hosts |-> IF wiring.at[h] \in out /\ @[h] < 2 THEN @[h] + 1 ELSE @[h]]]
    BY DEF HandlePacketIn
  <1>9. Waits(l, i)
    BY <1>2, <1>3 DEF Waits
  <1> HIDE DEF i
  <1>10. Toward(topology, mst, l, src)
    BY <1>3, <1>4, <1>9 DEF Trusted, Homeward
  <1>11. forward[s][src] \in {None, l[2]}
    <2>1. SUFFICES ASSUME forward[s][src] # None PROVE forward[s][src] = l[2]
      OBVIOUS
    <2>2. Toward(topology, mst, <<s, forward[s][src]>>, src)
      BY <1>4, <1>5, <1>6, <2>1 DEF Trusted, Homeward
    <2>3. <<s, forward[s][src]>>[1] = l[1]
      OBVIOUS
    <2>4. <<s, forward[s][src]>> = l
      BY <1>5, <1>7, <1>10, <2>2, <2>3, OneWay
    <2> QED
      BY <1>6, <2>4
  <1>12. forward' = [forward EXCEPT ![s][src] = l[2]]
    <2>1. forward' = [forward EXCEPT ![s][src] = IF Passes(s, src) THEN l[2] ELSE forward[s][src]]
      BY <1>8 DEF Learn
    <2>2. Passes(s, src) <=> forward[s][src] = None
      BY <1>1, <1>5, <1>6 DEF LearnedOnce, Passes
    <2> QED
      BY <1>11, <2>1, <2>2
  <1>13. \A y \in out : /\ y[1] = s /\ y = <<y[1], y[2]>> /\ y # l
                        /\ forward[s][dst] \in {None, y[2]}
    <2> SUFFICES ASSUME NEW p \in Output(s, dst, l[2])
                 PROVE  p # l[2] /\ forward[s][dst] \in {None, p}
      BY <1>6
    <2>1. forward[s][dst] # l[2]
      BY <1>2, <1>3, <1>4 DEF Trusted, Onward
    <2> QED
      BY <2>1 DEF Output
  \* The cables that a packet leaves by are of the tree.
  <1>14. ASSUME NEW c \in wiring.cables, NEW y \in c, y \in out PROVE c \in mst
    <2>1. PICK p \in Output(s, dst, l[2]) : y = <<s, p>>
      BY <1>14
    <2>2. mst \subseteq topology.cables /\ topology \in Wirings
      BY <1>7 DEF Tree, SpanningTrees
    <2>3. CASE forward[s][dst] = None
      <3>1. p \in FloodPorts(s)
        BY <2>1, <2>3 DEF Output
      <3>2. y \notin UNION (topology.cables \ mst)
        BY <1>1, <2>1, <3>1 DEF FloodPorts, TypeOK
      <3> QED
        BY <3>2, <1>4, <1>14
    <2>4. CASE forward[s][dst] # None
      <3>1. y = <<s, forward[s][dst]>>
        BY <2>1, <2>4 DEF Output
      <3>2. Toward(topology, mst, y, dst)
        BY <3>1, <2>4, <1>4, <1>5, <1>6 DEF Trusted, Homeward
      <3>3. y # topology.at[dst]
        <4>1. topology.at[dst] \notin UNION topology.cables
          BY <1>5, <2>2, HostLocation
        <4> QED
          BY <4>1, <1>4, <1>14
      <3>4. PICK d \in mst : y \in d
        BY <3>2, <3>3 DEF Toward
      <3>5. d = c
        BY <3>4, <2>2, <1>4, <1>14, WiringsAssumption
      <3> QED
        BY <3>4, <3>5
    <2> QED
      BY <2>3, <2>4
  <1> HIDE DEF out
  <1>15. ASSUME NEW x \in FarEnds(out)
         PROVE  x \in Locations /\ x[1] # s /\ \E c \in mst, y \in out : x \in c /\ y \in c /\ x # y
    <2>1. PICK c \in wiring.cables : c \intersect out # {} /\ x \in c \ out
      BY DEF FarEnds
    <2>2. PICK y \in c : y \in out
      BY <2>1
    <2>3. c \in mst /\ x \in c /\ x # y /\ y[1] = s
      BY <1>13, <1>14, <2>1, <2>2
    <2>4. x \in Locations /\ x[1] # y[1]
      BY <1>7, <2>2, <2>3, TreeCables, SidesApart
    <2> QED
      BY <2>2, <2>3, <2>4
  <1>16. \A k \in Locations : packetIns'[k] =
           IF k = l THEN Tail(packetIns[k])
           ELSE IF k \in FarEnds(out) THEN Append(packetIns[k], i) ELSE packetIns[k]
    <2>1. l \notin FarEnds(out)
      BY <1>15
    <2> QED
      BY <2>1, <1>1, <1>8
  <1>17. \A j \in calm : \A h \in Hosts : received'[j][h] =
           IF j = i /\ topology.at[h] \in out /\ received[j][h] < 2 THEN received[j][h] + 1 ELSE received[j][h]
    <2> DEFINE r == [h \in Hosts |-> IF wiring.at[h] \in out /\ received[i][h] < 2
                                     THEN received[i][h] + 1 ELSE received[i][h]]
    <2>1. received' = [received EXCEPT ![i] = r]
      BY <1>8
    <2>2. \A j \in calm : received'[j] = IF j = i THEN r ELSE received[j]
      BY <2>1, <1>5
    <2> QED
      BY <2>2, <1>4
  <1>18. Moves(l, i, out)
    BY <1>1, <1>2, <1>3, <1>11, <1>12, <1>13, <1>15, <1>16, <1>17 DEF Moves
  <1> QED
    BY <1>4, <1>18
LEMMA SamePlace ==
    ASSUME NEW k \in Locations, NEW l \in Locations, k[1] = l[1], k[2] = l[2]
    PROVE  k = l
  BY LearningAssumption


LEMMA MovesFacts ==
    ASSUME TypeOK, Trusted, NEW l, NEW i, NEW out, Moves(l, i, out)
    PROVE  /\ Tree(topology, mst)
           /\ l[1] \in Switches /\ l[2] # None /\ l = <<l[1], l[2]>>
           /\ sent[i].src \in Hosts /\ sent[i].dst \in Hosts /\ sent[i].src # sent[i].dst
           /\ Waits(l, i) /\ Toward(topology, mst, l, sent[i].src)
           /\ \A t \in Switches, h \in Hosts :
                 /\ forward'[t][h] = IF t = l[1] /\ h = sent[i].src THEN l[2] ELSE forward[t][h]
                 /\ forward[t][h] # None => forward'[t][h] = forward[t][h]
  <1>1. l \in Locations /\ i \in DOMAIN sent /\ packetIns[l] \in Seq(DOMAIN sent) /\ packetIns[l] # <<>>
    BY DEF Moves, TypeOK
  <1>2. Waits(l, i)
    <2>1. 1 \in DOMAIN packetIns[l]
      BY <1>1
    <2> QED
      BY <2>1 DEF Waits, Moves
  <1>3. l[1] \in Switches /\ l[2] # None /\ l = <<l[1], l[2]>>
    BY <1>1, PlaceType
  <1>4. sent[i].src \in Hosts /\ sent[i].dst \in Hosts /\ sent[i].src # sent[i].dst
    BY <1>1, SentType
  <1>5. \A t \in Switches, h \in Hosts :
           /\ forward'[t][h] = IF t = l[1] /\ h = sent[i].src THEN l[2] ELSE forward[t][h]
           /\ forward[t][h] # None => forward'[t][h] = forward[t][h]
    BY <1>3, <1>4 DEF Moves, TypeOK
  <1>6. Toward(topology, mst, l, sent[i].src)
    BY <1>1, <1>2 DEF Trusted, Homeward, Waits
  <1> QED
    BY <1>2, <1>3, <1>4, <1>5, <1>6, TreeNow

LEMMA MovesQueues ==
    ASSUME TypeOK, Trusted, NEW l, NEW i, NEW out, Moves(l, i, out), NEW k \in Locations
    PROVE  /\ packetIns[k] \in Seq(DOMAIN sent)
           /\ k = l => /\ packetIns'[k] = Tail(packetIns[k])
                       /\ \A m \in DOMAIN packetIns'[k] :
                             /\ m + 1 \in DOMAIN packetIns[k] /\ m \in Nat /\ m + 1 # 1
                             /\ packetIns'[k][m] = packetIns[k][m + 1]
           /\ k # l => \A m \in DOMAIN packetIns'[k] :
                          /\ \/ m \in DOMAIN packetIns[k] /\ packetIns'[k][m] = packetIns[k][m]
                             \/ /\ m = Len(packetIns[k]) + 1 /\ packetIns'[k][m] = i
                                /\ k \in FarEnds(out)
                          /\ \A n \in 1 .. m - 1 :
                                n \in DOMAIN packetIns[k] /\ packetIns'[k][n] = packetIns[k][n]
  <1>1. packetIns[k] \in Seq(DOMAIN sent)
    BY DEF TypeOK
  <1>2. ASSUME k = l
        PROVE  /\ packetIns'[k] = Tail(packetIns[k])
               /\ \A m \in DOMAIN packetIns'[k] :
                     /\ m + 1 \in DOMAIN packetIns[k] /\ m \in Nat /\ m + 1 # 1
                     /\ packetIns'[k][m] = packetIns[k][m + 1]
    <2>1. packetIns'[k] = Tail(packetIns[k]) /\ packetIns[k] # <<>>
      BY <1>2 DEF Moves
    <2> QED
      BY <1>1, <2>1
  <1>3. ASSUME k # l, NEW m \in DOMAIN packetIns'[k]
        PROVE  /\ \/ m \in DOMAIN packetIns[k] /\ packetIns'[k][m] = packetIns[k][m]
                  \/ m = Len(packetIns[k]) + 1 /\ packetIns'[k][m] = i /\ k \in FarEnds(out)
               /\ \A n \in 1 .. m - 1 : n \in DOMAIN packetIns[k] /\ packetIns'[k][n] = packetIns[k][n]
    <2>1. CASE k \in FarEnds(out)
      <3>1. packetIns'[k] = Append(packetIns[k], i)
        BY <1>3, <2>1 DEF Moves
      <3> QED
        BY <1>1, <1>3, <2>1, <3>1, QueueEnd
    <2>2. CASE k \notin FarEnds(out)
      <3>1. packetIns'[k] = packetIns[k]
        BY <1>3, <2>2 DEF Moves
      <3> QED
        BY <1>1, <1>3, <3>1
    <2> QED
      BY <2>1, <2>2
  <1> QED
    BY <1>1, <1>2, <1>3

LEMMA MovesWaits ==
    ASSUME TypeOK, Trusted, NEW l, NEW i, NEW out, Moves(l, i, out),
           NEW k \in Locations, NEW j, Waits(k, j)'
    PROVE  /\ j \in calm
           /\ Waits(k, j) \/ (j = i /\ k \in FarEnds(out))
           /\ ~(k = l /\ j = i)
  <1>1. j \in calm
    BY DEF Waits, Moves
  <1>2. PICK m \in DOMAIN packetIns'[k] : packetIns'[k][m] = j
    BY DEF Waits
  <1>3. CASE k = l
    <2>1. m + 1 \in DOMAIN packetIns[k] /\ m \in Nat /\ packetIns[k][m + 1] = j
      BY <1>2, <1>3, MovesQueues
    <2>2. Waits(k, j)
      BY <1>1, <2>1 DEF Waits
    <2>3. j # i
      <3>1. 1 \in DOMAIN packetIns[k] /\ packetIns[k][1] = i
        <4>1. packetIns[k] \in Seq(DOMAIN sent) /\ packetIns[k] # <<>> /\ packetIns[k][1] = i
          BY <1>3 DEF Moves, TypeOK
        <4> QED
          BY <4>1
      <3>3. m + 1 # 1
        BY <1>2, <1>3, MovesQueues
      <3> QED
        BY <1>1, <2>1, <3>1, <3>3 DEF Trusted, Single
    <2> QED
      BY <1>1, <2>2, <2>3
  <1>4. CASE k # l
    <2>0. \/ m \in DOMAIN packetIns[k] /\ packetIns'[k][m] = packetIns[k][m]
          \/ m = Len(packetIns[k]) + 1 /\ packetIns'[k][m] = i /\ k \in FarEnds(out)
      BY <1>2, <1>4, MovesQueues
    <2>1. (m \in DOMAIN packetIns[k] /\ packetIns[k][m] = j) \/ (j = i /\ k \in FarEnds(out))
      BY <1>2, <2>0
    <2> QED
      BY <1>1, <1>4, <2>1 DEF Waits
  <1> QED
    BY <1>3, <1>4

\* A packet crosses a cable of the tree, away from its source.
LEMMA MovesAcross ==
    ASSUME TypeOK, Trusted, NEW l, NEW i, NEW out, Moves(l, i, out), NEW x \in FarEnds(out)
    PROVE  /\ x \in Locations /\ x[1] \in Switches /\ x[1] # l[1]
           /\ \E c \in mst : \E y \in c :
                 /\ c = {x, y} /\ x # y /\ y \in out /\ y # l /\ y[1] = l[1] /\ y = <<y[1], y[2]>>
                 /\ forward[l[1]][sent[i].dst] \in {None, y[2]}
                 /\ Side(mst, x) \subseteq Side(mst, l) \ {l[1]}
                 /\ Toward(topology, mst, x, sent[i].src)
  <1>1. x \in Locations /\ x[1] # l[1] /\ \E c \in mst, y \in out : x \in c /\ y \in c /\ x # y
    BY DEF Moves
  <1>2. PICK c \in mst, y \in out : x \in c /\ y \in c /\ x # y
    BY <1>1
  <1>3. /\ y[1] = l[1] /\ y = <<y[1], y[2]>> /\ y # l
        /\ forward[l[1]][sent[i].dst] \in {None, y[2]}
    BY DEF Moves
  <1>4. Tree(topology, mst) /\ sent[i].src \in Hosts /\ Toward(topology, mst, l, sent[i].src)
    BY MovesFacts
  <1>5. c = {x, y} /\ x[1] \in Switches
    BY <1>2, <1>4, TreeCables
  <1>6. Side(mst, x) \subseteq Side(mst, l) \ {y[1]}
    BY <1>2, <1>3, <1>4, SideWithin
  <1>7. Toward(topology, mst, x, sent[i].src)
    BY <1>2, <1>3, <1>4, WayBack
  <1> QED
    BY <1>1, <1>2, <1>3, <1>5, <1>6, <1>7

LEMMA HandleHomeward ==
    ASSUME TypeOK, Trusted, NEW l, NEW i, NEW out, Moves(l, i, out)
    PROVE  Homeward'
  <1>1. UNCHANGED <<topology, edges, mst, sent, calm>>
    BY DEF Moves
  <1>2. ASSUME NEW t \in Switches, NEW h \in Hosts, forward'[t][h] # None
        PROVE  Toward(topology, mst, <<t, forward'[t][h]>>, h)
    BY <1>2, MovesFacts DEF Trusted, Homeward
  <1>3. ASSUME NEW k \in Locations, NEW j \in calm, Waits(k, j)'
        PROVE  Toward(topology, mst, k, sent[j].src)
    <2>1. CASE Waits(k, j)
      BY <2>1 DEF Trusted, Homeward
    <2>2. CASE j = i /\ k \in FarEnds(out)
      BY <2>2, MovesAcross
    <2> QED
      BY <1>3, <2>1, <2>2, MovesWaits
  <1>4. (\A s \in Switches, h \in Hosts :
            forward[s][h] # None => Toward(topology, mst, <<s, forward[s][h]>>, h))'
    BY <1>1, <1>2 DEF Toward, Side
  <1>5. (\A k \in Locations, j \in calm : Waits(k, j) => Toward(topology, mst, k, sent[j].src))'
    BY <1>1, <1>3 DEF Toward, Side
  <1> QED
    BY <1>4, <1>5 DEF Homeward

LEMMA HandleWayLearned ==
    ASSUME TypeOK, Trusted, NEW l, NEW i, NEW out, Moves(l, i, out)
    PROVE  WayLearned'
  <1>1. UNCHANGED <<topology, edges, mst, sent, calm>>
    BY DEF Moves
  <1> SUFFICES ASSUME NEW c \in mst, NEW x \in c, NEW y \in c, NEW h \in Hosts, x # y,
                      forward'[x[1]][h] = x[2] \/ \E j \in calm : Waits(x, j)' /\ sent[j].src = h
               PROVE  forward'[y[1]][h] \notin {None, y[2]}
    BY <1>1 DEF WayLearned
  <1> DEFINE src == sent[i].src
  <1>2. x \in Locations /\ x[1] \in Switches /\ y[1] \in Switches /\ c = {x, y} /\ x = <<x[1], x[2]>>
    BY MovesFacts, TreeCables
  <1>3. \A t \in Switches, g \in Hosts :
           /\ forward'[t][g] = IF t = l[1] /\ g = src THEN l[2] ELSE forward[t][g]
           /\ forward[t][g] # None => forward'[t][g] = forward[t][g]
    BY MovesFacts
  <1>4. CASE forward[x[1]][h] = x[2] \/ \E j \in calm : Waits(x, j) /\ sent[j].src = h
    <2>1. forward[y[1]][h] \notin {None, y[2]}
      BY <1>4 DEF Trusted, WayLearned
    <2> QED
      BY <2>1, <1>2, <1>3
  <1>5. CASE forward'[x[1]][h] = x[2] /\ forward[x[1]][h] # x[2]
    <2>0. x[1] = l[1] /\ h = src /\ x[2] = l[2]
      BY <1>2, <1>3, <1>5, MovesFacts
    <2>1. x = l /\ h = src
      <3>1. l \in Locations
        BY DEF Moves
      <3>2. x \in Locations
        BY <1>2
      <3> QED
        BY <2>0, <3>1, <3>2, SamePlace
    <2>2. Waits(x, i)
      BY <2>1, MovesFacts
    <2>3. i \in calm
      BY DEF Moves
    <2> QED
      BY <1>4, <2>1, <2>2, <2>3
  <1>6. CASE \E j \in calm : Waits(x, j)' /\ ~Waits(x, j) /\ sent[j].src = h
    <2>1. x \in FarEnds(out) /\ h = src
      BY <1>2, <1>6, MovesWaits
    <2>2. PICK d \in mst : \E z \in d : d = {x, z} /\ x # z /\ z # l /\ z[1] = l[1] /\ z = <<z[1], z[2]>>
      BY <2>1, MovesAcross
    <2>3. PICK z \in d : d = {x, z} /\ x # z /\ z # l /\ z[1] = l[1] /\ z = <<z[1], z[2]>>
      BY <2>2
    <2>4. d = c
      <3>1. mst \subseteq topology.cables /\ topology \in Wirings
        BY MovesFacts DEF Tree, SpanningTrees
      <3>2. c \in topology.cables /\ d \in topology.cables /\ x \in c \intersect d
        BY <2>3, <3>1
      <3> QED
        BY <3>1, <3>2, WiringsAssumption
    <2>5. y = z
      BY <1>2, <2>3, <2>4
    <2> QED
      BY <1>2, <1>3, <2>1, <2>3, <2>5, MovesFacts
  <1> QED
    BY <1>4, <1>5, <1>6

LEMMA HandleOnward ==
    ASSUME TypeOK, Trusted, NEW l, NEW i, NEW out, Moves(l, i, out)
    PROVE  Onward'
  <1>1. UNCHANGED <<topology, edges, mst, sent, calm>> /\ l \in Locations /\ i \in calm
    BY DEF Moves
  <1> DEFINE src == sent[i].src
             dst == sent[i].dst
  <1>2. /\ src \in Hosts /\ dst \in Hosts /\ src # dst /\ Waits(l, i)
        /\ \A t \in Switches, g \in Hosts :
              forward'[t][g] = IF t = l[1] /\ g = src THEN l[2] ELSE forward[t][g]
    BY MovesFacts
  <1>3. ASSUME NEW x \in FarEnds(out)
        PROVE  forward[x[1]][dst] # x[2] /\ \A j \in calm : Waits(x, j) => sent[j].src # dst
    <2>1. PICK c \in mst : \E y \in c : /\ c = {x, y} /\ x # y /\ y[1] = l[1]
                                        /\ forward[l[1]][dst] \in {None, y[2]}
      BY <1>3, MovesAcross
    <2>2. PICK y \in c : c = {x, y} /\ x # y /\ y[1] = l[1] /\ forward[l[1]][dst] \in {None, y[2]}
      BY <2>1
    <2>3. x \in c /\ ~(forward[y[1]][dst] \notin {None, y[2]})
      BY <2>2
    <2> QED
      BY <1>2, <2>2, <2>3 DEF Trusted, WayLearned
  <1> SUFFICES ASSUME NEW k \in Locations, NEW n \in DOMAIN packetIns'[k], packetIns'[k][n] \in calm
               PROVE  /\ forward'[k[1]][sent[packetIns'[k][n]].dst] # k[2]
                      /\ \A m \in 1 .. n - 1 : packetIns'[k][m] \in calm =>
                            sent[packetIns'[k][m]].src # sent[packetIns'[k][n]].dst
    BY <1>1 DEF Onward
  <1> DEFINE h == sent[packetIns'[k][n]].dst
  <1>4. k[1] \in Switches
    BY PlaceType
  <1>5. h \in Hosts
    BY <1>1, SentType DEF TypeOK
  <1> HIDE DEF src, dst, h
  <1>6. CASE k = l
    <2>1. /\ packetIns'[k] = Tail(packetIns[k]) /\ packetIns[k] \in Seq(DOMAIN sent)
          /\ \A m \in DOMAIN packetIns'[k] :
                /\ m + 1 \in DOMAIN packetIns[k] /\ m \in Nat /\ m + 1 # 1
                /\ packetIns'[k][m] = packetIns[k][m + 1]
      BY <1>6, MovesQueues
    <2>2. /\ forward[k[1]][h] # k[2]
          /\ \A m \in 1 .. n : packetIns[k][m] \in calm => sent[packetIns[k][m]].src # h
      <3>1. n + 1 \in DOMAIN packetIns[k] /\ packetIns'[k][n] = packetIns[k][n + 1] /\ (n + 1) - 1 = n
        BY <2>1
      <3> QED
        BY <3>1 DEF Trusted, Onward, h
    <2>3. src # h
      <3>1. packetIns[k][1] = i /\ 1 \in 1 .. n
        BY <1>6, <2>1 DEF Moves
      <3> QED
        BY <1>1, <2>2, <3>1 DEF src
    <2>4. forward'[k[1]][h] = forward[k[1]][h]
      BY <1>2, <1>4, <1>5, <2>3
    <2>5. ASSUME NEW m \in 1 .. n - 1, packetIns'[k][m] \in calm
          PROVE  sent[packetIns'[k][m]].src # h
      <3>1. m \in DOMAIN packetIns'[k] /\ m + 1 \in 1 .. n
        BY <2>1
      <3>2. packetIns'[k][m] = packetIns[k][m + 1]
        BY <2>1, <3>1
      <3> QED
        BY <2>2, <2>5, <3>1, <3>2
    <2> QED
      BY <2>2, <2>4, <2>5 DEF h
  <1>7. CASE k # l
    <2>1. /\ \/ n \in DOMAIN packetIns[k] /\ packetIns'[k][n] = packetIns[k][n]
             \/ n = Len(packetIns[k]) + 1 /\ packetIns'[k][n] = i /\ k \in FarEnds(out)
          /\ \A m \in 1 .. n - 1 : m \in DOMAIN packetIns[k] /\ packetIns'[k][m] = packetIns[k][m]
      BY <1>7, MovesQueues
    <2>2. CASE n \in DOMAIN packetIns[k] /\ packetIns'[k][n] = packetIns[k][n]
      <3>1. /\ forward[k[1]][h] # k[2]
            /\ \A m \in 1 .. n - 1 : packetIns[k][m] \in calm => sent[packetIns[k][m]].src # h
        BY <2>2 DEF Trusted, Onward, h
      <3>2. k[1] = l[1] => k[2] # l[2]
        BY <1>1, <1>7, SamePlace
      <3>3. forward'[k[1]][h] # k[2]
        BY <1>2, <1>4, <1>5, <3>1, <3>2
      <3> QED
        BY <2>1, <3>1, <3>3 DEF h
    <2>3. CASE packetIns'[k][n] = i /\ k \in FarEnds(out)
      <3>1. h = dst
        BY <2>3 DEF h, dst
      <3>2. forward'[k[1]][h] # k[2]
        BY <1>2, <1>3, <1>4, <1>5, <2>3, <3>1
      <3>3. ASSUME NEW m \in 1 .. n - 1, packetIns'[k][m] \in calm
            PROVE  sent[packetIns'[k][m]].src # h
        <4>1. Waits(k, packetIns'[k][m])
          BY <2>1, <3>3 DEF Waits
        <4> QED
          BY <1>3, <2>3, <3>1, <3>3, <4>1
      <3> QED
        BY <3>2, <3>3 DEF h
    <2> QED
      BY <2>1, <2>2, <2>3
  <1> QED
    BY <1>6, <1>7

\* Where a packet comes to next, it does not wait already.
LEMMA MovesAnew ==
    ASSUME TypeOK, Trusted, NEW l, NEW i, NEW out, Moves(l, i, out), NEW x \in FarEnds(out)
    PROVE  ~Waits(x, i)
  <1>1. Waits(l, i) /\ Tree(topology, mst)
    BY MovesFacts
  <1>2. /\ x \in Locations /\ x[1] \in Switches /\ x[1] # l[1]
        /\ Side(mst, x) \subseteq Side(mst, l) \ {l[1]}
    BY MovesAcross
  <1>3. x[1] \in Side(mst, x) \intersect Side(mst, l)
    BY <1>1, <1>2, SideType
  <1>4. l \in Locations /\ i \in calm /\ x \in Locations \ {l}
    BY <1>2 DEF Moves
  <1> QED
    BY <1>1, <1>3, <1>4 DEF Trusted, Ahead

LEMMA HandleSingle ==
    ASSUME TypeOK, Trusted, NEW l, NEW i, NEW out, Moves(l, i, out)
    PROVE  Single'
  <1>1. UNCHANGED <<topology, edges, mst, sent, calm>>
    BY DEF Moves
  <1> SUFFICES ASSUME NEW k \in Locations,
                      NEW m \in DOMAIN packetIns'[k], NEW n \in DOMAIN packetIns'[k],
                      packetIns'[k][m] \in calm, packetIns'[k][m] = packetIns'[k][n]
               PROVE  m = n
    BY <1>1 DEF Single
  <1>2. CASE k = l
    <2>1. /\ m + 1 \in DOMAIN packetIns[k] /\ m \in Nat /\ packetIns'[k][m] = packetIns[k][m + 1]
          /\ n + 1 \in DOMAIN packetIns[k] /\ n \in Nat /\ packetIns'[k][n] = packetIns[k][n + 1]
      BY <1>2, MovesQueues
    <2>2. m + 1 = n + 1
      BY <2>1 DEF Trusted, Single
    <2> QED
      BY <2>1, <2>2
  <1>3. CASE k # l
    <2>1. /\ \/ m \in DOMAIN packetIns[k] /\ packetIns'[k][m] = packetIns[k][m]
             \/ m = Len(packetIns[k]) + 1 /\ packetIns'[k][m] = i /\ k \in FarEnds(out)
          /\ \/ n \in DOMAIN packetIns[k] /\ packetIns'[k][n] = packetIns[k][n]
             \/ n = Len(packetIns[k]) + 1 /\ packetIns'[k][n] = i /\ k \in FarEnds(out)
      BY <1>3, MovesQueues
    <2>2. k \in FarEnds(out) => ~Waits(k, i)
      BY MovesAnew
    <2>3. ASSUME k \in FarEnds(out), NEW p \in DOMAIN packetIns[k] PROVE packetIns[k][p] # i
      BY <2>2, <2>3 DEF Waits, Moves
    <2> QED
      BY <2>1, <2>3 DEF Trusted, Single
  <1> QED
    BY <1>2, <1>3

\* Hosts get packet i where it is handled, which is on no side it has yet to see.
LEMMA MovesReceived ==
    ASSUME TypeOK, Trusted, NEW l, NEW i, NEW out, Moves(l, i, out),
           NEW h \in Hosts, topology.at[h] \in out
    PROVE  /\ topology.at[h][1] = l[1] /\ topology.at[h] # l
           /\ forward[l[1]][sent[i].dst] \in {None, topology.at[h][2]}
           /\ received[i][h] = 0
           /\ h # sent[i].src
  <1>1. /\ topology.at[h][1] = l[1] /\ topology.at[h] # l /\ l \in Locations /\ i \in calm
        /\ forward[l[1]][sent[i].dst] \in {None, topology.at[h][2]}
    BY DEF Moves
  <1>2. /\ Tree(topology, mst) /\ Waits(l, i) /\ l[1] \in Switches
        /\ Toward(topology, mst, l, sent[i].src)
    BY MovesFacts
  <1>3. l[1] \in Side(mst, l)
    BY <1>2, SideType
  <1>4. received[i][h] = 0
    BY <1>1, <1>2, <1>3 DEF Trusted, Ahead
  <1>5. h # sent[i].src
    <2>1. SUFFICES ASSUME h = sent[i].src PROVE FALSE
      OBVIOUS
    <2>2. Toward(topology, mst, topology.at[h], h)
      BY DEF Toward
    <2> QED
      BY <1>1, <1>2, <2>1, <2>2, OneWay
  <1> QED
    BY <1>1, <1>4, <1>5

LEMMA ReceivedMoves ==
    ASSUME NEW l, NEW i, NEW out, Moves(l, i, out), NEW j \in calm, NEW h \in Hosts
    PROVE  ~(j = i /\ topology.at[h] \in out) => received'[j][h] = received[j][h]
  BY DEF Moves

LEMMA HandleAhead ==
    ASSUME TypeOK, Trusted, NEW l, NEW i, NEW out, Moves(l, i, out)
    PROVE  Ahead'
  <1>1. UNCHANGED <<topology, edges, mst, sent, calm>> /\ l \in Locations /\ i \in calm
    BY DEF Moves
  <1>2. Tree(topology, mst) /\ Waits(l, i) /\ l[1] \in Switches
    BY MovesFacts
  <1>3. l[1] \in Side(mst, l)
    BY <1>2, SideType
  \* Every place that i waits at afterwards.
  <1>4. ASSUME NEW k \in Locations, Waits(k, i)'
        PROVE  /\ l[1] \notin Side(mst, k)
               /\ \A h \in Hosts : topology.at[h][1] \in Side(mst, k) => received[i][h] = 0
    <2>1. (Waits(k, i) /\ k # l) \/ k \in FarEnds(out)
      BY <1>4, MovesWaits
    <2>2. CASE Waits(k, i) /\ k # l
      BY <1>1, <1>2, <1>3, <2>2 DEF Trusted, Ahead
    <2>3. CASE k \in FarEnds(out)
      <3>1. Side(mst, k) \subseteq Side(mst, l) \ {l[1]}
        BY <2>3, MovesAcross
      <3> QED
        BY <1>1, <1>2, <3>1 DEF Trusted, Ahead
    <2> QED
      BY <2>1, <2>2, <2>3
  <1>5. ASSUME NEW j \in calm, NEW k \in Locations, Waits(k, j)', NEW h \in Hosts,
               topology.at[h][1] \in Side(mst, k)
        PROVE  received'[j][h] = 0
    <2>1. CASE j # i
      <3>1. Waits(k, j)
        BY <1>5, <2>1, MovesWaits
      <3> QED
        BY <1>5, <2>1, <3>1, ReceivedMoves DEF Trusted, Ahead
    <2>2. CASE j = i
      <3>1. l[1] \notin Side(mst, k) /\ received[i][h] = 0
        BY <1>4, <1>5, <2>2
      <3>2. topology.at[h] \notin out
        BY <1>5, <3>1, MovesReceived
      <3> QED
        BY <2>2, <3>1, <3>2, ReceivedMoves
    <2> QED
      BY <2>1, <2>2
  <1>6. ASSUME NEW x \in Locations, NEW k \in Locations \ {x}, x \in FarEnds(out), Waits(k, i), k # l
        PROVE  Side(mst, x) \intersect Side(mst, k) = {}
    <2>1. Side(mst, x) \subseteq Side(mst, l)
      BY <1>6, MovesAcross
    <2>2. Side(mst, l) \intersect Side(mst, k) = {}
      BY <1>1, <1>2, <1>6 DEF Trusted, Ahead
    <2> QED
      BY <2>1, <2>2
  <1>7. ASSUME NEW x \in FarEnds(out), NEW k \in FarEnds(out), x # k
        PROVE  Side(mst, x) \intersect Side(mst, k) = {}
    <2>1. PICK c \in mst : \E y \in c : c = {x, y} /\ x # y /\ y[1] = l[1]
      BY MovesAcross
    <2>2. PICK y \in c : c = {x, y} /\ x # y /\ y[1] = l[1]
      BY <2>1
    <2>3. PICK d \in mst : \E z \in d : d = {k, z} /\ k # z /\ z[1] = l[1]
      BY MovesAcross
    <2>4. PICK z \in d : d = {k, z} /\ k # z /\ z[1] = l[1]
      BY <2>3
    <2>5. x \in c /\ k \in d /\ x[1] # l[1] /\ k[1] # l[1]
      BY <2>2, <2>4, MovesAcross
    <2>6. y # z
      <3>1. SUFFICES ASSUME y = z PROVE FALSE
        OBVIOUS
      <3>2. c # d
        BY <1>7, <2>2, <2>4, <2>5
      <3>3. c \in topology.cables /\ d \in topology.cables /\ topology \in Wirings
        BY <1>2 DEF Tree, SpanningTrees
      <3> QED
        BY <3>1, <3>2, <3>3, WiringsAssumption
    <2> QED
      BY <1>2, <2>2, <2>4, <2>5, <2>6, SiblingsApart
  <1>8. ASSUME NEW j \in calm, NEW x \in Locations, NEW k \in Locations \ {x}, Waits(x, j)', Waits(k, j)'
        PROVE  Side(mst, x) \intersect Side(mst, k) = {}
    <2>1. /\ Waits(x, j) \/ (j = i /\ x \in FarEnds(out))
          /\ Waits(k, j) \/ (j = i /\ k \in FarEnds(out))
          /\ ~(x = l /\ j = i) /\ ~(k = l /\ j = i)
      BY <1>8, MovesWaits
    <2>2. CASE Waits(x, j) /\ Waits(k, j)
      BY <2>2 DEF Trusted, Ahead
    <2> QED
      BY <2>1, <2>2, <1>6, <1>7
  <1>9. \A j \in calm : \A k \in Locations : Waits(k, j)' =>
           /\ \A x \in Locations \ {k} : Waits(x, j)' => Side(mst, k) \intersect Side(mst, x) = {}
           /\ \A h \in Hosts : topology.at[h][1] \in Side(mst, k) => received'[j][h] = 0
    BY <1>5, <1>8
  <1>10. \A k \in Locations : Side(mst, k)' = Side(mst, k)
    BY <1>1 DEF Side
  <1>11. ASSUME NEW j \in calm', NEW k \in Locations, Waits(k, j)'
         PROVE  /\ \A x \in Locations \ {k} :
                      Waits(x, j)' => Side(mst, k)' \intersect Side(mst, x)' = {}
                /\ \A h \in Hosts : topology'.at[h][1] \in Side(mst, k)' => received'[j][h] = 0
    <2>1. j \in calm /\ topology' = topology
      BY <1>1, <1>11
    <2> QED
      BY <1>9, <1>10, <1>11, <2>1
  <1> QED
    BY <1>11 DEF Ahead

LEMMA HandleAtMostOnce ==
    ASSUME TypeOK, Trusted, NEW l, NEW i, NEW out, Moves(l, i, out)
    PROVE  AtMostOnce'
  <1>1. UNCHANGED <<topology, edges, mst, sent, calm>>
    BY DEF Moves
  <1> SUFFICES ASSUME NEW j \in calm, NEW h \in Hosts
               PROVE  received'[j][h] <= (IF h = sent[j].src THEN 0 ELSE 1)
    BY <1>1 DEF AtMostOnce
  <1>2. CASE j = i /\ topology.at[h] \in out
    <2>1. received[i][h] = 0 /\ h # sent[i].src
      BY <1>2, MovesReceived
    <2>2. received'[j][h] = received[j][h] + 1
      BY <1>2, <2>1 DEF Moves
    <2> QED
      BY <1>2, <2>1, <2>2
  <1>3. CASE ~(j = i /\ topology.at[h] \in out)
    BY <1>3, ReceivedMoves DEF Trusted, AtMostOnce
  <1> QED
    BY <1>2, <1>3

LEMMA HandleSourceLearned ==
    ASSUME TypeOK, Trusted, NEW l, NEW i, NEW out, Moves(l, i, out)
    PROVE  SourceLearned'
  <1>1. UNCHANGED <<topology, edges, mst, sent, calm>>
    BY DEF Moves
  <1> SUFFICES ASSUME NEW j \in calm, NEW h \in Hosts, received'[j][h] > 0
               PROVE  forward'[topology.at[h][1]][sent[j].src] # None
    BY <1>1 DEF SourceLearned
  <1>2. topology.at[h][1] \in Switches
    BY HostLocation DEF TypeOK
  <1>3. sent[j].src \in Hosts
    BY SentType DEF TypeOK
  <1>4. l[2] # None /\ \A t \in Switches, g \in Hosts :
           /\ forward'[t][g] = IF t = l[1] /\ g = sent[i].src THEN l[2] ELSE forward[t][g]
           /\ forward[t][g] # None => forward'[t][g] = forward[t][g]
    BY MovesFacts
  <1>5. CASE j = i /\ topology.at[h] \in out
    <2>1. topology.at[h][1] = l[1]
      BY <1>5, MovesReceived
    <2> QED
      BY <1>2, <1>3, <1>4, <1>5, <2>1
  <1>6. CASE ~(j = i /\ topology.at[h] \in out)
    <2>1. forward[topology.at[h][1]][sent[j].src] # None
      BY <1>6, ReceivedMoves DEF Trusted, SourceLearned
    <2> QED
      BY <1>2, <1>3, <1>4, <2>1
  <1> QED
    BY <1>5, <1>6

LEMMA HandleUnicast ==
    ASSUME TypeOK, Trusted, NEW l, NEW i, NEW out, Moves(l, i, out)
    PROVE  Unicast'
  <1>1. UNCHANGED <<topology, edges, mst, sent, calm>> /\ l \in Locations
    BY DEF Moves
  <1> SUFFICES ASSUME NEW k \in calm, Answers(k)
               PROVE  /\ \A x \in Locations : Waits(x, k)' => forward'[x[1]][sent[k].dst] # None
                      /\ \A h \in Hosts \ {sent[k].dst} : received'[k][h] = 0
    BY <1>1 DEF Unicast, Answers
  <1> DEFINE dst == sent[k].dst
  <1>2. dst \in Hosts
    BY SentType DEF TypeOK
  <1>3. /\ Tree(topology, mst) /\ Waits(l, i) /\ l[1] \in Switches
        /\ \A t \in Switches, g \in Hosts :
              forward[t][g] # None => forward'[t][g] = forward[t][g]
    BY MovesFacts
  <1>4. k = i => forward[l[1]][dst] # None
    BY <1>1, <1>3 DEF Trusted, Unicast
  <1>5. ASSUME NEW x \in Locations, Waits(x, k)' PROVE forward'[x[1]][dst] # None
    <2>1. x[1] \in Switches
      BY PlaceType
    <2>2. CASE Waits(x, k)
      <3>1. forward[x[1]][dst] # None
        BY <2>2 DEF Trusted, Unicast
      <3> QED
        BY <1>2, <1>3, <2>1, <3>1
    <2>3. CASE k = i /\ x \in FarEnds(out)
      <3>1. PICK c \in mst : \E y \in c : /\ c = {x, y} /\ x # y /\ y[1] = l[1]
                                          /\ forward[l[1]][sent[i].dst] \in {None, y[2]}
        BY <2>3, MovesAcross
      <3>2. PICK y \in c : /\ c = {x, y} /\ x # y /\ y[1] = l[1]
                           /\ forward[l[1]][sent[i].dst] \in {None, y[2]}
        BY <3>1
      <3>3. x \in c /\ forward[y[1]][dst] = y[2]
        BY <1>4, <2>3, <3>2
      <3>4. forward[x[1]][dst] # None
        BY <1>2, <3>2, <3>3 DEF Trusted, WayLearned
      <3> QED
        BY <1>2, <1>3, <2>1, <3>4
    <2> QED
      BY <1>5, <2>2, <2>3, MovesWaits
  <1>6. ASSUME NEW h \in Hosts \ {dst} PROVE received'[k][h] = 0
    <2>1. received[k][h] = 0
      BY <1>6 DEF Trusted, Unicast
    <2>2. SUFFICES ASSUME k = i, topology.at[h] \in out PROVE FALSE
      BY <2>1, ReceivedMoves
    <2>3. topology.at[h][1] = l[1] /\ forward[l[1]][dst] = topology.at[h][2]
      BY <1>4, <2>2, MovesReceived
    <2>4. Toward(topology, mst, <<l[1], forward[l[1]][dst]>>, dst)
      BY <1>2, <1>3, <1>4, <2>2 DEF Trusted, Homeward
    <2>5. topology \in Wirings /\ mst \subseteq topology.cables
      BY <1>3 DEF Tree, SpanningTrees
    <2>6. topology.at[h] = <<topology.at[h][1], topology.at[h][2]>> /\ topology.at[h] \notin UNION topology.cables
      BY <2>5, HostLocation
    <2>7. Toward(topology, mst, topology.at[h], dst)
      <3>1. <<l[1], forward[l[1]][dst]>> = <<topology.at[h][1], topology.at[h][2]>>
        BY <2>3
      <3>2. <<l[1], forward[l[1]][dst]>> = topology.at[h]
        BY <2>6, <3>1, Zenon
      <3> QED
        BY <2>4, <3>2
    <2>8. topology.at[h] # topology.at[dst]
      <3>1. \A g, e \in Hosts : g # e => topology.at[g] # topology.at[e]
        BY <2>5, WiringsAssumption
      <3>2. h \in Hosts /\ h # dst
        OBVIOUS
      <3> QED
        BY <1>2, <3>1, <3>2
    <2> QED
      BY <2>5, <2>6, <2>7, <2>8 DEF Toward
  <1> QED
    BY <1>5, <1>6

LEMMA HandleLearning ==
    ASSUME LearningInv, NEW l \in Locations, HandlePacketIn(l)
    PROVE  LearningInv'
  <1>1. TypeOK'
    BY HandleType DEF LearningInv
  <1>2. CalmKnown'
    BY DEF LearningInv, CalmKnown, HandlePacketIn
  <1>3. LearnedOnce'
    BY HandleLearns DEF LearningInv
  <1>4. ASSUME ~tainted' PROVE Trusted'
    <2>1. TypeOK /\ Trusted /\ \E i, out : Moves(l, i, out)
      BY <1>4, HandleMoves DEF LearningInv
    <2>2. PICK i, out : Moves(l, i, out)
      BY <2>1
    <2>3. Homeward' /\ WayLearned' /\ Onward'
      BY <2>1, <2>2, HandleHomeward, HandleWayLearned, HandleOnward
    <2>4. Single' /\ Ahead' /\ AtMostOnce'
      BY <2>1, <2>2, HandleSingle, HandleAhead, HandleAtMostOnce
    <2>5. SourceLearned' /\ Unicast'
      BY <2>1, <2>2, HandleSourceLearned, HandleUnicast
    <2> QED
      BY <2>3, <2>4, <2>5 DEF Trusted
  <1> QED
    BY <1>1, <1>2, <1>3, <1>4 DEF LearningInv

\* While the policies know the network and no older packet was handled, packets in
\* queues lie on paths that all lead home, over which the next switch back has already
\* learned their source.  Of networks in which two cables join the same switches this
\* is not true: flood has but one of the two, and its packets go round.
THEOREM LearningInvariant == ASSUME OneCable PROVE Spec => []LearningInv
  <1>1. Init => LearningInv
    BY LearningInit
  <1>2. LearningInv /\ [Next]_vars => LearningInv'
    <2> SUFFICES ASSUME LearningInv, [Next]_vars PROVE LearningInv'
      OBVIOUS
    <2>1. CASE NetworkChange
      BY <2>1, NetworkChangeLearning
    <2>2. CASE Rewire
      BY <2>2, RewireLearning
    <2>3. ASSUME NEW h \in Hosts, NEW d \in Hosts, Send(h, d) PROVE LearningInv'
      BY <2>3, SendLearning
    <2>4. ASSUME NEW l \in Locations, HandlePacketIn(l) PROVE LearningInv'
      BY <2>4, HandleLearning
    <2>5. CASE UNCHANGED vars
      BY <2>5, StutterLearning
    <2> QED
      BY <2>1, <2>2, <2>3, <2>4, <2>5 DEF Next
  <1> QED
    BY <1>1, <1>2, PTL DEF Spec
-----------------------------------------------------------------------------
(* What follows from it *)

\* The way of a tree to a host is the one that Leads tells of.
LEMMA TowardLeads ==
    ASSUME TypeOK, topology = wiring, NEW s, NEW p, NEW h, Toward(topology, mst, <<s, p>>, h)
    PROVE  Leads(s, p, h)
  <1> DEFINE l == <<s, p>>
  <1>1. CASE l = wiring.at[h]
    BY <1>1 DEF Leads
  <1>2. CASE l # wiring.at[h]
    <2>1. PICK c \in mst : l \in c /\ \E k \in c \ {l} : wiring.at[h][1] \in Side(mst, k)
      BY <1>2 DEF Toward
    <2>2. PICK k \in c \ {l} : wiring.at[h][1] \in Side(mst, k)
      BY <2>1
    <2>3. Side(mst, k) = Reachable[mst \ {c}][k[1]]
      BY TreeNow, TreeCables DEF Side
    <2> QED
      BY <2>1, <2>2, <2>3 DEF Leads
  <1> QED
    BY <1>1, <1>2

LEMMA HomewardLeads == LearningInv => LearnedLeadsHome
  <1> SUFFICES ASSUME LearningInv, Settled, NEW s \in Switches, NEW h \in Hosts, forward[s][h] # None
               PROVE  Leads(s, forward[s][h], h)
    BY DEF LearnedLeadsHome
  <1>1. TypeOK /\ topology = wiring
    BY DEF LearningInv, Settled
  <1>2. Toward(topology, mst, <<s, forward[s][h]>>, h)
    BY DEF LearningInv, Settled, Trusted, Homeward
  <1> QED
    BY <1>1, <1>2, TowardLeads

(* What a switch of mac_learner has learned of a host is the way to it on flood's tree,
   in every network in which no two cables join the same switches, for as long as no
   packet from before the last change is handled. *)
THEOREM LearnedLeadsHomeHolds == ASSUME OneCable PROVE Spec => []LearnedLeadsHome
  BY LearningInvariant, HomewardLeads, PTL

LEMMA OnceFloods == LearningInv => FloodsOnce
  BY DEF LearningInv, Settled, FloodsOnce, Trusted, AtMostOnce

(* However floods and learned ports mix on a tree, no host gets a packet twice, and
   none gets one of its own back, where no two cables join the same switches. *)
THEOREM FloodsOnceHolds == ASSUME OneCable PROVE Spec => []FloodsOnce
  BY LearningInvariant, OnceFloods, PTL

LEMMA UnicastUnseen == LearningInv => SecondPingUnseen
  <1> SUFFICES ASSUME LearningInv, Settled, NEW j \in calm, NEW k \in calm,
                      sent[j].src = sent[k].dst, sent[j].dst = sent[k].src, j \in sent[k].before,
                      NEW h \in Hosts \ {sent[k].dst}
               PROVE  received[k][h] = 0
    BY DEF SecondPingUnseen
  <1>1. Answers(k)
    BY DEF Answers
  <1> QED
    BY <1>1 DEF LearningInv, Settled, Trusted, Unicast

(* A packet to a host that the sender has had one from is seen by its destination
   alone: every switch on its way had learned the host before it was sent.  Where no
   two cables join the same switches. *)
THEOREM SecondPingUnseenHolds == ASSUME OneCable PROVE Spec => []SecondPingUnseen
  BY LearningInvariant, UnicastUnseen, PTL
=============================================================================
