----------------------- MODULE ConcreteNetworkProofs -----------------------
(***************************************************************************)
(* Proofs about ConcreteNetwork, for any switches, ports, cables and       *)
(* number of operations: the debouncing of queue_update publishes every    *)
(* queued update, provided a timer thread copies and assigns within        *)
(* wait_period, and the policies are told of the topology assigned last.   *)
(*                                                                         *)
(* Then the handlers.  Lemmas about the graph say what each operation the  *)
(* handlers use does to the switches, the ports at their locations and the *)
(* edges.  Hence the types; that next_topo has exactly the switches and    *)
(* ports of the network once all messages are handled; and, while no port  *)
(* is cabled to a second switch, that the two records of every link agree  *)
(* and that no handler raises.                                             *)
(***************************************************************************)
EXTENDS ConcreteNetwork, FiniteSetTheorems, SequenceTheorems, TLAPS

\* k > 0 calls of get_update_no and queue_update leave a thread asleep that
\* holds the newest number.
LEMMA QueueSleeps ==
    ASSUME updateNo \in Nat, NEW k \in Nat, k > 0, Queue(k)
    PROVE  updateNo' \in Nat /\ updateNo' \in sleeping'
  BY DEF Queue

\* The number of updates port_down and port_up queue for a port that changed.
LEMMA SomeChange ==
    ASSUME NEW downs \in SUBSET {"config", "status"}, NEW ups,
           downs \cup ups # {}
    PROVE  /\ Cardinality(downs) + (IF ups = {} THEN 0 ELSE 1) \in Nat
           /\ Cardinality(downs) + (IF ups = {} THEN 0 ELSE 1) > 0
  <1>1. IsFiniteSet(downs)
    <2>1. IsFiniteSet({"config", "status"})
      <3>1. IsFiniteSet({} \cup {"config"})
        BY FS_EmptySet, FS_AddElement
      <3>2. IsFiniteSet(({} \cup {"config"}) \cup {"status"})
        BY <3>1, FS_AddElement
      <3>3. ({} \cup {"config"}) \cup {"status"} = {"config", "status"}
        OBVIOUS
      <3>. QED  BY <3>2, <3>3
    <2>. QED  BY <2>1, FS_Subset
  <1>2. Cardinality(downs) \in Nat /\ (Cardinality(downs) = 0 <=> downs = {})
    BY <1>1, FS_CardinalityType, FS_EmptySet
  <1>3. CASE ups = {}
    <2>1. downs # {}
      BY <1>3
    <2>2. Cardinality(downs) \in Nat /\ Cardinality(downs) # 0
      BY <1>2, <2>1
    <2>3. (IF ups = {} THEN 0 ELSE 1) = 0
      BY <1>3
    <2>. QED  BY <2>2, <2>3
  <1>4. CASE ups # {}
    BY <1>2, <1>4
  <1>. QED  BY <1>3, <1>4

\* What a handler may do to the debouncing: nothing, an edit that queues no
\* update, or an edit that leaves a sleeping thread with the newest number.
HandlerEffect ==
    /\ updateNo' \in Nat
    /\ UNCHANGED <<checked, copied, topology>>
    /\ \/ unqueued'
       \/ updateNo' \in sleeping'
       \/ UNCHANGED <<nextTopo, unqueued, updateNo, sleeping>>

LEMMA HandlerQueues ==
    ASSUME updateNo \in Nat, NEW s \in Switches, Handle(s)
    PROVE  HandlerEffect
  <1>. UNCHANGED <<checked, copied, topology>>
    BY DEF Handle, HandleSwitchJoin, HandleSwitchPart, HandlePortJoin,
           HandlePortPart, HandlePortMod, HandleLinkUpdate, Receive
  <1>1. CASE HandleSwitchJoin(s)
    BY <1>1 DEF HandleSwitchJoin, HandlerEffect
  <1>2. CASE HandleSwitchPart(s)
    <2>1. CASE Queue(1)
      BY <2>1, QueueSleeps DEF HandlerEffect
    <2>. QED  BY <1>2, <2>1 DEF HandleSwitchPart, Raise, HandlerEffect
  <1>3. CASE HandlePortJoin(s)
    <2>1. CASE Queue(1)
      BY <2>1, QueueSleeps DEF HandlerEffect
    <2>2. ~Queue(1) => updateNo' = updateNo + 1 /\ unqueued' = TRUE
      BY <1>3 DEF HandlePortJoin
    <2>. QED  BY <2>1, <2>2 DEF HandlerEffect
  <1>4. CASE HandlePortPart(s)
    <2>1. CASE Queue(1)
      BY <2>1, QueueSleeps DEF HandlerEffect
    <2>2. ~Queue(1) => Ignore
      BY <1>4 DEF HandlePortPart
    <2>. QED  BY <2>1, <2>2 DEF Ignore, HandlerEffect
  <1>5. CASE HandlePortMod(s)
    <2>1. CASE Ignore
      BY <2>1 DEF Ignore, HandlerEffect
    <2>2. CASE ~Ignore
      <3>1. PICK downs \in SUBSET {"config", "status"}, ups \in SUBSET {"config", "status"} :
                /\ downs \cup ups # {}
                /\ Queue(Cardinality(downs) + (IF ups = {} THEN 0 ELSE 1))
        BY <1>5, <2>2 DEF HandlePortMod
      <3>. QED  BY <3>1, SomeChange, QueueSleeps DEF HandlerEffect
    <2>. QED  BY <2>1, <2>2
  <1>6. CASE HandleLinkUpdate(s)
    <2>1. CASE Queue(1)
      BY <2>1, QueueSleeps DEF HandlerEffect
    <2>2. CASE Ignore
      BY <2>2 DEF Ignore, HandlerEffect
    <2>3. CASE Raise /\ UNCHANGED <<updateNo, unqueued>>
      BY <2>3 DEF Raise, HandlerEffect
    <2>4. Queue(1) \/ Ignore \/ (Raise /\ UNCHANGED <<updateNo, unqueued>>)
      BY <1>6 DEF HandleLinkUpdate
    <2>. QED  BY <2>1, <2>2, <2>3, <2>4
  <1>. QED  BY <1>1, <1>2, <1>3, <1>4, <1>5, <1>6 DEF Handle

----------------------------------------------------------------------------
LEMMA DebounceInit == Init => DebounceInv
  BY DEF Init, DebounceInv

\* The operator of the network touches none of what DebounceInv is about.
LEMMA NetworkStep ==
    ASSUME Operate \/ \E l \in probes : Discovery(l)
    PROVE  UNCHANGED <<nextTopo, updateNo, unqueued, timers>>
  BY DEF Operate, Plug, Unplug, SetAdmin, SwapPort, Connect, Disconnect,
         Operation, Discovery

LEMMA DebounceStep ==
    ASSUME Prompt, DebounceInv, [Next]_vars
    PROVE  DebounceInv'
  <1>1. CASE UNCHANGED vars
    BY <1>1 DEF vars, timers, DebounceInv
  <1>2. CASE Operate \/ \E l \in probes : Discovery(l)
    <2>1. UNCHANGED <<nextTopo, updateNo, unqueued, timers>>
      BY <1>2, NetworkStep
    <2>. QED  BY <2>1 DEF timers, DebounceInv
  <1>3. CASE \E s \in Switches : Handle(s)
    <2>1. HandlerEffect
      BY <1>3, HandlerQueues DEF DebounceInv
    <2>. QED  BY <2>1 DEF HandlerEffect, DebounceInv
  <1>4. ASSUME NEW n \in sleeping, Discard(n)  PROVE DebounceInv'
    BY <1>4 DEF Discard, Timer, DebounceInv
  <1>5. ASSUME NEW n \in sleeping, PassCheck(n)  PROVE DebounceInv'
    BY <1>5 DEF PassCheck, Timer, DebounceInv
  <1>6. ASSUME NEW n \in checked, CopyTopo(n)  PROVE DebounceInv'
    <2>1. checked' = {} /\ copied' = {[no |-> n, topo |-> nextTopo]}
      BY <1>6 DEF CopyTopo, DebounceInv
    <2>2. \E c \in copied' : c.topo = nextTopo'
      <3>1. [no |-> n, topo |-> nextTopo].topo = nextTopo
        OBVIOUS
      <3>2. nextTopo' = nextTopo
        BY <1>6 DEF CopyTopo, Timer
      <3>. QED  BY <2>1, <3>1, <3>2
    <2>3. \A c, d \in copied' : c = d
      BY <2>1
    <2>. QED  BY <1>6, <2>1, <2>2, <2>3 DEF CopyTopo, Timer, DebounceInv
  <1>7. ASSUME NEW c \in copied, Assign(c)  PROVE DebounceInv'
    <2>1. copied' = {} /\ checked = {} /\ topology' = c.topo
      BY <1>7 DEF Assign, DebounceInv
    <2>. QED  BY <1>7, <2>1 DEF Assign, Timer, DebounceInv
  <1>8. ASSUME NEW n \in notifying, Notify(n)  PROVE DebounceInv'
    BY <1>8 DEF Notify, Timer, DebounceInv
  <1>. QED
    BY <1>1, <1>2, <1>3, <1>4, <1>5, <1>6, <1>7, <1>8
       DEF Next, DiscoveryNext, TimerStep

\* Why debouncing works, for every network and every history.
THEOREM DebounceInvariance == Prompt => (Spec => []DebounceInv)
  <1>. SUFFICES ASSUME Prompt PROVE Spec => []DebounceInv
    OBVIOUS
  <1>1. Init => DebounceInv
    BY DebounceInit
  <1>2. DebounceInv /\ [Next]_vars => DebounceInv'
    BY DebounceStep
  <1>. QED  BY <1>1, <1>2, PTL DEF Spec

\* Once no timer thread is at work, topology is next_topo unless the last
\* edit, or the last number taken, queued no update (queue_update, f).
THEOREM Published == Prompt => (Spec => []PublishedUnlessUnqueued)
  <1>1. DebounceInv => PublishedUnlessUnqueued
    BY DEF DebounceInv, PublishedUnlessUnqueued, NoTimer
  <1>. QED  BY <1>1, DebounceInvariance, PTL

----------------------------------------------------------------------------
\* However the calls of handle_network_change overlap with the assignments,
\* with or without Prompt, the policies end with the topology assigned last.
THEOREM SeenInvariance == Spec => []SeenIsPublished
  <1>1. Init => SeenIsPublished
    BY DEF Init, SeenIsPublished
  <1>2. SeenIsPublished /\ [Next]_vars => SeenIsPublished'
    <2>. SUFFICES ASSUME SeenIsPublished, [Next]_vars  PROVE SeenIsPublished'
      OBVIOUS
    <2>1. CASE UNCHANGED <<notifying, topology, seen>>
      BY <2>1 DEF SeenIsPublished
    <2>2. ASSUME NEW c \in copied, Assign(c)  PROVE SeenIsPublished'
      BY <2>2 DEF Assign, SeenIsPublished
    <2>3. ASSUME NEW n \in notifying, Notify(n)  PROVE SeenIsPublished'
      BY <2>3 DEF Notify, SeenIsPublished
    <2>4. CASE UNCHANGED vars
      BY <2>4, <2>1 DEF vars, timers
    <2>5. CASE Operate \/ \E l \in probes : Discovery(l)
      BY <2>5, <2>1, NetworkStep DEF timers
    <2>6. CASE \E s \in Switches : Handle(s)
      BY <2>6, <2>1 DEF Handle, HandleSwitchJoin, HandleSwitchPart, HandlePortJoin,
            HandlePortPart, HandlePortMod, HandleLinkUpdate, Receive
    <2>7. CASE TimerStep
      BY <2>1, <2>2, <2>3, <2>7 DEF TimerStep, Discard, PassCheck, CopyTopo
    <2>. QED  BY <2>4, <2>5, <2>6, <2>7 DEF Next, DiscoveryNext
  <1>. QED  BY <1>1, <1>2, PTL DEF Spec

-----------------------------------------------------------------------------
(* The graph.                                                               *)

Peer(t, l) == PortAt(t, l).linked_to

LEMMA LocationParts ==
    ASSUME NEW l \in Locations
    PROVE  l[1] \in Switches /\ l[2] \in PortNos /\ l = <<l[1], l[2]>> /\ l # NoLoc
BY DEF Locations, NoLoc

LEMMA LocationsEqual ==
    ASSUME NEW l \in Locations, NEW m \in Locations, l[1] = m[1], l[2] = m[2]
    PROVE  l = m
BY LocationParts

LEMMA EdgeFacts ==
    ASSUME NEW l \in Locations, NEW m \in Locations, l[1] # m[1]
    PROVE  /\ DOMAIN EdgeOf(l, m) = {l[1], m[1]}
           /\ EdgeOf(l, m)[l[1]] = l[2] /\ EdgeOf(l, m)[m[1]] = m[2]
           /\ EdgeOf(l, m) = EdgeOf(m, l)
BY DEF EdgeOf

\* An edge says which two locations it joins.
LEMMA EdgeEnds ==
    ASSUME NEW l \in Locations, NEW m \in Locations, l[1] # m[1],
           NEW j \in Locations, NEW k \in Locations, j[1] # k[1],
           EdgeOf(l, m) = EdgeOf(j, k)
    PROVE  (l = j /\ m = k) \/ (l = k /\ m = j)
<1>1. /\ DOMAIN EdgeOf(l, m) = {l[1], m[1]}
      /\ EdgeOf(l, m)[l[1]] = l[2] /\ EdgeOf(l, m)[m[1]] = m[2]
  BY EdgeFacts
<1>2. /\ DOMAIN EdgeOf(j, k) = {j[1], k[1]}
      /\ EdgeOf(j, k)[j[1]] = j[2] /\ EdgeOf(j, k)[k[1]] = k[2]
  BY EdgeFacts
<1>3. CASE l[1] = j[1] /\ m[1] = k[1]
  <2>1. l[2] = j[2] /\ m[2] = k[2]
    BY <1>1, <1>2, <1>3
  <2> QED
    BY <1>3, <2>1, LocationsEqual
<1>4. CASE l[1] = k[1] /\ m[1] = j[1]
  <2>1. l[2] = k[2] /\ m[2] = j[2]
    BY <1>1, <1>2, <1>4
  <2> QED
    BY <1>4, <2>1, LocationsEqual
<1> QED
  BY <1>1, <1>2, <1>3, <1>4

\* What the graph operations do to switches, ports and edges.
LEMMA SetPortEffect ==
    ASSUME NEW t, DOMAIN t = {"ports", "edges"}, NEW loc \in Locations,
           loc[1] \in DOMAIN t.ports, NEW port
    PROVE  LET u == SetPort(t, loc, port) IN
           /\ DOMAIN u = {"ports", "edges"} /\ u.edges = t.edges
           /\ DOMAIN u.ports = DOMAIN t.ports
           /\ \A s \in DOMAIN t.ports :
                DOMAIN u.ports[s] = DOMAIN t.ports[s] \cup (IF s = loc[1] THEN {loc[2]} ELSE {})
           /\ \A l \in Locations :
                /\ HasPort(u, l) <=> HasPort(t, l) \/ l = loc
                /\ HasPort(u, l) => PortAt(u, l) = IF l = loc THEN port ELSE PortAt(t, l)
<1> DEFINE u == SetPort(t, loc, port)
           F == [p \in DOMAIN t.ports[loc[1]] \cup {loc[2]} |->
                    IF p = loc[2] THEN port ELSE t.ports[loc[1]][p]]
<1>1. u = [t EXCEPT !.ports = [t.ports EXCEPT ![loc[1]] = F]]
  BY DEF SetPort
<1>2. DOMAIN u = {"ports", "edges"} /\ u.edges = t.edges
      /\ u.ports = [t.ports EXCEPT ![loc[1]] = F]
  BY <1>1
<1> HIDE DEF u
<1>3. DOMAIN u.ports = DOMAIN t.ports
      /\ \A s \in DOMAIN t.ports : u.ports[s] = IF s = loc[1] THEN F ELSE t.ports[s]
  BY <1>2
<1>4. DOMAIN F = DOMAIN t.ports[loc[1]] \cup {loc[2]}
      /\ \A p \in DOMAIN F : F[p] = IF p = loc[2] THEN port ELSE t.ports[loc[1]][p]
  OBVIOUS
<1> HIDE DEF F
<1>5. \A s \in DOMAIN t.ports :
        DOMAIN u.ports[s] = DOMAIN t.ports[s] \cup (IF s = loc[1] THEN {loc[2]} ELSE {})
  BY <1>3, <1>4
<1>6. \A l \in Locations :
         /\ HasPort(u, l) <=> HasPort(t, l) \/ l = loc
         /\ HasPort(u, l) => PortAt(u, l) = IF l = loc THEN port ELSE PortAt(t, l)
  <2> SUFFICES ASSUME NEW l \in Locations
               PROVE  /\ HasPort(u, l) <=> HasPort(t, l) \/ l = loc
                      /\ HasPort(u, l) => PortAt(u, l) = IF l = loc THEN port ELSE PortAt(t, l)
    OBVIOUS
  <2>1. l[1] = loc[1] /\ l[2] = loc[2] <=> l = loc
    BY LocationsEqual
  <2>2. CASE l[1] = loc[1]
    BY <1>3, <1>4, <2>1, <2>2 DEF HasPort, PortAt
  <2>3. CASE l[1] # loc[1]
    BY <1>3, <2>1, <2>3 DEF HasPort, PortAt
  <2> QED
    BY <2>2, <2>3
<1> QED
  BY <1>2, <1>3, <1>5, <1>6 DEF u

LEMMA RemoveEdgeEffect ==
    ASSUME NEW t, DOMAIN t = {"ports", "edges"}, NEW s1, NEW s2
    PROVE  LET u == RemoveEdge(t, s1, s2) IN
           /\ DOMAIN u = {"ports", "edges"} /\ u.ports = t.ports
           /\ u.edges = {e \in t.edges : DOMAIN e # {s1, s2}}
BY DEF RemoveEdge

\* Two topologies with the same switches and ports, in the same state.
SameFrame(t, u) ==
    /\ DOMAIN u = {"ports", "edges"}
    /\ DOMAIN u.ports = DOMAIN t.ports
    /\ \A s \in DOMAIN t.ports : DOMAIN u.ports[s] = DOMAIN t.ports[s]
    /\ \A l \in Locations : HasPort(t, l) =>
        /\ PortAt(u, l) \in Ports
        /\ PortAt(u, l).config = PortAt(t, l).config
        /\ PortAt(u, l).status = PortAt(t, l).status

LEMMA HasPortDomain ==
    ASSUME NEW t, NEW u, DOMAIN u.ports = DOMAIN t.ports,
           \A s \in DOMAIN t.ports : DOMAIN u.ports[s] = DOMAIN t.ports[s],
           NEW l
    PROVE  HasPort(u, l) <=> HasPort(t, l)
BY DEF HasPort

LEMMA FrameTrans ==
    ASSUME NEW t, NEW u, NEW v, SameFrame(t, u), SameFrame(u, v)
    PROVE  SameFrame(t, v)
<1>1. \A l \in Locations : HasPort(u, l) <=> HasPort(t, l)
  BY HasPortDomain DEF SameFrame
<1> QED
  BY <1>1 DEF SameFrame

LEMMA FrameRefl ==
    ASSUME NEW t, IsTopology(t)
    PROVE  SameFrame(t, t)
<1>1. \A l \in Locations : HasPort(t, l) => PortAt(t, l) \in Ports
  BY DEF IsTopology, HasPort, PortAt
<1> QED
  BY <1>1 DEF SameFrame, IsTopology

\* A topology with the frame of a topology, and no new edges.
LEMMA FrameTopology ==
    ASSUME NEW t, IsTopology(t), NEW u, SameFrame(t, u),
           u.edges \subseteq {EdgeOf(l, m) : l \in Locations, m \in Locations}
    PROVE  IsTopology(u)
<1>1. \A s \in DOMAIN u.ports : DOMAIN u.ports[s] \subseteq PortNos /\ s \in Switches
  BY DEF IsTopology, SameFrame
<1>2. ASSUME NEW s \in DOMAIN u.ports, NEW p \in DOMAIN u.ports[s]
      PROVE  u.ports[s][p] \in Ports
  <2>1. <<s, p>> \in Locations
    BY <1>1 DEF Locations
  <2>2. HasPort(t, <<s, p>>)
    BY <1>2 DEF SameFrame, HasPort
  <2>3. PortAt(u, <<s, p>>) = u.ports[s][p]
    BY DEF PortAt
  <2> QED
    BY <2>1, <2>2, <2>3 DEF SameFrame
<1> QED
  BY <1>1, <1>2 DEF IsTopology, SameFrame

LEMMA SetLinkEffect ==
    ASSUME NEW t, IsTopology(t), NEW loc \in Locations, HasPort(t, loc),
           NEW peer \in Locations \cup {NoLoc}
    PROVE  LET u == SetLink(t, loc, peer) IN
           /\ SameFrame(t, u) /\ IsTopology(u) /\ u.edges = t.edges
           /\ Peer(u, loc) = peer
           /\ \A l \in Locations \ {loc} : HasPort(t, l) => Peer(u, l) = Peer(t, l)
<1> DEFINE port == [PortAt(t, loc) EXCEPT !.linked_to = peer]
           u == SetPort(t, loc, port)
<1>1. \A l \in Locations : HasPort(t, l) => PortAt(t, l) \in Ports
  BY DEF IsTopology, HasPort, PortAt
<1>2. /\ port \in Ports /\ port.linked_to = peer
      /\ port.config = PortAt(t, loc).config /\ port.status = PortAt(t, loc).status
  BY <1>1 DEF Ports
<1>3. loc[1] \in DOMAIN t.ports /\ loc[2] \in DOMAIN t.ports[loc[1]] /\ DOMAIN t = {"ports", "edges"}
  BY DEF HasPort, IsTopology
<1> HIDE DEF port
<1>4. /\ DOMAIN u = {"ports", "edges"} /\ u.edges = t.edges
      /\ DOMAIN u.ports = DOMAIN t.ports
      /\ \A s \in DOMAIN t.ports :
           DOMAIN u.ports[s] = DOMAIN t.ports[s] \cup (IF s = loc[1] THEN {loc[2]} ELSE {})
      /\ \A l \in Locations :
           /\ HasPort(u, l) <=> HasPort(t, l) \/ l = loc
           /\ HasPort(u, l) => PortAt(u, l) = IF l = loc THEN port ELSE PortAt(t, l)
  BY <1>3, SetPortEffect
<1> HIDE DEF u
<1>5. SameFrame(t, u)
  BY <1>1, <1>2, <1>3, <1>4 DEF SameFrame
<1>6. IsTopology(u)
  BY <1>4, <1>5, FrameTopology DEF IsTopology
<1>7. Peer(u, loc) = peer /\ \A l \in Locations \ {loc} : HasPort(t, l) => Peer(u, l) = Peer(t, l)
  BY <1>2, <1>4 DEF Peer
<1>8. u = SetLink(t, loc, peer)
  BY DEF SetLink, u, port
<1> QED
  BY <1>4, <1>5, <1>6, <1>7, <1>8

\* remove_associated_link unlinks the port and its peer and drops the edges
\* between their switches; nothing else of the topology changes.
LEMMA UnlinkEffect ==
    ASSUME NEW t, IsTopology(t), NEW loc \in Locations, HasPort(t, loc)
    PROVE  LET u == RemoveAssociatedLink(t, loc)
               peer == Peer(t, loc)
           IN
           /\ SameFrame(t, u) /\ IsTopology(u)
           /\ u.edges = IF peer = NoLoc THEN t.edges
                        ELSE {e \in t.edges : DOMAIN e # {loc[1], peer[1]}}
           /\ \A l \in Locations : HasPort(t, l) =>
                Peer(u, l) = IF peer # NoLoc /\ l \in {loc, peer} THEN NoLoc ELSE Peer(t, l)
<1> DEFINE peer == Peer(t, loc)
           u == RemoveAssociatedLink(t, loc)
<1>1. CASE peer = NoLoc
  <2>1. u = t
    BY <1>1 DEF RemoveAssociatedLink, Peer
  <2> HIDE DEF u
  <2>2. SameFrame(t, t)
    BY FrameRefl
  <2> QED
    BY <1>1, <2>1, <2>2 DEF u
<1>2. CASE peer # NoLoc
  <2> DEFINE cut == RemoveEdge(t, loc[1], peer[1])
             half == IF HasPort(t, peer) THEN SetLink(cut, peer, NoLoc) ELSE cut
             full == SetLink(half, loc, NoLoc)
  <2>1. peer \in Locations
    BY <1>2 DEF IsTopology, HasPort, Peer, PortAt, Ports
  <2>2. u = full
    BY <1>2 DEF RemoveAssociatedLink, Peer
  <2> HIDE DEF peer
  <2>3. DOMAIN cut = {"ports", "edges"} /\ cut.ports = t.ports
        /\ cut.edges = {e \in t.edges : DOMAIN e # {loc[1], peer[1]}}
    BY DEF RemoveEdge, IsTopology
  <2> HIDE DEF cut
  <2>4. \A l : /\ HasPort(cut, l) <=> HasPort(t, l)
               /\ PortAt(cut, l) = PortAt(t, l) /\ Peer(cut, l) = Peer(t, l)
    BY <2>3 DEF HasPort, PortAt, Peer
  <2>5. IsTopology(cut) /\ SameFrame(t, cut)
    <3>1. SameFrame(t, t)
      BY FrameRefl
    <3>2. SameFrame(t, cut)
      BY <2>3, <2>4, <3>1 DEF SameFrame
    <3> QED
      BY <2>3, <3>2, FrameTopology DEF IsTopology
  <2>6. /\ SameFrame(cut, half) /\ IsTopology(half) /\ half.edges = cut.edges
        /\ \A l \in Locations : HasPort(t, l) =>
              Peer(half, l) = IF l = peer THEN NoLoc ELSE Peer(t, l)
    <3>1. CASE HasPort(t, peer)
      <4>1. half = SetLink(cut, peer, NoLoc)
        BY <3>1
      <4> HIDE DEF half
      <4>2. HasPort(cut, peer)
        BY <2>4, <3>1
      <4> QED
        BY <2>1, <2>4, <2>5, <4>1, <4>2, SetLinkEffect
    <3>2. CASE ~HasPort(t, peer)
      <4>1. half = cut
        BY <3>2
      <4> HIDE DEF half
      <4>2. SameFrame(cut, cut)
        BY <2>5, FrameRefl
      <4> QED
        BY <2>4, <2>5, <3>2, <4>1, <4>2
    <3> QED
      BY <3>1, <3>2
  <2> HIDE DEF half
  <2>7. \A l \in Locations : HasPort(half, l) <=> HasPort(t, l)
    BY <2>4, <2>6, HasPortDomain DEF SameFrame
  <2>8. /\ SameFrame(half, full) /\ IsTopology(full) /\ full.edges = half.edges
        /\ Peer(full, loc) = NoLoc
        /\ \A l \in Locations \ {loc} : HasPort(half, l) => Peer(full, l) = Peer(half, l)
    BY <2>6, <2>7, SetLinkEffect
  <2> HIDE DEF full, u
  <2>9. SameFrame(t, full)
    BY <2>5, <2>6, <2>8, FrameTrans
  <2>10. \A l \in Locations : HasPort(t, l) =>
            Peer(full, l) = IF l \in {loc, peer} THEN NoLoc ELSE Peer(t, l)
    BY <2>6, <2>7, <2>8
  <2> QED
    BY <1>2, <2>2, <2>3, <2>6, <2>8, <2>9, <2>10 DEF u, peer
<1> QED
  BY <1>1, <1>2

\* The two records of a link, and the cable it was reported on.
Links(t) ==
    /\ \A l \in Locations : HasPort(t, l) /\ Peer(t, l) # NoLoc =>
            {l, Peer(t, l)} \in Cables /\ EdgeOf(l, Peer(t, l)) \in t.edges
    /\ \A e \in t.edges : \E l, m \in Locations : {l, m} \in Cables /\ e = EdgeOf(l, m)
    /\ \A l, m \in Locations : l[1] # m[1] /\ EdgeOf(l, m) \in t.edges =>
            HasPort(t, l) /\ Peer(t, l) = m
    /\ \A e, f \in t.edges : DOMAIN e = DOMAIN f => e = f

LEMMA CableEnds ==
    ASSUME NEW l, NEW m, {l, m} \in Cables
    PROVE  l \in Locations /\ m \in Locations /\ l[1] # m[1]
<1>1. PICK j \in Locations, k \in Locations : {l, m} = {j, k} /\ j[1] # k[1]
  BY CablesAssumption
<1>2. (l = j /\ m = k) \/ (l = k /\ m = j)
  BY <1>1
<1> QED
  BY <1>1, <1>2

LEMMA PeerEnds ==
    ASSUME NEW t, Links(t), NEW l \in Locations, HasPort(t, l), Peer(t, l) # NoLoc
    PROVE  /\ Peer(t, l) \in Locations /\ l[1] # Peer(t, l)[1]
           /\ {l, Peer(t, l)} \in Cables /\ EdgeOf(l, Peer(t, l)) \in t.edges
           /\ HasPort(t, Peer(t, l)) /\ Peer(t, Peer(t, l)) = l
<1>1. {l, Peer(t, l)} \in Cables /\ EdgeOf(l, Peer(t, l)) \in t.edges
  BY DEF Links
<1>2. Peer(t, l) \in Locations /\ l[1] # Peer(t, l)[1]
  BY <1>1, CableEnds
<1>3. EdgeOf(Peer(t, l), l) \in t.edges
  BY <1>1, <1>2, EdgeFacts
<1> QED
  BY <1>1, <1>2, <1>3 DEF Links

\* remove_associated_link leaves a topology whose links agree.
LEMMA Unlink ==
    ASSUME NEW t, IsTopology(t), Links(t), NEW loc \in Locations, HasPort(t, loc)
    PROVE  LET u == RemoveAssociatedLink(t, loc) IN
           /\ SameFrame(t, u) /\ IsTopology(u) /\ Links(u) /\ Peer(u, loc) = NoLoc
           /\ \A l \in Locations : HasPort(t, l) => Peer(u, l) \in {Peer(t, l), NoLoc}
           /\ u.edges \subseteq t.edges
           /\ \A e \in t.edges : e \in u.edges <=>
                (\A m \in Locations : loc[1] # m[1] => e # EdgeOf(loc, m))
<1> DEFINE peer == Peer(t, loc)
           u == RemoveAssociatedLink(t, loc)
<1>1. /\ SameFrame(t, u) /\ IsTopology(u)
      /\ u.edges = IF peer = NoLoc THEN t.edges
                   ELSE {e \in t.edges : DOMAIN e # {loc[1], peer[1]}}
      /\ \A l \in Locations : HasPort(t, l) =>
           Peer(u, l) = IF peer # NoLoc /\ l \in {loc, peer} THEN NoLoc ELSE Peer(t, l)
  BY UnlinkEffect
<1> HIDE DEF u
<1>2. \A l \in Locations : HasPort(u, l) <=> HasPort(t, l)
  BY <1>1, HasPortDomain DEF SameFrame
<1>3. CASE peer = NoLoc
  <2>1. u.edges = t.edges /\ \A l \in Locations : HasPort(t, l) => Peer(u, l) = Peer(t, l)
    BY <1>1, <1>3
  <2>2. Links(u)
    BY <1>2, <2>1 DEF Links
  <2>3. ASSUME NEW m \in Locations, loc[1] # m[1]
        PROVE  EdgeOf(loc, m) \notin t.edges
    BY <1>3, <2>3, LocationParts DEF Links
  <2> QED
    BY <1>1, <1>3, <2>1, <2>2, <2>3 DEF u
<1>4. CASE peer # NoLoc
  <2>1. /\ peer \in Locations /\ loc[1] # peer[1] /\ HasPort(t, peer)
        /\ EdgeOf(loc, peer) \in t.edges /\ Peer(t, peer) = loc
    BY <1>4, PeerEnds
  <2>2. \A l \in Locations : HasPort(t, l) =>
            Peer(u, l) = IF l \in {loc, peer} THEN NoLoc ELSE Peer(t, l)
    BY <1>1, <1>4
  <2>3. u.edges = t.edges \ {EdgeOf(loc, peer)}
    <3>1. DOMAIN EdgeOf(loc, peer) = {loc[1], peer[1]}
      BY <2>1, EdgeFacts
    <3>2. \A e \in t.edges : DOMAIN e = {loc[1], peer[1]} <=> e = EdgeOf(loc, peer)
      BY <2>1, <3>1 DEF Links
    <3> QED
      BY <1>1, <1>4, <3>2
  <2>4. ASSUME NEW l \in Locations, HasPort(u, l), Peer(u, l) # NoLoc
        PROVE  {l, Peer(u, l)} \in Cables /\ EdgeOf(l, Peer(u, l)) \in u.edges
    <3>1. l \notin {loc, peer} /\ Peer(u, l) = Peer(t, l) /\ HasPort(t, l)
      BY <1>2, <2>2, <2>4
    <3>2. /\ Peer(t, l) \in Locations /\ l[1] # Peer(t, l)[1]
          /\ {l, Peer(t, l)} \in Cables /\ EdgeOf(l, Peer(t, l)) \in t.edges
      BY <2>4, <3>1, PeerEnds
    <3>3. EdgeOf(l, Peer(t, l)) # EdgeOf(loc, peer)
      BY <2>1, <3>1, <3>2, EdgeEnds
    <3> QED
      BY <2>3, <3>1, <3>2, <3>3
  <2>5. ASSUME NEW l \in Locations, NEW m \in Locations, l[1] # m[1], EdgeOf(l, m) \in u.edges
        PROVE  HasPort(u, l) /\ Peer(u, l) = m
    <3>1. HasPort(t, l) /\ Peer(t, l) = m /\ EdgeOf(l, m) # EdgeOf(loc, peer)
      BY <2>3, <2>5 DEF Links
    <3>2. l # loc
      BY <3>1 DEF peer
    <3>3. EdgeOf(peer, loc) = EdgeOf(loc, peer)
      BY <2>1, EdgeFacts
    <3>4. l # peer
      BY <2>1, <3>1, <3>3
    <3> QED
      BY <1>2, <2>2, <3>1, <3>2, <3>4
  <2>6. Links(u)
    <3>1. \A e \in u.edges : \E l, m \in Locations : {l, m} \in Cables /\ e = EdgeOf(l, m)
      BY <2>3 DEF Links
    <3>2. \A e, f \in u.edges : DOMAIN e = DOMAIN f => e = f
      BY <2>3 DEF Links
    <3> QED
      BY <2>4, <2>5, <3>1, <3>2 DEF Links
  <2>7. \A e \in t.edges : e \in u.edges <=>
           (\A m \in Locations : loc[1] # m[1] => e # EdgeOf(loc, m))
    <3>1. ASSUME NEW m \in Locations, loc[1] # m[1], EdgeOf(loc, m) \in t.edges
          PROVE  m = peer
      BY <3>1 DEF Links
    <3> QED
      BY <2>1, <2>3, <3>1
  <2> QED
    BY <1>1, <1>4, <2>2, <2>6, <2>7 DEF u
<1> QED
  BY <1>3, <1>4

\* A topology whose linked ports and edges are those of t.
LEMMA LinksSame ==
    ASSUME NEW t, Links(t), NEW u, IsTopology(u), u.edges = t.edges,
           \A l, m \in Locations : (HasPort(u, l) /\ Peer(u, l) = m)
                                        <=> (HasPort(t, l) /\ Peer(t, l) = m)
    PROVE  Links(u)
<1>1. ASSUME NEW l \in Locations, HasPort(u, l), Peer(u, l) # NoLoc
      PROVE  {l, Peer(u, l)} \in Cables /\ EdgeOf(l, Peer(u, l)) \in u.edges
  <2>1. Peer(u, l) \in Locations
    BY <1>1 DEF IsTopology, HasPort, Peer, PortAt, Ports
  <2>2. HasPort(t, l) /\ Peer(t, l) = Peer(u, l)
    BY <1>1, <2>1
  <2> QED
    BY <1>1, <2>2 DEF Links
<1> QED
  BY <1>1 DEF Links

LEMMA SetPortTopology ==
    ASSUME NEW t, IsTopology(t), NEW loc \in Locations, loc[1] \in DOMAIN t.ports,
           NEW port \in Ports
    PROVE  IsTopology(SetPort(t, loc, port))
<1> DEFINE u == SetPort(t, loc, port)
<1>1. /\ DOMAIN u = {"ports", "edges"} /\ u.edges = t.edges
      /\ DOMAIN u.ports = DOMAIN t.ports
      /\ \A s \in DOMAIN t.ports :
           DOMAIN u.ports[s] = DOMAIN t.ports[s] \cup (IF s = loc[1] THEN {loc[2]} ELSE {})
      /\ \A l \in Locations :
           /\ HasPort(u, l) <=> HasPort(t, l) \/ l = loc
           /\ HasPort(u, l) => PortAt(u, l) = IF l = loc THEN port ELSE PortAt(t, l)
  BY SetPortEffect DEF IsTopology
<1> HIDE DEF u
<1>2. \A s \in DOMAIN u.ports : s \in Switches /\ DOMAIN u.ports[s] \subseteq PortNos
  BY <1>1, LocationParts DEF IsTopology
<1>3. ASSUME NEW s \in DOMAIN u.ports, NEW p \in DOMAIN u.ports[s]
      PROVE  u.ports[s][p] \in Ports
  <2>1. <<s, p>> \in Locations /\ HasPort(u, <<s, p>>) /\ PortAt(u, <<s, p>>) = u.ports[s][p]
    BY <1>2 DEF Locations, HasPort, PortAt
  <2>2. <<s, p>> # loc => PortAt(t, <<s, p>>) \in Ports
    BY <1>1, <2>1 DEF IsTopology, HasPort, PortAt
  <2> QED
    BY <1>1, <2>1, <2>2
<1> QED
  BY <1>1, <1>2, <1>3 DEF IsTopology, u

\* handle_switch_join: the switch is there, without ports.
LEMMA SwitchAdded ==
    ASSUME NEW t, IsTopology(t), NEW s \in Switches
    PROVE  LET u == [t EXCEPT !.ports =
                        [r \in DOMAIN @ \cup {s} |-> IF r = s THEN <<>> ELSE @[r]]]
           IN
           /\ IsTopology(u) /\ u.edges = t.edges
           /\ DOMAIN u.ports = DOMAIN t.ports \cup {s}
           /\ \A l \in Locations :
                /\ HasPort(u, l) <=> HasPort(t, l) /\ l[1] # s
                /\ HasPort(u, l) => PortAt(u, l) = PortAt(t, l)
<1> DEFINE F == [r \in DOMAIN t.ports \cup {s} |-> IF r = s THEN <<>> ELSE t.ports[r]]
           u == [t EXCEPT !.ports = F]
<1>1. DOMAIN F = DOMAIN t.ports \cup {s}
      /\ F[s] = <<>> /\ \A r \in DOMAIN t.ports \ {s} : F[r] = t.ports[r]
  OBVIOUS
<1> HIDE DEF F
<1>2. DOMAIN u = {"ports", "edges"} /\ u.edges = t.edges /\ u.ports = F
  BY DEF IsTopology
<1> HIDE DEF u
<1>3. DOMAIN (<<>>) = {}
  OBVIOUS
<1>4. IsTopology(u)
  BY <1>1, <1>2, <1>3 DEF IsTopology
<1>5. \A l \in Locations :
          /\ HasPort(u, l) <=> HasPort(t, l) /\ l[1] # s
          /\ HasPort(u, l) => PortAt(u, l) = PortAt(t, l)
  BY <1>1, <1>2, <1>3 DEF HasPort, PortAt
<1> QED
  BY <1>1, <1>2, <1>4, <1>5 DEF u, F

\* handle_switch_part: the switch and its edges are gone, and the ports that
\* were linked to it are not linked any more.
LEMMA SwitchRemoved ==
    ASSUME NEW t, IsTopology(t), NEW s \in Switches, s \in DOMAIN t.ports
    PROVE  LET u == RemoveSwitch(t, s) IN
           /\ IsTopology(u) /\ u.edges = {e \in t.edges : s \notin DOMAIN e}
           /\ DOMAIN u.ports = DOMAIN t.ports \ {s}
           /\ \A l \in Locations :
                /\ HasPort(u, l) <=> HasPort(t, l) /\ l[1] # s
                /\ HasPort(u, l) => PortAt(u, l) =
                     IF \E m \in Locations : m[1] = s /\ HasPort(t, m) /\ Peer(t, m) = l
                     THEN [PortAt(t, l) EXCEPT !.linked_to = NoLoc] ELSE PortAt(t, l)
<1> DEFINE peers == {PortAt(t, <<s, p>>).linked_to : p \in DOMAIN t.ports[s]}
           F == [r \in DOMAIN t.ports \ {s} |->
                    [p \in DOMAIN t.ports[r] |->
                        IF <<r, p>> \in peers
                        THEN [t.ports[r][p] EXCEPT !.linked_to = NoLoc]
                        ELSE t.ports[r][p]]]
           u == RemoveSwitch(t, s)
<1>1. \A l \in Locations : l \in peers <=>
          \E m \in Locations : m[1] = s /\ HasPort(t, m) /\ Peer(t, m) = l
  <2> SUFFICES ASSUME NEW l \in Locations
               PROVE  l \in peers <=>
                        \E m \in Locations : m[1] = s /\ HasPort(t, m) /\ Peer(t, m) = l
    OBVIOUS
  <2>1. ASSUME NEW p \in DOMAIN t.ports[s], l = PortAt(t, <<s, p>>).linked_to
        PROVE  \E m \in Locations : m[1] = s /\ HasPort(t, m) /\ Peer(t, m) = l
    <3>1. <<s, p>> \in Locations
      BY <2>1 DEF Locations, IsTopology
    <3> QED
      BY <2>1, <3>1 DEF HasPort, Peer
  <2>2. ASSUME NEW m \in Locations, m[1] = s, HasPort(t, m), Peer(t, m) = l
        PROVE  \E p \in DOMAIN t.ports[s] : l = PortAt(t, <<s, p>>).linked_to
    <3>1. m = <<s, m[2]>>
      BY <2>2, LocationParts
    <3> QED
      BY <2>2, <3>1 DEF HasPort, Peer
  <2> QED
    BY <2>1, <2>2
<1> HIDE DEF peers
<1>2. DOMAIN F = DOMAIN t.ports \ {s}
      /\ \A r \in DOMAIN F : /\ DOMAIN F[r] = DOMAIN t.ports[r]
                             /\ \A p \in DOMAIN t.ports[r] : F[r][p] =
                                  IF <<r, p>> \in peers
                                  THEN [t.ports[r][p] EXCEPT !.linked_to = NoLoc]
                                  ELSE t.ports[r][p]
  OBVIOUS
<1>3. u = [ports |-> F, edges |-> {e \in t.edges : s \notin DOMAIN e}]
  BY DEF RemoveSwitch, peers
<1> HIDE DEF F
<1>4. DOMAIN u = {"ports", "edges"} /\ u.ports = F
      /\ u.edges = {e \in t.edges : s \notin DOMAIN e}
  BY <1>3
<1> HIDE DEF u
<1>5. \A l \in Locations :
         /\ HasPort(u, l) <=> HasPort(t, l) /\ l[1] # s
         /\ HasPort(u, l) => PortAt(u, l) =
              IF l \in peers
              THEN [PortAt(t, l) EXCEPT !.linked_to = NoLoc] ELSE PortAt(t, l)
  <2> SUFFICES ASSUME NEW l \in Locations
               PROVE  /\ HasPort(u, l) <=> HasPort(t, l) /\ l[1] # s
                      /\ HasPort(u, l) => PortAt(u, l) =
                           IF l \in peers
                           THEN [PortAt(t, l) EXCEPT !.linked_to = NoLoc] ELSE PortAt(t, l)
    OBVIOUS
  <2>1. l = <<l[1], l[2]>>
    BY LocationParts
  <2> QED
    BY <1>2, <1>4, <2>1 DEF HasPort, PortAt
<1>6. IsTopology(u)
  <2>1. \A r \in DOMAIN u.ports : \A p \in DOMAIN u.ports[r] :
           [t.ports[r][p] EXCEPT !.linked_to = NoLoc] \in Ports /\ t.ports[r][p] \in Ports
    BY <1>2, <1>4 DEF IsTopology, Ports
  <2>2. \A r \in DOMAIN u.ports : \A p \in DOMAIN u.ports[r] : u.ports[r][p] \in Ports
    BY <1>2, <1>4, <2>1
  <2>3. \A r \in DOMAIN u.ports : r \in Switches /\ DOMAIN u.ports[r] \subseteq PortNos
    BY <1>2, <1>4 DEF IsTopology
  <2> QED
    BY <1>4, <2>2, <2>3 DEF IsTopology
<1> QED
  BY <1>1, <1>2, <1>4, <1>5, <1>6 DEF u

\* handle_port_part, after the port is unlinked: the port is gone.
LEMMA PortRemoved ==
    ASSUME NEW t, IsTopology(t), NEW loc \in Locations, HasPort(t, loc)
    PROVE  LET u == [t EXCEPT !.ports[loc[1]] = Restrict(@, DOMAIN @ \ {loc[2]})] IN
           /\ IsTopology(u) /\ u.edges = t.edges
           /\ DOMAIN u.ports = DOMAIN t.ports
           /\ \A l \in Locations :
                /\ HasPort(u, l) <=> HasPort(t, l) /\ l # loc
                /\ HasPort(u, l) => PortAt(u, l) = PortAt(t, l)
<1> DEFINE F == Restrict(t.ports[loc[1]], DOMAIN t.ports[loc[1]] \ {loc[2]})
           u == [t EXCEPT !.ports[loc[1]] = Restrict(@, DOMAIN @ \ {loc[2]})]
<1>1. u = [t EXCEPT !.ports = [t.ports EXCEPT ![loc[1]] = F]]
  OBVIOUS
<1>2. DOMAIN F = DOMAIN t.ports[loc[1]] \ {loc[2]}
      /\ \A p \in DOMAIN F : F[p] = t.ports[loc[1]][p]
  BY DEF Restrict
<1> HIDE DEF F
<1>3. DOMAIN u = {"ports", "edges"} /\ u.edges = t.edges
      /\ u.ports = [t.ports EXCEPT ![loc[1]] = F]
  BY <1>1 DEF IsTopology
<1> HIDE DEF u
<1>4. DOMAIN u.ports = DOMAIN t.ports
      /\ \A s \in DOMAIN t.ports : u.ports[s] = IF s = loc[1] THEN F ELSE t.ports[s]
  BY <1>3
<1>5. IsTopology(u)
  BY <1>2, <1>3, <1>4 DEF IsTopology
<1>6. \A l \in Locations :
         /\ HasPort(u, l) <=> HasPort(t, l) /\ l # loc
         /\ HasPort(u, l) => PortAt(u, l) = PortAt(t, l)
  <2> SUFFICES ASSUME NEW l \in Locations
               PROVE  /\ HasPort(u, l) <=> HasPort(t, l) /\ l # loc
                      /\ HasPort(u, l) => PortAt(u, l) = PortAt(t, l)
    OBVIOUS
  <2>1. l[1] = loc[1] /\ l[2] = loc[2] <=> l = loc
    BY LocationsEqual
  <2>2. CASE l[1] = loc[1]
    BY <1>2, <1>4, <2>1, <2>2 DEF HasPort, PortAt
  <2>3. CASE l[1] # loc[1]
    BY <1>4, <2>1, <2>3 DEF HasPort, PortAt
  <2> QED
    BY <2>2, <2>3
<1> QED
  BY <1>3, <1>4, <1>5, <1>6 DEF u

\* The ports are linked to each other and nothing else is linked anew.
LEMMA LinkAdded ==
    ASSUME NEW t, IsTopology(t), NEW l1 \in Locations, NEW l2 \in Locations,
           HasPort(t, l1), HasPort(t, l2)
    PROVE  LET u == AddLink(t, l1, l2) IN
           /\ SameFrame(t, u) /\ IsTopology(u)
           /\ u.edges = {e \in t.edges : DOMAIN e # {l1[1], l2[1]}} \cup {EdgeOf(l1, l2)}
           /\ \A l \in Locations : HasPort(t, l) =>
                Peer(u, l) = IF l = l2 THEN l1 ELSE IF l = l1 THEN l2 ELSE Peer(t, l)
<1> DEFINE one == SetLink(t, l1, l2)
           two == SetLink(one, l2, l1)
           cut == RemoveEdge(two, l1[1], l2[1])
           u == [cut EXCEPT !.edges = @ \cup {EdgeOf(l1, l2)}]
<1>1. /\ SameFrame(t, one) /\ IsTopology(one) /\ one.edges = t.edges
      /\ Peer(one, l1) = l2
      /\ \A l \in Locations \ {l1} : HasPort(t, l) => Peer(one, l) = Peer(t, l)
  BY SetLinkEffect
<1> HIDE DEF one
<1>2. \A l \in Locations : HasPort(one, l) <=> HasPort(t, l)
  BY <1>1, HasPortDomain DEF SameFrame
<1>3. /\ SameFrame(one, two) /\ IsTopology(two) /\ two.edges = one.edges
      /\ Peer(two, l2) = l1
      /\ \A l \in Locations \ {l2} : HasPort(one, l) => Peer(two, l) = Peer(one, l)
  BY <1>1, <1>2, SetLinkEffect
<1> HIDE DEF two
<1>4. /\ DOMAIN u = {"ports", "edges"} /\ u.ports = two.ports
      /\ u.edges = {e \in two.edges : DOMAIN e # {l1[1], l2[1]}} \cup {EdgeOf(l1, l2)}
  BY <1>3 DEF RemoveEdge, IsTopology
<1>5. u = AddLink(t, l1, l2)
  BY DEF AddLink, one, two, cut
<1> HIDE DEF u
<1>6. \A l : /\ HasPort(u, l) <=> HasPort(two, l)
             /\ PortAt(u, l) = PortAt(two, l) /\ Peer(u, l) = Peer(two, l)
  BY <1>4 DEF HasPort, PortAt, Peer
<1>7. SameFrame(t, two)
  BY <1>1, <1>3, FrameTrans
<1>8. SameFrame(t, u)
  BY <1>4, <1>6, <1>7 DEF SameFrame
<1>9. u.edges \subseteq {EdgeOf(l, m) : l \in Locations, m \in Locations}
  BY <1>1, <1>3, <1>4 DEF IsTopology
<1>10. IsTopology(u)
  BY <1>8, <1>9, FrameTopology
<1>11. \A l \in Locations : HasPort(t, l) =>
          Peer(u, l) = IF l = l2 THEN l1 ELSE IF l = l1 THEN l2 ELSE Peer(t, l)
  BY <1>1, <1>2, <1>3, <1>6
<1> QED
  BY <1>1, <1>3, <1>4, <1>5, <1>8, <1>10, <1>11

\* LINK PORTS CHANGED: the frame of the topology stays.
LEMMA OldLinksFrame ==
    ASSUME NEW t, IsTopology(t), NEW l1 \in Locations, NEW l2 \in Locations,
           HasPort(t, l1), HasPort(t, l2)
    PROVE  LET u == RemoveOldLinks(t, l1, l2) IN SameFrame(t, u) /\ IsTopology(u)
<1> DEFINE olds == {e \in t.edges : DOMAIN e = {l1[1], l2[1]}}
           link == CHOOSE e \in olds : TRUE
           old1 == <<l1[1], link[l1[1]]>>
           old2 == <<l2[1], link[l2[1]]>>
           fst == IF old1 = l1 THEN t ELSE RemoveAssociatedLink(t, old1)
           u == RemoveOldLinks(t, l1, l2)
<1>1. u = IF olds = {} \/ (old1 # l1 /\ ~HasPort(t, old1)) THEN t
          ELSE IF old2 = l2 \/ ~HasPort(t, old2) THEN fst
          ELSE RemoveAssociatedLink(fst, old2)
  BY DEF RemoveOldLinks
<1>2. SameFrame(t, t)
  BY FrameRefl
<1>3. ASSUME NEW l, l[1] \in Switches, HasPort(t, l), l = <<l[1], l[2]>>
      PROVE  l \in Locations
  BY <1>3 DEF HasPort, IsTopology, Locations
<1>4. l1[1] \in Switches /\ l2[1] \in Switches
  BY LocationParts
<1> HIDE DEF u
<1>5. CASE olds = {} \/ (old1 # l1 /\ ~HasPort(t, old1))
  BY <1>1, <1>2, <1>5 DEF u
<1>6. CASE ~(olds = {} \/ (old1 # l1 /\ ~HasPort(t, old1)))
  <2>1. SameFrame(t, fst) /\ IsTopology(fst)
    <3>1. CASE old1 = l1
      BY <1>2, <3>1
    <3>2. CASE old1 # l1
      <4>1. HasPort(t, old1) /\ old1[1] = l1[1] /\ old1 = <<old1[1], old1[2]>>
        BY <1>6, <3>2
      <4> HIDE DEF old1
      <4>2. old1 \in Locations
        BY <1>3, <1>4, <4>1
      <4> QED
        BY <3>2, <4>1, <4>2, UnlinkEffect
    <3> QED
      BY <3>1, <3>2
  <2>2. CASE old2 = l2 \/ ~HasPort(t, old2)
    BY <1>1, <1>6, <2>1, <2>2 DEF u
  <2>3. CASE ~(old2 = l2 \/ ~HasPort(t, old2))
    <3>1. u = RemoveAssociatedLink(fst, old2)
      BY <1>1, <1>6, <2>3
    <3>2. HasPort(t, old2) /\ old2[1] = l2[1] /\ old2 = <<old2[1], old2[2]>>
      BY <2>3
    <3> HIDE DEF fst, old2
    <3>3. old2 \in Locations
      BY <1>3, <1>4, <3>2
    <3>4. HasPort(fst, old2)
      BY <2>1, <3>2, HasPortDomain DEF SameFrame
    <3>5. SameFrame(fst, u) /\ IsTopology(u)
      BY <2>1, <3>1, <3>3, <3>4, UnlinkEffect
    <3> QED
      BY <2>1, <3>5, FrameTrans DEF u
  <2> QED
    BY <2>2, <2>3
<1> QED
  BY <1>5, <1>6

\* LINK PORTS CHANGED, when the links agree: what linked the two switches
\* before is gone, and no port is linked anew.
LEMMA OldLinksGone ==
    ASSUME NEW t, IsTopology(t), Links(t), NEW l1, NEW l2, {l1, l2} \in Cables,
           HasPort(t, l1), HasPort(t, l2), EdgeOf(l1, l2) \notin t.edges
    PROVE  LET u == RemoveOldLinks(t, l1, l2) IN
           /\ Links(u)
           /\ \A e \in u.edges : DOMAIN e # {l1[1], l2[1]}
           /\ \A l \in Locations : HasPort(t, l) => Peer(u, l) \in {Peer(t, l), NoLoc}
<1> DEFINE olds == {e \in t.edges : DOMAIN e = {l1[1], l2[1]}}
           link == CHOOSE e \in olds : TRUE
           old1 == <<l1[1], link[l1[1]]>>
           old2 == <<l2[1], link[l2[1]]>>
           fst == IF old1 = l1 THEN t ELSE RemoveAssociatedLink(t, old1)
           u == RemoveOldLinks(t, l1, l2)
<1>1. u = IF olds = {} \/ (old1 # l1 /\ ~HasPort(t, old1)) THEN t
          ELSE IF old2 = l2 \/ ~HasPort(t, old2) THEN fst
          ELSE RemoveAssociatedLink(fst, old2)
  BY DEF RemoveOldLinks
<1>2. l1 \in Locations /\ l2 \in Locations /\ l1[1] # l2[1]
  BY CableEnds
<1> HIDE DEF u
<1>3. CASE olds = {}
  BY <1>1, <1>3 DEF u
<1>4. CASE olds # {}
  <2>1. link \in t.edges /\ DOMAIN link = {l1[1], l2[1]}
    <3>1. link \in olds
      BY <1>4
    <3> QED
      BY <3>1
  <2>2. old1[1] = l1[1] /\ old2[1] = l2[1] /\ old1[2] = link[l1[1]] /\ old2[2] = link[l2[1]]
    OBVIOUS
  <2> HIDE DEF link, olds
  <2>3. PICK j \in Locations, k \in Locations : {j, k} \in Cables /\ link = EdgeOf(j, k)
    BY <2>1 DEF Links
  <2>4. j[1] # k[1] /\ DOMAIN link = {j[1], k[1]} /\ link[j[1]] = j[2] /\ link[k[1]] = k[2]
    <3>1. j[1] # k[1]
      BY <2>3, CableEnds
    <3> QED
      BY <2>3, <3>1, EdgeFacts
  <2>5. (old1 = j /\ old2 = k) \/ (old1 = k /\ old2 = j)
    <3>1. j = <<j[1], j[2]>> /\ k = <<k[1], k[2]>>
      BY LocationParts
    <3>2. CASE j[1] = l1[1] /\ k[1] = l2[1]
      BY <2>4, <3>1, <3>2
    <3>3. CASE j[1] = l2[1] /\ k[1] = l1[1]
      BY <2>4, <3>1, <3>3
    <3> QED
      BY <1>2, <2>1, <2>4, <3>2, <3>3
  <2> HIDE DEF old1, old2
  <2>6. /\ old1 \in Locations /\ old2 \in Locations /\ old1[1] # old2[1]
        /\ link = EdgeOf(old1, old2) /\ link = EdgeOf(old2, old1)
    BY <2>3, <2>4, <2>5, EdgeFacts
  <2>7. HasPort(t, old1) /\ Peer(t, old1) = old2 /\ HasPort(t, old2) /\ Peer(t, old2) = old1
    <3>1. EdgeOf(old1, old2) \in t.edges /\ EdgeOf(old2, old1) \in t.edges
      BY <2>1, <2>6
    <3> QED
      BY <2>6, <3>1 DEF Links
  <2>8. old1 # l1 \/ old2 # l2
    BY <2>1, <2>6
  <2>9. ASSUME NEW v, Links(v), v.edges \subseteq t.edges, link \notin v.edges
        PROVE  \A e \in v.edges : DOMAIN e # {l1[1], l2[1]}
    BY <2>1, <2>9 DEF Links
  <2>10. CASE old1 = l1
    <3>1. u = RemoveAssociatedLink(t, old2)
      BY <1>1, <1>4, <2>7, <2>8, <2>10
    <3>2. /\ Links(u) /\ u.edges \subseteq t.edges /\ link \notin u.edges
          /\ \A l \in Locations : HasPort(t, l) => Peer(u, l) \in {Peer(t, l), NoLoc}
      BY <2>1, <2>6, <2>7, <3>1, Unlink
    <3> QED
      BY <2>9, <3>2 DEF u
  <2>11. CASE old1 # l1
    <3>1. fst = RemoveAssociatedLink(t, old1)
      BY <2>11
    <3> HIDE DEF fst
    <3>2. /\ Links(fst) /\ fst.edges \subseteq t.edges /\ link \notin fst.edges
          /\ IsTopology(fst) /\ SameFrame(t, fst)
          /\ \A l \in Locations : HasPort(t, l) => Peer(fst, l) \in {Peer(t, l), NoLoc}
      <4>1. /\ Links(fst) /\ fst.edges \subseteq t.edges
            /\ IsTopology(fst) /\ SameFrame(t, fst)
            /\ \A l \in Locations : HasPort(t, l) => Peer(fst, l) \in {Peer(t, l), NoLoc}
            /\ \A e \in t.edges : e \in fst.edges <=>
                 (\A m \in Locations : old1[1] # m[1] => e # EdgeOf(old1, m))
        BY <2>6, <2>7, <3>1, Unlink
      <4> QED
        BY <2>1, <2>6, <4>1
    <3>3. CASE old2 = l2
      <4>1. u = fst
        BY <1>1, <1>4, <2>7, <3>3
      <4> QED
        BY <2>9, <3>2, <4>1 DEF u
    <3>4. CASE old2 # l2
      <4>1. u = RemoveAssociatedLink(fst, old2)
        BY <1>1, <1>4, <2>7, <3>4
      <4>2. \A l \in Locations : HasPort(fst, l) <=> HasPort(t, l)
        BY <3>2, HasPortDomain DEF SameFrame
      <4>3. /\ Links(u) /\ u.edges \subseteq fst.edges
            /\ \A l \in Locations : HasPort(fst, l) => Peer(u, l) \in {Peer(fst, l), NoLoc}
        BY <2>6, <2>7, <3>2, <4>1, <4>2, Unlink
      <4>4. \A l \in Locations : HasPort(t, l) => Peer(u, l) \in {Peer(t, l), NoLoc}
        BY <3>2, <4>2, <4>3
      <4>5. \A e \in u.edges : DOMAIN e # {l1[1], l2[1]}
        BY <2>9, <3>2, <4>3
      <4> QED
        BY <4>3, <4>4, <4>5 DEF u
    <3> QED
      BY <3>3, <3>4
  <2> QED
    BY <2>10, <2>11
<1> QED
  BY <1>3, <1>4

\* A link between two unlinked ports of switches that share no edge.
LEMMA LinkAgrees ==
    ASSUME NEW t, IsTopology(t), Links(t), NEW l1, NEW l2, {l1, l2} \in Cables,
           HasPort(t, l1), HasPort(t, l2), Peer(t, l1) = NoLoc, Peer(t, l2) = NoLoc,
           \A e \in t.edges : DOMAIN e # {l1[1], l2[1]}
    PROVE  Links(AddLink(t, l1, l2))
<1> DEFINE u == AddLink(t, l1, l2)
<1>1. l1 \in Locations /\ l2 \in Locations /\ l1[1] # l2[1]
  BY CableEnds
<1>2. /\ SameFrame(t, u)
      /\ u.edges = {e \in t.edges : DOMAIN e # {l1[1], l2[1]}} \cup {EdgeOf(l1, l2)}
      /\ \A l \in Locations : HasPort(t, l) =>
           Peer(u, l) = IF l = l2 THEN l1 ELSE IF l = l1 THEN l2 ELSE Peer(t, l)
  BY <1>1, LinkAdded
<1> HIDE DEF u
<1>3. \A l \in Locations : HasPort(u, l) <=> HasPort(t, l)
  BY <1>2, HasPortDomain DEF SameFrame
<1>4. u.edges = t.edges \cup {EdgeOf(l1, l2)}
  BY <1>2
<1>5. DOMAIN EdgeOf(l1, l2) = {l1[1], l2[1]} /\ EdgeOf(l1, l2) = EdgeOf(l2, l1)
  BY <1>1, EdgeFacts
<1>6. ASSUME NEW l \in Locations, HasPort(u, l), Peer(u, l) # NoLoc
      PROVE  {l, Peer(u, l)} \in Cables /\ EdgeOf(l, Peer(u, l)) \in u.edges
  <2>1. CASE l = l1
    BY <1>2, <1>3, <1>4, <1>6, <2>1
  <2>2. CASE l = l2
    <3>1. Peer(u, l) = l1
      BY <1>1, <1>2, <1>3, <1>6, <2>2
    <3>2. {l, l1} = {l1, l2}
      BY <2>2
    <3> QED
      BY <1>4, <1>5, <2>2, <3>1, <3>2
  <2>3. CASE l # l1 /\ l # l2
    BY <1>2, <1>3, <1>4, <1>6, <2>3 DEF Links
  <2> QED
    BY <2>1, <2>2, <2>3
<1>7. ASSUME NEW l \in Locations, NEW m \in Locations, l[1] # m[1], EdgeOf(l, m) \in u.edges
      PROVE  HasPort(u, l) /\ Peer(u, l) = m
  <2>1. CASE EdgeOf(l, m) \in t.edges
    <3>1. HasPort(t, l) /\ Peer(t, l) = m /\ m # NoLoc
      BY <1>7, <2>1, LocationParts DEF Links
    <3> QED
      BY <1>2, <1>3, <3>1
  <2>2. CASE EdgeOf(l, m) = EdgeOf(l1, l2)
    <3>1. (l = l1 /\ m = l2) \/ (l = l2 /\ m = l1)
      BY <1>1, <1>7, <2>2, EdgeEnds
    <3> QED
      BY <1>1, <1>2, <1>3, <3>1
  <2> QED
    BY <1>4, <1>7, <2>1, <2>2
<1>8. \A e \in u.edges : \E l, m \in Locations : {l, m} \in Cables /\ e = EdgeOf(l, m)
  BY <1>1, <1>4 DEF Links
<1>9. \A e, f \in u.edges : DOMAIN e = DOMAIN f => e = f
  BY <1>4, <1>5 DEF Links
<1> QED
  BY <1>6, <1>7, <1>8, <1>9 DEF Links, u

\* handle_port_mod: the port has the reported state, and is linked as before.
Updated(t, loc, report) ==
    SetPort(t, loc, [PortAt(t, loc) EXCEPT !.config = report.config, !.status = report.status])

LEMMA PortUpdated ==
    ASSUME NEW t, IsTopology(t), NEW loc \in Locations, HasPort(t, loc),
           NEW report \in Reports
    PROVE  LET u == Updated(t, loc, report) IN
           /\ IsTopology(u) /\ u.edges = t.edges /\ DOMAIN u.ports = DOMAIN t.ports
           /\ \A l \in Locations :
                /\ HasPort(u, l) <=> HasPort(t, l)
                /\ HasPort(t, l) => Peer(u, l) = Peer(t, l)
                /\ HasPort(t, l) /\ l # loc => PortAt(u, l) = PortAt(t, l)
           /\ PortAt(u, loc).config = report.config /\ PortAt(u, loc).status = report.status
<1> DEFINE port == [PortAt(t, loc) EXCEPT
                        !.config = report.config, !.status = report.status]
           u == SetPort(t, loc, port)
<1>1. PortAt(t, loc) \in Ports /\ loc[1] \in DOMAIN t.ports
  BY DEF IsTopology, HasPort, PortAt
<1>2. /\ port \in Ports /\ port.linked_to = Peer(t, loc)
      /\ port.config = report.config /\ port.status = report.status
  BY <1>1 DEF Ports, Reports, Peer
<1> HIDE DEF port
<1>3. IsTopology(u)
  BY <1>1, <1>2, SetPortTopology
<1>4. /\ DOMAIN u = {"ports", "edges"} /\ u.edges = t.edges
      /\ DOMAIN u.ports = DOMAIN t.ports
      /\ \A l \in Locations :
           /\ HasPort(u, l) <=> HasPort(t, l) \/ l = loc
           /\ HasPort(u, l) => PortAt(u, l) = IF l = loc THEN port ELSE PortAt(t, l)
  BY <1>1, SetPortEffect DEF IsTopology
<1> HIDE DEF u
<1>5. u = Updated(t, loc, report)
  BY DEF Updated, u, port
<1> QED
  BY <1>2, <1>3, <1>4, <1>5 DEF Peer
-----------------------------------------------------------------------------
(* Types.                                                                   *)

LEMMA MessageParts ==
    ASSUME NEW m \in Messages
    PROVE  /\ m.type \in {"sjoin", "spart", "pjoin", "pmod", "ppart", "link"}
           /\ m.type \in {"pjoin", "pmod", "ppart"} => m.port \in PortNos /\ m.report \in Reports
           /\ m.type = "link" => /\ m.from \in Locations /\ m.to \in Locations
                                /\ {m.from, m.to} \in Cables
BY DEF Messages

LEMMA ReportType ==
    ASSUME NEW l, NEW plg, NEW adm
    PROVE  Report(l, plg, adm) \in Reports
<1>1. (l[1] \notin UserSwitches /\ Carrier(l, plg, adm)) \in BOOLEAN /\ (l \in adm) \in BOOLEAN
  BY DEF Carrier
<1> QED
  BY <1>1 DEF Report, Reports

LEMMA PortEventType ==
    ASSUME NEW l \in Locations, NEW plg, NEW adm, NEW type \in {"pjoin", "pmod", "ppart"}
    PROVE  PortEvent(type, l, plg, adm) \in Messages
<1>1. Report(l, plg, adm) \in Reports
  BY ReportType
<1>2. l[2] \in PortNos
  BY LocationParts
<1> QED
  BY <1>1, <1>2 DEF PortEvent, Messages

LEMMA ReportedType ==
    ASSUME events \in [Switches -> Seq(Messages)], NEW ps, NEW plg, NEW adm
    PROVE  Reported(ps, plg, adm) \in [Switches -> Seq(Messages)]
<1> DEFINE changed(s) == {p \in PortNos :
                /\ <<s, p>> \in ps
                /\ Report(<<s, p>>, plg, adm) # Report(<<s, p>>, plugged, admin)}
           msg(s) == PortEvent("pmod", <<s, CHOOSE p \in changed(s) : TRUE>>, plg, adm)
<1>1. ASSUME NEW s \in Switches, changed(s) # {}
      PROVE  msg(s) \in Messages
  <2> DEFINE p == CHOOSE p \in changed(s) : TRUE
  <2>1. p \in PortNos
    BY <1>1
  <2> HIDE DEF p
  <2>2. <<s, p>> \in Locations
    BY <2>1 DEF Locations
  <2> QED
    BY <2>2, PortEventType DEF p
<1> HIDE DEF msg, changed
<1>2. \A s \in Switches : events[s] \in Seq(Messages)
        /\ (changed(s) # {} => Append(events[s], msg(s)) \in Seq(Messages))
  BY <1>1, AppendProperties
<1>3. Reported(ps, plg, adm) =
        [s \in Switches |-> IF s \in attached /\ changed(s) # {}
                            THEN Append(events[s], msg(s)) ELSE events[s]]
  BY DEF Reported, changed, msg
<1> QED
  BY <1>2, <1>3

\* SetToSeq lists every element of a finite set once.
LEMMA ListsOnce ==
    ASSUME NEW S, IsFiniteSet(S)
    PROVE  /\ SetToSeq(S) \in Seq(S)
           /\ \A i, j \in DOMAIN SetToSeq(S) : SetToSeq(S)[i] = SetToSeq(S)[j] => i = j
           /\ \A x \in S : \E i \in DOMAIN SetToSeq(S) : SetToSeq(S)[i] = x
<1> DEFINE n == Cardinality(S)
           f == SetToSeq(S)
<1>1. n \in Nat /\ ExistsBijection(1..n, S)
  BY FS_CardinalityType
<1>2. PICK g \in Bijection(1..n, S) : TRUE
  BY <1>1 DEF ExistsBijection
<1>3. g \in [1..n -> S] /\ IsInjective(g)
  BY <1>2 DEF Bijection, Injection, IsInjective
<1>4. f \in [1..n -> S] /\ IsInjective(f)
  BY <1>3 DEF SetToSeq
<1> HIDE DEF f
<1>5. f \in Injection(1..n, S)
  BY <1>4 DEF Injection, IsInjective
<1>6. IsFiniteSet(1..n) /\ Cardinality(1..n) = n
  BY <1>1, FS_Interval
<1>7. f \in Surjection(1..n, S)
  BY <1>5, <1>6, FS_Injection
<1>8. f \in Seq(S)
  BY <1>1, <1>4
<1>9. \A x \in S : \E i \in 1..n : f[i] = x
  BY <1>7 DEF Surjection
<1> QED
  BY <1>4, <1>8, <1>9 DEF IsInjective, f

LEMMA InitType == ASSUME Init PROVE TypeOK
<1>1. IsTopology(EmptyTopo)
  BY DEF IsTopology, EmptyTopo
<1>2. events \in [Switches -> Seq(Messages)]
  BY DEF Init
<1>3. plugged \subseteq Cables
  BY DEF Init
<1>4. sleeping \cup checked \cup notifying = {} /\ ops \in 0..MaxOps /\ updateNo \in Nat
  BY MaxOpsAssumption DEF Init
<1> QED
  BY <1>1, <1>2, <1>3, <1>4 DEF Init, TypeOK

\* What an operation of the network leaves alone.
LEMMA OperationType ==
    ASSUME TypeOK, Operation,
           attached' \subseteq Switches, plugged' \subseteq Cables,
           admin' \subseteq present', present' \subseteq Locations,
           events' \in [Switches -> Seq(Messages)]
    PROVE  TypeOK'
<1>1. ops' \in 0..MaxOps
  BY MaxOpsAssumption DEF TypeOK, Operation
<1> QED
  BY <1>1 DEF TypeOK, Operation, timers

LEMMA SwapPortType ==
    ASSUME TypeOK, NEW l \in SwapPorts, SwapPort(l)
    PROVE  TypeOK'
<1> DEFINE type == IF l \in present THEN "ppart" ELSE "pjoin"
           reported == Reported(present \ {l}, plugged, admin')
           msg == PortEvent(type, l, plugged, admin')
<1>1. l \in Locations
  BY PortsAssumption
<1>2. reported \in [Switches -> Seq(Messages)]
  BY ReportedType DEF TypeOK
<1>3. msg \in Messages
  BY <1>1, PortEventType
<1> HIDE DEF reported, msg
<1>4. events' = [reported EXCEPT
            ![l[1]] = IF l[1] \in attached THEN Append(@, msg) ELSE @]
  BY DEF SwapPort, reported, msg
<1>5. l[1] \in Switches
  BY <1>1, LocationParts
<1>6. events' \in [Switches -> Seq(Messages)]
  <2>1. reported[l[1]] \in Seq(Messages) /\ Append(reported[l[1]], msg) \in Seq(Messages)
    BY <1>2, <1>3, <1>5, AppendProperties
  <2> QED
    BY <1>2, <1>4, <2>1
<1> QED
  BY <1>1, <1>6, OperationType DEF TypeOK, SwapPort

LEMMA ConnectType ==
    ASSUME TypeOK, NEW s \in Switches, Connect(s)
    PROVE  TypeOK'
<1> DEFINE here == {p \in PortNos : <<s, p>> \in present}
           ports == SetToSeq(here)
           joins == [i \in DOMAIN ports |-> PortEvent("pjoin", <<s, ports[i]>>, plugged, admin)]
           msgs == (events[s] \o <<[type |-> "sjoin"]>>) \o joins
<1>1. IsFiniteSet(here) /\ here \subseteq PortNos
  BY PortNosAssumption, FS_Subset
<1> HIDE DEF here
<1>2. ports \in Seq(here)
  BY <1>1, ListsOnce
<1> HIDE DEF ports
<1>3. ASSUME NEW i \in DOMAIN ports
      PROVE  PortEvent("pjoin", <<s, ports[i]>>, plugged, admin) \in Messages
  <2>1. ports[i] \in PortNos
    BY <1>1, <1>2, <1>3
  <2>2. <<s, ports[i]>> \in Locations
    BY <2>1 DEF Locations
  <2> QED
    BY <2>2, PortEventType
<1>4. joins \in Seq(Messages)
  <2>1. Len(ports) \in Nat /\ DOMAIN ports = 1..Len(ports)
    BY <1>2
  <2>2. joins \in [1..Len(ports) -> Messages]
    BY <1>3, <2>1
  <2> HIDE DEF joins
  <2> QED
    BY <2>1, <2>2
<1> HIDE DEF joins
<1>5. <<[type |-> "sjoin"]>> \in Seq(Messages)
  BY DEF Messages
<1>6. events[s] \in Seq(Messages)
  BY DEF TypeOK
<1>7. msgs \in Seq(Messages)
  BY <1>4, <1>5, <1>6, ConcatProperties
<1>8. events' = [events EXCEPT ![s] = msgs]
  BY DEF Connect, joins, ports, here
<1> HIDE DEF msgs
<1>9. events' \in [Switches -> Seq(Messages)]
  BY <1>7, <1>8 DEF TypeOK
<1> QED
  BY <1>9, OperationType DEF TypeOK, Connect

LEMMA OperateType ==
    ASSUME TypeOK, Operate
    PROVE  TypeOK'
<1>1. ASSUME NEW c \in Cables, Plug(c) \/ Unplug(c)
      PROVE  TypeOK'
  <2>1. events' \in [Switches -> Seq(Messages)]
    BY <1>1, ReportedType DEF TypeOK, Plug, Unplug
  <2> QED
    BY <1>1, <2>1, OperationType DEF TypeOK, Plug, Unplug
<1>2. ASSUME NEW l \in AdminPorts, SetAdmin(l)
      PROVE  TypeOK'
  <2>1. events' \in [Switches -> Seq(Messages)]
    BY <1>2, ReportedType DEF TypeOK, SetAdmin
  <2> QED
    BY <1>2, <2>1, OperationType DEF TypeOK, SetAdmin
<1>3. ASSUME NEW s \in Switches, Disconnect(s)
      PROVE  TypeOK'
  <2>1. [type |-> "spart"] \in Messages
    BY DEF Messages
  <2>2. Append(events[s], [type |-> "spart"]) \in Seq(Messages)
    BY <2>1, AppendProperties DEF TypeOK
  <2>3. events' \in [Switches -> Seq(Messages)]
    BY <1>3, <2>2 DEF TypeOK, Disconnect
  <2> QED
    BY <1>3, <2>3, OperationType DEF TypeOK, Disconnect
<1> QED
  BY <1>1, <1>2, <1>3, SwapPortType, ConnectType DEF Operate

\* The far end of a cable is its other end.
LEMMA FarEnd ==
    ASSUME NEW c \in Cables, NEW l \in c
    PROVE  /\ l \in Locations /\ Far(c, l) \in Locations
           /\ c = {l, Far(c, l)} /\ l[1] # Far(c, l)[1]
<1>1. PICK j \in Locations, k \in Locations : c = {j, k} /\ j[1] # k[1]
  BY CablesAssumption
<1>2. Far(c, l) \in c /\ Far(c, l) # l
  BY <1>1 DEF Far
<1> QED
  BY <1>1, <1>2

LEMMA DiscoveryType ==
    ASSUME TypeOK, NEW l \in probes, Discovery(l)
    PROVE  TypeOK'
<1>1. CASE events' = events
  BY <1>1 DEF TypeOK, Discovery, network, timers
<1>2. CASE \E c \in Cables : l \in c /\ Working(c)
  <2> DEFINE c == CHOOSE c \in Cables : l \in c /\ Working(c)
             far == Far(c, l)
             msg == [type |-> "link", from |-> l, to |-> far]
  <2>1. events' = [events EXCEPT ![far[1]] = Append(@, msg)]
    BY <1>2 DEF Discovery
  <2>2. c \in Cables /\ l \in c
    BY <1>2
  <2> HIDE DEF c
  <2>3. l \in Locations /\ far \in Locations /\ {l, far} \in Cables
    BY <2>2, FarEnd
  <2> HIDE DEF far
  <2>4. msg \in Messages /\ far[1] \in Switches
    BY <2>3, LocationParts DEF Messages
  <2> HIDE DEF msg
  <2>5. Append(events[far[1]], msg) \in Seq(Messages)
    BY <2>4, AppendProperties DEF TypeOK
  <2>6. events' \in [Switches -> Seq(Messages)]
    BY <2>1, <2>4, <2>5 DEF TypeOK
  <2> QED
    BY <2>6 DEF TypeOK, Discovery, network, timers
<1> QED
  BY <1>1, <1>2 DEF Discovery

\* What a handler finds, and leaves, in the queue of its switch.
LEMMA ReceiveType ==
    ASSUME TypeOK, NEW s \in Switches, NEW type, Receive(s, type)
    PROVE  /\ Head(events[s]) \in Messages /\ Head(events[s]).type = type
           /\ events' \in [Switches -> Seq(Messages)]
<1>1. events[s] \in Seq(Messages) /\ events[s] # <<>>
  BY DEF TypeOK, Receive
<1>2. Head(events[s]) \in Messages /\ Tail(events[s]) \in Seq(Messages)
  BY <1>1, HeadTailProperties
<1> QED
  BY <1>2 DEF TypeOK, Receive

\* What is left to show of a handler.
LEMMA HandlerType ==
    ASSUME TypeOK, NEW s \in Switches, NEW type, Receive(s, type),
           IsTopology(nextTopo'), probes' \subseteq Locations,
           updateNo' \in Nat, updateNo' >= updateNo, sleeping' \subseteq 1..updateNo',
           channelUp' \in BOOLEAN, unqueued' \in BOOLEAN
    PROVE  TypeOK'
<1>1. events' \in [Switches -> Seq(Messages)]
  BY ReceiveType
<1>2. UNCHANGED <<attached, admin, present, plugged, ops, checked, copied, notifying, topology, seen>>
  BY DEF Receive, network
<1>3. 1..updateNo \subseteq 1..updateNo'
  BY DEF TypeOK
<1>4. checked' \cup notifying' \subseteq 1..updateNo'
  BY <1>2, <1>3 DEF TypeOK
<1>5. \A c \in copied' : c.no \in 1..updateNo' /\ IsTopology(c.topo)
  BY <1>2, <1>3 DEF TypeOK
<1> QED
  BY <1>1, <1>2, <1>4, <1>5 DEF TypeOK

LEMMA QueueType ==
    ASSUME TypeOK, NEW s \in Switches, NEW type, Receive(s, type),
           IsTopology(nextTopo'), probes' \subseteq Locations, NEW k \in Nat, Queue(k)
    PROVE  TypeOK'
<1>1. updateNo \in Nat /\ updateNo' = updateNo + k /\ sleeping \subseteq 1..updateNo
  BY DEF TypeOK, Queue
<1>2. updateNo' \in Nat /\ updateNo' >= updateNo
  BY <1>1
<1>3. 1..updateNo \subseteq 1..updateNo' /\ (updateNo + 1)..(updateNo + k) \subseteq 1..updateNo'
  BY <1>1
<1>4. sleeping' = sleeping \cup (updateNo + 1)..(updateNo + k)
  BY DEF Queue
<1>5. sleeping' \subseteq 1..updateNo'
  BY <1>1, <1>3, <1>4
<1>6. channelUp' \in BOOLEAN /\ unqueued' \in BOOLEAN
  BY DEF TypeOK, Queue
<1> QED
  BY <1>2, <1>5, <1>6, HandlerType

\* A number is taken, or none, and no update is queued.
LEMMA UnqueuedType ==
    ASSUME TypeOK, NEW s \in Switches, NEW type, Receive(s, type),
           IsTopology(nextTopo'), UNCHANGED <<probes, sleeping>>,
           updateNo' \in {updateNo, updateNo + 1},
           channelUp' \in BOOLEAN, unqueued' \in BOOLEAN
    PROVE  TypeOK'
<1>1. updateNo \in Nat /\ sleeping \subseteq 1..updateNo /\ probes \subseteq Locations
  BY DEF TypeOK
<1>2. updateNo' \in Nat /\ updateNo' >= updateNo
  BY <1>1
<1>3. 1..updateNo \subseteq 1..updateNo'
  BY <1>1
<1> QED
  BY <1>1, <1>2, <1>3, HandlerType

LEMMA IgnoreType ==
    ASSUME TypeOK, NEW s \in Switches, NEW type, Receive(s, type),
           Ignore \/ (Raise /\ UNCHANGED <<updateNo, unqueued>>)
    PROVE  TypeOK'
<1>1. UNCHANGED <<nextTopo, probes, sleeping, updateNo, unqueued>> /\ channelUp' \in BOOLEAN
  BY DEF TypeOK, Ignore, Raise
<1>2. unqueued' \in BOOLEAN /\ IsTopology(nextTopo')
  BY <1>1 DEF TypeOK
<1> QED
  BY <1>1, <1>2, UnqueuedType

LEMMA HandleType ==
    ASSUME TypeOK, NEW s \in Switches, Handle(s)
    PROVE  TypeOK'
<1> DEFINE e == Head(events[s])
<1>1. CASE HandleSwitchJoin(s)
  <2>1. IsTopology(nextTopo')
    BY <1>1, SwitchAdded DEF TypeOK, HandleSwitchJoin
  <2>2. /\ Receive(s, "sjoin") /\ UNCHANGED <<probes, sleeping, updateNo>>
        /\ channelUp' \in BOOLEAN /\ unqueued' \in BOOLEAN
    BY <1>1 DEF TypeOK, HandleSwitchJoin
  <2> QED
    BY <2>1, <2>2, UnqueuedType
<1>2. CASE HandleSwitchPart(s)
  <2>1. CASE s \in DOMAIN nextTopo.ports
    <3>1. Queue(1) /\ UNCHANGED probes /\ nextTopo' = RemoveSwitch(nextTopo, s)
      BY <1>2, <2>1 DEF HandleSwitchPart
    <3>2. IsTopology(nextTopo')
      BY <2>1, <3>1, SwitchRemoved DEF TypeOK
    <3>3. Receive(s, "spart") /\ probes' \subseteq Locations
      BY <1>2, <3>1 DEF TypeOK, HandleSwitchPart
    <3> QED
      BY <3>1, <3>2, <3>3, QueueType
  <2>2. CASE s \notin DOMAIN nextTopo.ports
    BY <1>2, <2>2, IgnoreType DEF HandleSwitchPart
  <2> QED
    BY <2>1, <2>2
<1>3. CASE HandlePortJoin(s)
  <2> DEFINE loc == <<s, e.port>>
             port == NewPort(e.report.config, e.report.status)
  <2>1. e \in Messages /\ e.type = "pjoin" /\ Receive(s, "pjoin")
    BY <1>3, ReceiveType DEF HandlePortJoin
  <2>2. loc \in Locations /\ port \in Ports
    BY <2>1, MessageParts DEF Locations, Reports, NewPort, Ports
  <2>3. CASE s \notin DOMAIN nextTopo.ports
    <3>1. Raise /\ updateNo' = updateNo + 1 /\ unqueued' = TRUE
      BY <1>3, <2>3 DEF HandlePortJoin
    <3> QED
      BY <2>1, <3>1, UnqueuedType DEF TypeOK, Raise
  <2>4. CASE s \in DOMAIN nextTopo.ports
    <3>1. nextTopo' = SetPort(nextTopo, loc, port)
      BY <1>3, <2>4 DEF HandlePortJoin
    <3>2. \/ Queue(1) /\ probes' = probes \cup {loc}
          \/ updateNo' = updateNo + 1 /\ unqueued' = TRUE /\ UNCHANGED <<sleeping, channelUp, probes>>
      BY <1>3, <2>4 DEF HandlePortJoin
    <3> HIDE DEF loc, port
    <3>3. IsTopology(nextTopo')
      BY <2>2, <2>4, <3>1, SetPortTopology DEF TypeOK, loc
    <3>4. CASE Queue(1) /\ probes' = probes \cup {loc}
      BY <2>1, <2>2, <3>3, <3>4, QueueType DEF TypeOK, loc
    <3>5. CASE updateNo' = updateNo + 1 /\ unqueued' = TRUE /\ UNCHANGED <<sleeping, channelUp, probes>>
      BY <2>1, <3>3, <3>5, UnqueuedType DEF TypeOK
    <3> QED
      BY <3>2, <3>4, <3>5
  <2> QED
    BY <2>3, <2>4
<1>4. CASE HandlePortPart(s)
  <2> DEFINE loc == <<s, e.port>>
             cut == RemoveAssociatedLink(nextTopo, loc)
  <2>1. e \in Messages /\ e.type = "ppart" /\ Receive(s, "ppart")
    BY <1>4, ReceiveType DEF HandlePortPart
  <2>2. loc \in Locations /\ loc[1] = s
    BY <2>1, MessageParts DEF Locations
  <2>3. CASE ~HasPort(nextTopo, loc)
    BY <1>4, <2>1, <2>3, IgnoreType DEF HandlePortPart
  <2>4. CASE HasPort(nextTopo, loc)
    <3>1. /\ nextTopo' = [cut EXCEPT !.ports[loc[1]] = Restrict(@, DOMAIN @ \ {loc[2]})]
          /\ Queue(1) /\ UNCHANGED probes
      BY <1>4, <2>4 DEF HandlePortPart
    <3> HIDE DEF loc
    <3>2. SameFrame(nextTopo, cut) /\ IsTopology(cut)
      BY <2>2, <2>4, UnlinkEffect DEF TypeOK
    <3> HIDE DEF cut
    <3>3. HasPort(cut, loc)
      BY <2>4, <3>2, HasPortDomain DEF SameFrame
    <3>4. IsTopology(nextTopo')
      BY <2>2, <3>1, <3>2, <3>3, PortRemoved
    <3> QED
      BY <2>1, <3>1, <3>4, QueueType DEF TypeOK
  <2> QED
    BY <2>3, <2>4
<1>5. CASE HandlePortMod(s)
  <2> DEFINE loc == <<s, e.port>>
             prev == PortAt(nextTopo, loc)
             set == SetPort(nextTopo, loc, [prev EXCEPT
                        !.config = e.report.config, !.status = e.report.status])
             downs == {f \in {"config", "status"} : prev[f] /\ ~e.report[f]}
             ups == {f \in {"config", "status"} : ~prev[f] /\ e.report[f]}
             k == Cardinality(downs) + (IF ups = {} THEN 0 ELSE 1)
  <2>1. e \in Messages /\ e.type = "pmod" /\ Receive(s, "pmod")
    BY <1>5, ReceiveType DEF HandlePortMod
  <2>2. loc \in Locations /\ e.report \in Reports
    BY <2>1, MessageParts DEF Locations
  <2>3. CASE HasPort(nextTopo, loc) /\ downs \cup ups # {}
    <3>1. /\ nextTopo' = IF downs = {} THEN set ELSE RemoveAssociatedLink(set, loc)
          /\ Queue(k) /\ probes' = probes \cup Rediscover(loc, downs, ups)
      BY <1>5, <2>3 DEF HandlePortMod
    <3>2. k \in Nat
      BY <2>3, SomeChange
    <3>3. probes' \subseteq Locations
      BY <2>2, <3>1 DEF TypeOK, Rediscover
    <3>4. set = Updated(nextTopo, loc, e.report)
      BY DEF Updated
    <3> HIDE DEF downs, ups, k, loc, set
    <3>5. IsTopology(set) /\ HasPort(set, loc)
      BY <2>2, <2>3, <3>4, PortUpdated DEF TypeOK
    <3>6. IsTopology(nextTopo')
      BY <2>2, <3>1, <3>5, UnlinkEffect
    <3> QED
      BY <2>1, <3>1, <3>2, <3>3, <3>6, QueueType
  <2>4. CASE ~(HasPort(nextTopo, loc) /\ downs \cup ups # {})
    <3>1. Ignore
      BY <1>5, <2>4 DEF HandlePortMod
    <3> QED
      BY <2>1, <3>1, IgnoreType
  <2> QED
    BY <2>3, <2>4
<1>6. CASE HandleLinkUpdate(s)
  <2> DEFINE l1 == e.from
             l2 == e.to
             up == PossiblyUp(PortAt(nextTopo, l1)) /\ PossiblyUp(PortAt(nextTopo, l2))
             cut == RemoveOldLinks(nextTopo, l1, l2)
  <2>1. e \in Messages /\ e.type = "link" /\ Receive(s, "link")
    BY <1>6, ReceiveType DEF HandleLinkUpdate
  <2>2. l1 \in Locations /\ l2 \in Locations
    BY <2>1, MessageParts
  <2>3. CASE Ignore \/ (Raise /\ UNCHANGED <<updateNo, unqueued>>)
    BY <2>1, <2>3, IgnoreType
  <2>4. CASE ~(Ignore \/ (Raise /\ UNCHANGED <<updateNo, unqueued>>))
    <3>1. /\ HasPort(nextTopo, l1) /\ HasPort(nextTopo, l2)
          /\ nextTopo' = IF up THEN AddLink(cut, l1, l2) ELSE cut
          /\ Queue(1) /\ probes' = probes
      BY <1>6, <2>4 DEF HandleLinkUpdate
    <3> HIDE DEF l1, l2, up
    <3>2. SameFrame(nextTopo, cut) /\ IsTopology(cut)
      BY <2>2, <3>1, OldLinksFrame DEF TypeOK
    <3> HIDE DEF cut
    <3>3. HasPort(cut, l1) /\ HasPort(cut, l2)
      BY <3>1, <3>2, HasPortDomain DEF SameFrame
    <3>4. IsTopology(nextTopo')
      BY <2>2, <3>1, <3>2, <3>3, LinkAdded
    <3> QED
      BY <2>1, <3>1, <3>4, QueueType DEF TypeOK
  <2> QED
    BY <2>3, <2>4
<1> QED
  BY <1>1, <1>2, <1>3, <1>4, <1>5, <1>6 DEF Handle

LEMMA TimerType ==
    ASSUME TypeOK, TimerStep
    PROVE  TypeOK'
<1> DEFINE Kept ==
      /\ UNCHANGED <<attached, admin, present, plugged, ops, probes, events, nextTopo,
                     updateNo, channelUp, unqueued>>
      /\ sleeping' \cup checked' \cup notifying'
            \subseteq sleeping \cup checked \cup notifying \cup {c.no : c \in copied}
      /\ IsTopology(topology') /\ IsTopology(seen')
      /\ \A c \in copied' : c.no \in 1..updateNo /\ IsTopology(c.topo)
<1>1. Kept
  <2>1. ASSUME NEW n \in sleeping, Discard(n) \/ PassCheck(n)
        PROVE  Kept
    BY <2>1 DEF TypeOK, Discard, PassCheck, Timer, network
  <2>2. ASSUME NEW n \in checked, CopyTopo(n)
        PROVE  Kept
    BY <2>2 DEF TypeOK, CopyTopo, Timer, network
  <2>3. ASSUME NEW c \in copied, Assign(c)
        PROVE  Kept
    BY <2>3 DEF TypeOK, Assign, Timer, network
  <2>4. ASSUME NEW n \in notifying, Notify(n)
        PROVE  Kept
    BY <2>4 DEF TypeOK, Notify, Timer, network
  <2> QED
    BY <2>1, <2>2, <2>3, <2>4 DEF TimerStep
<1>2. sleeping' \cup checked' \cup notifying' \subseteq 1..updateNo
  BY <1>1 DEF TypeOK
<1> QED
  BY <1>1, <1>2 DEF TypeOK

LEMMA NextType ==
    ASSUME TypeOK, [Next]_vars
    PROVE  TypeOK'
<1>1. CASE UNCHANGED vars
  BY <1>1 DEF TypeOK, vars, network, timers
<1> QED
  BY <1>1, OperateType, DiscoveryType, HandleType, TimerType DEF Next, DiscoveryNext

\* Every variable keeps its type, and no timer thread holds a number that was
\* not issued, whatever the network does and however the threads interleave.
THEOREM TypeCorrect == Spec => []TypeOK
<1>1. Init => TypeOK
  BY InitType
<1>2. TypeOK /\ [Next]_vars => TypeOK'
  BY NextType
<1> QED
  BY <1>1, <1>2, PTL DEF Spec

-----------------------------------------------------------------------------
(* The messages of a switch.  What the controller knows of a switch and what
   the switch is are both a view: whether it is there, and the reports of its
   ports.  The queue of the switch leads from the one view to the other, by
   messages that are legal where they come.                                 *)
Views == [here : BOOLEAN, ports : SUBSET (PortNos \X Reports)]
Nowhere == [here |-> FALSE, ports |-> {}]

Shown(port) == [config |-> port.config, status |-> port.status]
Known(t, s) ==
    [here |-> s \in DOMAIN t.ports,
     ports |-> {x \in PortNos \X Reports :
                    HasPort(t, <<s, x[1]>>) /\ x[2] = Shown(PortAt(t, <<s, x[1]>>))}]
Actual(s, att, pres, plg, adm) ==
    [here |-> s \in att,
     ports |-> {x \in PortNos \X Reports :
                    s \in att /\ <<s, x[1]>> \in pres /\ x[2] = Report(<<s, x[1]>>, plg, adm)}]

Others(v, p) == {x \in v.ports : x[1] # p}
Legal(v, m) ==
    /\ m.type = "sjoin" => v = Nowhere
    /\ m.type = "spart" => v.here
    /\ m.type = "pjoin" => v.here /\ Others(v, m.port) = v.ports
    /\ m.type \in {"pmod", "ppart"} => Others(v, m.port) # v.ports
After(v, m) ==
    IF m.type = "sjoin" THEN [here |-> TRUE, ports |-> {}]
    ELSE IF m.type = "spart" THEN Nowhere
    ELSE IF m.type \in {"pjoin", "pmod"}
    THEN [here |-> v.here, ports |-> Others(v, m.port) \cup {<<m.port, m.report>>}]
    ELSE IF m.type = "ppart" THEN [here |-> v.here, ports |-> Others(v, m.port)]
    ELSE v

Leads(v, msgs, w) ==
    \E K \in [Nat -> Views] :
        /\ K[0] = v /\ K[Len(msgs)] = w
        /\ \A i \in 1..Len(msgs) :
            Legal(K[i - 1], msgs[i]) /\ K[i] = After(K[i - 1], msgs[i])

LEMMA AfterType ==
    ASSUME NEW v \in Views, NEW m \in Messages
    PROVE  After(v, m) \in Views
<1>1. m.type \in {"pjoin", "pmod", "ppart"} => m.port \in PortNos /\ m.report \in Reports
  BY MessageParts
<1>2. v.here \in BOOLEAN /\ v.ports \subseteq PortNos \X Reports
  BY DEF Views
<1> QED
  BY <1>1, <1>2 DEF After, Views, Nowhere, Others

LEMMA LeadsNowhere ==
    ASSUME NEW v \in Views
    PROVE  Leads(v, <<>>, v)
<1> DEFINE K == [i \in Nat |-> v]
<1>1. K \in [Nat -> Views] /\ K[0] = v /\ K[Len(<<>>)] = v
  OBVIOUS
<1> HIDE DEF K
<1>2. 1..Len(<<>>) = {}
  OBVIOUS
<1> QED
  BY <1>1, <1>2 DEF Leads

\* A message more.
LEMMA LeadsOn ==
    ASSUME NEW v, NEW w, NEW msgs \in Seq(Messages), Leads(v, msgs, w),
           NEW m \in Messages, Legal(w, m)
    PROVE  Leads(v, Append(msgs, m), After(w, m))
<1> DEFINE n == Len(msgs)
           more == Append(msgs, m)
<1>1. PICK K \in [Nat -> Views] :
        /\ K[0] = v /\ K[n] = w
        /\ \A i \in 1..n : Legal(K[i - 1], msgs[i]) /\ K[i] = After(K[i - 1], msgs[i])
  BY DEF Leads
<1>2. n \in Nat /\ w \in Views
  BY <1>1
<1> DEFINE J == [K EXCEPT ![n + 1] = After(w, m)]
<1>3. J \in [Nat -> Views] /\ J[n + 1] = After(w, m)
      /\ \A i \in Nat : i # n + 1 => J[i] = K[i]
  BY <1>1, <1>2, AfterType
<1>4. Len(more) = n + 1 /\ more[n + 1] = m /\ \A i \in 1..n : more[i] = msgs[i]
  OBVIOUS
<1> HIDE DEF J, more
<1>5. ASSUME NEW i \in 1..(n + 1)
      PROVE  Legal(J[i - 1], more[i]) /\ J[i] = After(J[i - 1], more[i])
  <2>1. i - 1 \in Nat /\ i - 1 # n + 1 /\ J[i - 1] = K[i - 1]
    BY <1>2, <1>3
  <2>2. CASE i = n + 1
    <3>1. i - 1 = n
      BY <1>2, <2>2
    <3> QED
      BY <1>1, <1>3, <1>4, <2>1, <2>2, <3>1
  <2>3. CASE i # n + 1
    <3>1. i \in 1..n /\ J[i] = K[i]
      BY <1>2, <1>3, <2>3
    <3> QED
      BY <1>1, <1>4, <2>1, <3>1
  <2> QED
    BY <2>2, <2>3
<1>6. J[0] = v
  BY <1>1, <1>2, <1>3
<1> QED
  BY <1>3, <1>4, <1>5, <1>6 DEF Leads, more

\* A message less: the handler has made of v what the message says.
LEMMA LeadsFrom ==
    ASSUME NEW v \in Views, NEW w, NEW msgs \in Seq(Messages), msgs # <<>>, Leads(v, msgs, w)
    PROVE  Legal(v, Head(msgs)) /\ Leads(After(v, Head(msgs)), Tail(msgs), w)
<1> DEFINE n == Len(msgs)
           rest == Tail(msgs)
<1>1. PICK K \in [Nat -> Views] :
        /\ K[0] = v /\ K[n] = w
        /\ \A i \in 1..n : Legal(K[i - 1], msgs[i]) /\ K[i] = After(K[i - 1], msgs[i])
  BY DEF Leads
<1>2. n \in Nat /\ n > 0 /\ Head(msgs) = msgs[1]
  OBVIOUS
<1> DEFINE J == [i \in Nat |-> K[i + 1]]
<1>3. J \in [Nat -> Views] /\ \A i \in Nat : J[i] = K[i + 1]
  BY <1>1
<1>4. Len(rest) = n - 1 /\ \A i \in 1..(n - 1) : rest[i] = msgs[i + 1]
  BY <1>2, HeadTailProperties
<1> HIDE DEF J, rest
<1>5. 1 \in 1..n /\ 1 - 1 = 0
  BY <1>2
<1>6. Legal(v, Head(msgs)) /\ J[0] = After(v, Head(msgs))
  BY <1>1, <1>2, <1>3, <1>5
<1>7. ASSUME NEW i \in 1..(n - 1)
      PROVE  Legal(J[i - 1], rest[i]) /\ J[i] = After(J[i - 1], rest[i])
  <2>1. i - 1 \in Nat /\ i \in Nat /\ i + 1 \in 1..n /\ (i - 1) + 1 = i /\ (i + 1) - 1 = i
    BY <1>2
  <2>2. J[i - 1] = K[i] /\ J[i] = K[i + 1]
    BY <1>3, <2>1
  <2>3. Legal(K[i], msgs[i + 1]) /\ K[i + 1] = After(K[i], msgs[i + 1])
    BY <1>1, <2>1
  <2> QED
    BY <1>4, <2>2, <2>3
<1>8. n - 1 \in Nat /\ J[n - 1] = w
  BY <1>1, <1>2, <1>3
<1> QED
  BY <1>3, <1>4, <1>6, <1>7, <1>8 DEF Leads, rest

LEMMA KnownType ==
    ASSUME NEW t, NEW s
    PROVE  Known(t, s) \in Views
<1>1. (s \in DOMAIN t.ports) \in BOOLEAN
  OBVIOUS
<1> QED
  BY <1>1 DEF Known, Views

LEMMA ShownType ==
    ASSUME NEW t, IsTopology(t), NEW l \in Locations, HasPort(t, l)
    PROVE  Shown(PortAt(t, l)) \in Reports
<1>1. PortAt(t, l) \in Ports
  BY DEF IsTopology, HasPort, PortAt
<1> QED
  BY <1>1 DEF Shown, Reports, Ports

\* Two topologies that show the same of a switch, but for one port.
SameBut(t, u, s, p) ==
    /\ s \in DOMAIN u.ports <=> s \in DOMAIN t.ports
    /\ \A q \in PortNos \ {p} :
        /\ HasPort(u, <<s, q>>) <=> HasPort(t, <<s, q>>)
        /\ HasPort(t, <<s, q>>) => Shown(PortAt(u, <<s, q>>)) = Shown(PortAt(t, <<s, q>>))

LEMMA KnownBut ==
    ASSUME NEW t, NEW u, NEW s \in Switches, NEW p \in PortNos, SameBut(t, u, s, p)
    PROVE  /\ Known(u, s).here = Known(t, s).here
           /\ Others(Known(u, s), p) = Others(Known(t, s), p)
           /\ ~HasPort(u, <<s, p>>) => Known(u, s).ports = Others(Known(t, s), p)
           /\ HasPort(u, <<s, p>>) /\ Shown(PortAt(u, <<s, p>>)) \in Reports =>
                Known(u, s).ports = Others(Known(t, s), p) \cup {<<p, Shown(PortAt(u, <<s, p>>))>>}
<1> DEFINE In(x, v) == HasPort(v, <<s, x[1]>>) /\ x[2] = Shown(PortAt(v, <<s, x[1]>>))
<1>1. \A x \in PortNos \X Reports : x = <<x[1], x[2]>> /\ x[1] \in PortNos
  OBVIOUS
<1>2. \A x \in PortNos \X Reports : x[1] # p => (In(x, u) <=> In(x, t))
  BY <1>1 DEF SameBut
<1>3. \A x \in PortNos \X Reports : /\ x \in Known(u, s).ports <=> In(x, u)
                                    /\ x \in Known(t, s).ports <=> In(x, t)
  BY DEF Known
<1>4. Known(u, s).ports \subseteq PortNos \X Reports /\ Known(t, s).ports \subseteq PortNos \X Reports
  BY DEF Known
<1>5. Others(Known(u, s), p) = Others(Known(t, s), p)
  <2> HIDE DEF In
  <2> QED
    BY <1>2, <1>3, <1>4 DEF Others
<1>6. Known(u, s).here = Known(t, s).here
  BY DEF Known, SameBut
<1>7. ASSUME ~HasPort(u, <<s, p>>)
      PROVE  Known(u, s).ports = Others(Known(t, s), p)
  BY <1>3, <1>4, <1>5, <1>7 DEF Others
<1>8. ASSUME HasPort(u, <<s, p>>), Shown(PortAt(u, <<s, p>>)) \in Reports
      PROVE  Known(u, s).ports = Others(Known(t, s), p) \cup {<<p, Shown(PortAt(u, <<s, p>>))>>}
  <2> DEFINE one == <<p, Shown(PortAt(u, <<s, p>>))>>
  <2>1. one \in PortNos \X Reports /\ In(one, u)
    BY <1>8
  <2>2. \A x \in PortNos \X Reports : x[1] = p /\ In(x, u) => x = one
    BY <1>1
  <2> HIDE DEF one, In
  <2>3. Known(u, s).ports = Others(Known(u, s), p) \cup {one}
    BY <1>3, <1>4, <2>1, <2>2 DEF Others
  <2> QED
    BY <1>5, <2>3 DEF one
<1> QED
  BY <1>5, <1>6, <1>7, <1>8

LEMMA KnownSame ==
    ASSUME NEW t, IsTopology(t), NEW u, NEW s \in Switches,
           s \in DOMAIN u.ports <=> s \in DOMAIN t.ports,
           \A q \in PortNos :
              /\ HasPort(u, <<s, q>>) <=> HasPort(t, <<s, q>>)
              /\ HasPort(t, <<s, q>>) => Shown(PortAt(u, <<s, q>>)) = Shown(PortAt(t, <<s, q>>))
    PROVE  Known(u, s) = Known(t, s)
<1>1. \A x \in PortNos \X Reports :
        (HasPort(u, <<s, x[1]>>) /\ x[2] = Shown(PortAt(u, <<s, x[1]>>)))
          <=> (HasPort(t, <<s, x[1]>>) /\ x[2] = Shown(PortAt(t, <<s, x[1]>>)))
  OBVIOUS
<1>2. Known(u, s).ports = Known(t, s).ports
  BY <1>1 DEF Known
<1>3. Known(u, s).here = Known(t, s).here
  BY DEF Known
<1> QED
  BY <1>2, <1>3 DEF Known

LEMMA KnownFrame ==
    ASSUME NEW t, IsTopology(t), NEW u, SameFrame(t, u), NEW s \in Switches
    PROVE  Known(u, s) = Known(t, s)
<1>1. \A q \in PortNos : <<s, q>> \in Locations
  BY DEF Locations
<1>2. \A l \in Locations : /\ HasPort(u, l) <=> HasPort(t, l)
                           /\ HasPort(t, l) => Shown(PortAt(u, l)) = Shown(PortAt(t, l))
  BY HasPortDomain DEF SameFrame, Shown
<1> QED
  BY <1>1, <1>2, KnownSame DEF SameFrame

\* What the legality of a message says of the switch.
LEMMA KnownLegal ==
    ASSUME NEW t, IsTopology(t), NEW s \in Switches, NEW p \in PortNos
    PROVE  /\ Known(t, s).here <=> s \in DOMAIN t.ports
           /\ Known(t, s) = Nowhere => s \notin DOMAIN t.ports
           /\ Others(Known(t, s), p) # Known(t, s).ports <=> HasPort(t, <<s, p>>)
<1>1. Known(t, s).here <=> s \in DOMAIN t.ports
  BY DEF Known
<1>2. <<s, p>> \in Locations
  BY DEF Locations
<1>3. SameBut(t, t, s, p)
  BY DEF SameBut
<1>4. ~HasPort(t, <<s, p>>) => Known(t, s).ports = Others(Known(t, s), p)
  BY <1>3, KnownBut
<1>5. ASSUME HasPort(t, <<s, p>>)
      PROVE  Others(Known(t, s), p) # Known(t, s).ports
  <2> DEFINE one == <<p, Shown(PortAt(t, <<s, p>>))>>
  <2>1. one \in Known(t, s).ports
    BY <1>2, <1>3, <1>5, ShownType, KnownBut
  <2>2. one \notin Others(Known(t, s), p)
    BY DEF Others
  <2> QED
    BY <2>1, <2>2
<1> QED
  BY <1>1, <1>4, <1>5 DEF Nowhere

\* A handler makes of what is known of its switch what the message says, and
\* of the other switches nothing.
HandlerShows(s) ==
    /\ Known(nextTopo', s) = After(Known(nextTopo, s), Head(events[s]))
    /\ \A r \in Switches \ {s} : Known(nextTopo', r) = Known(nextTopo, r)

LEMMA OtherSwitches ==
    ASSUME TypeOK, NEW s \in Switches,
           DOMAIN nextTopo'.ports \ {s} = DOMAIN nextTopo.ports \ {s},
           \A l \in Locations : l[1] # s =>
              /\ HasPort(nextTopo', l) <=> HasPort(nextTopo, l)
              /\ HasPort(nextTopo, l) =>
                    Shown(PortAt(nextTopo', l)) = Shown(PortAt(nextTopo, l))
    PROVE  \A r \in Switches \ {s} : Known(nextTopo', r) = Known(nextTopo, r)
<1> SUFFICES ASSUME NEW r \in Switches \ {s}
             PROVE  Known(nextTopo', r) = Known(nextTopo, r)
  OBVIOUS
<1>1. r \in DOMAIN nextTopo'.ports <=> r \in DOMAIN nextTopo.ports
  OBVIOUS
<1>2. \A q \in PortNos : <<r, q>> \in Locations /\ <<r, q>>[1] # s
  BY DEF Locations
<1>3. IsTopology(nextTopo)
  BY DEF TypeOK
<1>4. \A q \in PortNos :
        /\ HasPort(nextTopo', <<r, q>>) <=> HasPort(nextTopo, <<r, q>>)
        /\ HasPort(nextTopo, <<r, q>>) =>
              Shown(PortAt(nextTopo', <<r, q>>)) = Shown(PortAt(nextTopo, <<r, q>>))
  BY <1>2
<1> QED
  BY <1>1, <1>3, <1>4, KnownSame

LEMMA SwitchJoinShows ==
    ASSUME TypeOK, NEW s \in Switches, HandleSwitchJoin(s)
    PROVE  HandlerShows(s)
<1>1. Head(events[s]).type = "sjoin"
  BY DEF HandleSwitchJoin, Receive
<1>2. /\ DOMAIN nextTopo'.ports = DOMAIN nextTopo.ports \cup {s}
      /\ \A l \in Locations :
           /\ HasPort(nextTopo', l) <=> HasPort(nextTopo, l) /\ l[1] # s
           /\ HasPort(nextTopo', l) => PortAt(nextTopo', l) = PortAt(nextTopo, l)
  <2> DEFINE u == [nextTopo EXCEPT !.ports =
                        [r \in DOMAIN @ \cup {s} |-> IF r = s THEN <<>> ELSE @[r]]]
  <2>1. nextTopo' = u
    BY DEF HandleSwitchJoin
  <2>2. IsTopology(nextTopo)
    BY DEF TypeOK
  <2>3. /\ DOMAIN u.ports = DOMAIN nextTopo.ports \cup {s}
        /\ \A l \in Locations :
             /\ HasPort(u, l) <=> HasPort(nextTopo, l) /\ l[1] # s
             /\ HasPort(u, l) => PortAt(u, l) = PortAt(nextTopo, l)
    BY <2>2, SwitchAdded
  <2> HIDE DEF u
  <2> QED
    BY <2>1, <2>3
<1>3. \A q \in PortNos : ~HasPort(nextTopo', <<s, q>>)
  BY <1>2 DEF Locations
<1>4. Known(nextTopo', s) = [here |-> TRUE, ports |-> {}]
  BY <1>2, <1>3 DEF Known
<1>5. Known(nextTopo', s) = After(Known(nextTopo, s), Head(events[s]))
  BY <1>1, <1>4 DEF After
<1>6. \A r \in Switches \ {s} : Known(nextTopo', r) = Known(nextTopo, r)
  BY <1>2, OtherSwitches
<1> QED
  BY <1>5, <1>6 DEF HandlerShows

LEMMA SwitchPartShows ==
    ASSUME TypeOK, NEW s \in Switches, HandleSwitchPart(s),
           Legal(Known(nextTopo, s), Head(events[s]))
    PROVE  HandlerShows(s)
<1>1. Head(events[s]).type = "spart"
  BY DEF HandleSwitchPart, Receive
<1>2. s \in DOMAIN nextTopo.ports
  BY <1>1 DEF Legal, Known
<1>3. /\ DOMAIN nextTopo'.ports = DOMAIN nextTopo.ports \ {s}
      /\ \A l \in Locations :
           /\ HasPort(nextTopo', l) <=> HasPort(nextTopo, l) /\ l[1] # s
           /\ HasPort(nextTopo', l) => PortAt(nextTopo', l) =
                IF \E m \in Locations : m[1] = s /\ HasPort(nextTopo, m) /\ Peer(nextTopo, m) = l
                THEN [PortAt(nextTopo, l) EXCEPT !.linked_to = NoLoc] ELSE PortAt(nextTopo, l)
  BY <1>2, SwitchRemoved DEF TypeOK, HandleSwitchPart
<1>4. \A l \in Locations : HasPort(nextTopo', l) =>
          Shown(PortAt(nextTopo', l)) = Shown(PortAt(nextTopo, l))
  <2>1. \A l \in Locations : HasPort(nextTopo, l) => PortAt(nextTopo, l) \in Ports
    BY DEF TypeOK, IsTopology, HasPort, PortAt
  <2> SUFFICES ASSUME NEW l \in Locations, HasPort(nextTopo', l)
               PROVE  Shown(PortAt(nextTopo', l)) = Shown(PortAt(nextTopo, l))
    OBVIOUS
  <2>2. PortAt(nextTopo, l) \in Ports
    BY <1>3, <2>1
  <2>3. PortAt(nextTopo', l) \in {PortAt(nextTopo, l),
                                  [PortAt(nextTopo, l) EXCEPT !.linked_to = NoLoc]}
    BY <1>3
  <2> QED
    BY <2>2, <2>3 DEF Shown, Ports
<1>5. \A q \in PortNos : ~HasPort(nextTopo', <<s, q>>)
  BY <1>3 DEF Locations
<1>6. Known(nextTopo', s) = Nowhere
  <2>1. (s \in DOMAIN nextTopo'.ports) = FALSE
    BY <1>3
  <2>2. Known(nextTopo', s).ports = {}
    BY <1>5 DEF Known
  <2> QED
    BY <2>1, <2>2 DEF Known, Nowhere
<1>7. Known(nextTopo', s) = After(Known(nextTopo, s), Head(events[s]))
  BY <1>1, <1>6 DEF After
<1>8. \A r \in Switches \ {s} : Known(nextTopo', r) = Known(nextTopo, r)
  BY <1>3, <1>4, OtherSwitches
<1> QED
  BY <1>7, <1>8 DEF HandlerShows

LEMMA PortJoinShows ==
    ASSUME TypeOK, NEW s \in Switches, HandlePortJoin(s),
           Legal(Known(nextTopo, s), Head(events[s]))
    PROVE  HandlerShows(s)
<1> DEFINE e == Head(events[s])
           loc == <<s, e.port>>
           port == NewPort(e.report.config, e.report.status)
<1>1. e \in Messages /\ e.type = "pjoin"
  BY ReceiveType DEF HandlePortJoin
<1>2. e.port \in PortNos /\ e.report \in Reports
  BY <1>1, MessageParts
<1>3. s \in DOMAIN nextTopo.ports
  BY <1>1 DEF Legal, Known
<1>4. nextTopo' = SetPort(nextTopo, loc, port)
  BY <1>3 DEF HandlePortJoin
<1>5. Shown(port) = e.report
  BY <1>2 DEF Shown, NewPort, Reports
<1>6. loc \in Locations /\ loc[1] = s
  BY <1>2 DEF Locations
<1> HIDE DEF port
<1>7. /\ DOMAIN nextTopo'.ports = DOMAIN nextTopo.ports
      /\ \A l \in Locations :
           /\ HasPort(nextTopo', l) <=> HasPort(nextTopo, l) \/ l = loc
           /\ HasPort(nextTopo', l) => PortAt(nextTopo', l) = IF l = loc THEN port ELSE PortAt(nextTopo, l)
  <2>1. DOMAIN nextTopo = {"ports", "edges"}
    BY DEF TypeOK, IsTopology
  <2> HIDE DEF loc
  <2> QED
    BY <1>3, <1>4, <1>6, <2>1, SetPortEffect
<1>8. SameBut(nextTopo, nextTopo', s, e.port)
  <2>1. \A q \in PortNos \ {e.port} : <<s, q>> \in Locations /\ <<s, q>> # loc
    BY DEF Locations
  <2> QED
    BY <1>7, <2>1 DEF SameBut
<1>9. HasPort(nextTopo', loc) /\ Shown(PortAt(nextTopo', loc)) = e.report
  BY <1>5, <1>6, <1>7
<1>10. /\ Known(nextTopo', s).here = Known(nextTopo, s).here
       /\ Known(nextTopo', s).ports = Others(Known(nextTopo, s), e.port) \cup {<<e.port, e.report>>}
  BY <1>2, <1>8, <1>9, KnownBut
<1>11. Known(nextTopo', s) = After(Known(nextTopo, s), e)
  BY <1>1, <1>10 DEF After, Known
<1>12. \A r \in Switches \ {s} : Known(nextTopo', r) = Known(nextTopo, r)
  BY <1>6, <1>7, OtherSwitches
<1> QED
  BY <1>11, <1>12 DEF HandlerShows

LEMMA PortPartShows ==
    ASSUME TypeOK, NEW s \in Switches, HandlePortPart(s),
           Legal(Known(nextTopo, s), Head(events[s]))
    PROVE  HandlerShows(s)
<1> DEFINE e == Head(events[s])
           loc == <<s, e.port>>
           cut == RemoveAssociatedLink(nextTopo, loc)
<1>1. e \in Messages /\ e.type = "ppart"
  BY ReceiveType DEF HandlePortPart
<1>2. e.port \in PortNos
  BY <1>1, MessageParts
<1>3. loc \in Locations /\ loc[1] = s /\ IsTopology(nextTopo)
  BY <1>2 DEF Locations, TypeOK
<1>4. HasPort(nextTopo, loc)
  BY <1>1, <1>2, <1>3, KnownLegal DEF Legal
<1>5. nextTopo' = [cut EXCEPT !.ports[loc[1]] = Restrict(@, DOMAIN @ \ {loc[2]})]
  BY <1>4 DEF HandlePortPart
<1> HIDE DEF loc
<1>6. SameFrame(nextTopo, cut) /\ IsTopology(cut)
  BY <1>3, <1>4, UnlinkEffect
<1> HIDE DEF cut
<1>7. HasPort(cut, loc)
  BY <1>4, <1>6, HasPortDomain DEF SameFrame
<1>8. /\ DOMAIN nextTopo'.ports = DOMAIN cut.ports
      /\ \A l \in Locations :
           /\ HasPort(nextTopo', l) <=> HasPort(cut, l) /\ l # loc
           /\ HasPort(nextTopo', l) => PortAt(nextTopo', l) = PortAt(cut, l)
  BY <1>3, <1>5, <1>6, <1>7, PortRemoved
<1>9. /\ DOMAIN nextTopo'.ports = DOMAIN nextTopo.ports
      /\ \A l \in Locations :
           /\ HasPort(nextTopo', l) <=> HasPort(nextTopo, l) /\ l # loc
           /\ HasPort(nextTopo', l) => Shown(PortAt(nextTopo', l)) = Shown(PortAt(nextTopo, l))
  BY <1>6, <1>8, HasPortDomain DEF SameFrame, Shown
<1>10. SameBut(nextTopo, nextTopo', s, e.port)
  <2>1. \A q \in PortNos \ {e.port} : <<s, q>> \in Locations /\ <<s, q>> # loc
    BY DEF Locations, loc
  <2> QED
    BY <1>9, <2>1 DEF SameBut
<1>11. ~HasPort(nextTopo', <<s, e.port>>)
  BY <1>3, <1>9 DEF loc
<1>12. /\ Known(nextTopo', s).here = Known(nextTopo, s).here
       /\ Known(nextTopo', s).ports = Others(Known(nextTopo, s), e.port)
  BY <1>2, <1>10, <1>11, KnownBut
<1>13. Known(nextTopo', s) = After(Known(nextTopo, s), e)
  BY <1>1, <1>12 DEF After, Known
<1>14. \A r \in Switches \ {s} : Known(nextTopo', r) = Known(nextTopo, r)
  BY <1>3, <1>9, OtherSwitches
<1> QED
  BY <1>13, <1>14 DEF HandlerShows

LEMMA PortModShows ==
    ASSUME TypeOK, NEW s \in Switches, HandlePortMod(s),
           Legal(Known(nextTopo, s), Head(events[s]))
    PROVE  HandlerShows(s)
<1> DEFINE e == Head(events[s])
           loc == <<s, e.port>>
           prev == PortAt(nextTopo, loc)
           set == SetPort(nextTopo, loc, [prev EXCEPT
                      !.config = e.report.config, !.status = e.report.status])
           downs == {f \in {"config", "status"} : prev[f] /\ ~e.report[f]}
           ups == {f \in {"config", "status"} : ~prev[f] /\ e.report[f]}
<1>1. e \in Messages /\ e.type = "pmod"
  BY ReceiveType DEF HandlePortMod
<1>2. e.port \in PortNos /\ e.report \in Reports
  BY <1>1, MessageParts
<1>3. loc \in Locations /\ loc[1] = s /\ IsTopology(nextTopo)
  BY <1>2 DEF Locations, TypeOK
<1>4. HasPort(nextTopo, loc)
  BY <1>1, <1>2, <1>3, KnownLegal DEF Legal
<1>5. /\ HasPort(nextTopo', loc) /\ Shown(PortAt(nextTopo', loc)) = e.report
      /\ DOMAIN nextTopo'.ports = DOMAIN nextTopo.ports
      /\ \A l \in Locations :
           /\ HasPort(nextTopo', l) <=> HasPort(nextTopo, l)
           /\ HasPort(nextTopo, l) /\ l # loc =>
                Shown(PortAt(nextTopo', l)) = Shown(PortAt(nextTopo, l))
  <2>1. CASE downs \cup ups # {}
    <3>1. nextTopo' = IF downs = {} THEN set ELSE RemoveAssociatedLink(set, loc)
      BY <1>4, <2>1 DEF HandlePortMod
    <3>2. set = Updated(nextTopo, loc, e.report)
      BY DEF Updated
    <3> HIDE DEF e, loc, downs, set
    <3>3. /\ IsTopology(set) /\ set.edges = nextTopo.edges
          /\ DOMAIN set.ports = DOMAIN nextTopo.ports
          /\ \A l \in Locations :
               /\ HasPort(set, l) <=> HasPort(nextTopo, l)
               /\ HasPort(nextTopo, l) => Peer(set, l) = Peer(nextTopo, l)
               /\ HasPort(nextTopo, l) /\ l # loc => PortAt(set, l) = PortAt(nextTopo, l)
          /\ PortAt(set, loc).config = e.report.config /\ PortAt(set, loc).status = e.report.status
      BY <1>2, <1>3, <1>4, <3>2, PortUpdated
    <3>4. Shown(PortAt(set, loc)) = e.report
      BY <1>2, <3>3 DEF Shown, Reports
    <3>5. CASE downs = {}
      BY <1>3, <1>4, <3>1, <3>3, <3>4, <3>5
    <3>6. CASE downs # {}
      <4>1. SameFrame(set, nextTopo')
        BY <1>3, <1>4, <3>1, <3>3, <3>6, UnlinkEffect
      <4>2. \A l \in Locations : /\ HasPort(nextTopo', l) <=> HasPort(set, l)
                                 /\ HasPort(set, l) => Shown(PortAt(nextTopo', l)) = Shown(PortAt(set, l))
        BY <4>1, HasPortDomain DEF SameFrame, Shown
      <4>3. DOMAIN nextTopo'.ports = DOMAIN set.ports
        BY <4>1 DEF SameFrame
      <4> QED
        BY <1>3, <1>4, <3>3, <3>4, <4>2, <4>3
    <3> QED
      BY <3>5, <3>6
  <2>2. CASE downs \cup ups = {}
    <3>1. nextTopo' = nextTopo
      BY <2>2 DEF HandlePortMod, Ignore
    <3>2. prev \in Ports
      BY <1>3, <1>4 DEF IsTopology, HasPort, PortAt
    <3>3. \A f \in {"config", "status"} : prev[f] <=> e.report[f]
      BY <2>2
    <3> HIDE DEF prev
    <3>4. prev.config = e.report.config /\ prev.status = e.report.status
      BY <1>2, <3>2, <3>3 DEF Ports, Reports
    <3>5. Shown(prev) = e.report
      BY <1>2, <3>4 DEF Shown, Reports
    <3> QED
      BY <1>4, <3>1, <3>5 DEF prev
  <2> QED
    BY <2>1, <2>2
<1>6. SameBut(nextTopo, nextTopo', s, e.port)
  <2>1. \A q \in PortNos \ {e.port} : <<s, q>> \in Locations /\ <<s, q>> # loc
    BY DEF Locations
  <2> QED
    BY <1>5, <2>1 DEF SameBut
<1>7. /\ Known(nextTopo', s).here = Known(nextTopo, s).here
      /\ Known(nextTopo', s).ports = Others(Known(nextTopo, s), e.port) \cup {<<e.port, e.report>>}
  BY <1>2, <1>5, <1>6, KnownBut
<1>8. Known(nextTopo', s) = After(Known(nextTopo, s), e)
  BY <1>1, <1>7 DEF After, Known
<1>9. \A r \in Switches \ {s} : Known(nextTopo', r) = Known(nextTopo, r)
  BY <1>3, <1>5, OtherSwitches
<1> QED
  BY <1>8, <1>9 DEF HandlerShows

LEMMA LinkUpdateShows ==
    ASSUME TypeOK, NEW s \in Switches, HandleLinkUpdate(s)
    PROVE  HandlerShows(s)
<1> DEFINE l1 == Head(events[s]).from
           l2 == Head(events[s]).to
           up == PossiblyUp(PortAt(nextTopo, l1)) /\ PossiblyUp(PortAt(nextTopo, l2))
           cut == RemoveOldLinks(nextTopo, l1, l2)
<1>1. Head(events[s]).type = "link" /\ l1 \in Locations /\ l2 \in Locations
  BY ReceiveType, MessageParts DEF HandleLinkUpdate
<1>2. IsTopology(nextTopo)
  BY DEF TypeOK
<1>3. SameFrame(nextTopo, nextTopo')
  <2>1. CASE nextTopo' = nextTopo
    BY <1>2, <2>1, FrameRefl
  <2>2. CASE nextTopo' # nextTopo
    <3>1. /\ HasPort(nextTopo, l1) /\ HasPort(nextTopo, l2)
          /\ nextTopo' = IF up THEN AddLink(cut, l1, l2) ELSE cut
      BY <2>2 DEF HandleLinkUpdate, Ignore, Raise
    <3> HIDE DEF l1, l2, up
    <3>2. SameFrame(nextTopo, cut) /\ IsTopology(cut)
      BY <1>1, <1>2, <3>1, OldLinksFrame
    <3> HIDE DEF cut
    <3>3. HasPort(cut, l1) /\ HasPort(cut, l2)
      BY <3>1, <3>2, HasPortDomain DEF SameFrame
    <3> QED
      BY <1>1, <3>1, <3>2, <3>3, LinkAdded, FrameTrans
  <2> QED
    BY <2>1, <2>2
<1>4. \A r \in Switches : Known(nextTopo', r) = Known(nextTopo, r)
  BY <1>2, <1>3, KnownFrame
<1>5. After(Known(nextTopo, s), Head(events[s])) = Known(nextTopo, s)
  BY <1>1 DEF After
<1> QED
  BY <1>4, <1>5 DEF HandlerShows

-----------------------------------------------------------------------------
(* The network's side of the queues.                                        *)
Changed(l, plg, adm) == Report(l, plg, adm) # Report(l, plugged, admin)

\* An operation changes the report of at most one port of a switch.
OnePerSwitch(plg, adm) ==
    \A l, m \in Locations :
        l[1] = m[1] /\ Changed(l, plg, adm) /\ Changed(m, plg, adm) => l = m

PluggedApart == \A c, d \in plugged : c # d => c \cap d = {}

LEMMA CableChange ==
    ASSUME TypeOK, NEW c \in Cables, NEW plg \in {plugged \cup {c}, plugged \ {c}}
    PROVE  OnePerSwitch(plg, admin)
<1>1. ASSUME NEW l \in Locations, l \notin c
      PROVE  ~Changed(l, plg, admin)
  <2>1. Carrier(l, plg, admin) <=> Carrier(l, plugged, admin)
    BY <1>1 DEF Carrier
  <2> QED
    BY <2>1 DEF Changed, Report
<1>2. PICK j \in Locations, k \in Locations : c = {j, k} /\ j[1] # k[1]
  BY CablesAssumption
<1> QED
  BY <1>1, <1>2 DEF OnePerSwitch

LEMMA AdminChange ==
    ASSUME TypeOK, PluggedApart, NEW l \in Locations,
           NEW adm \in {admin \cup {l}, admin \ {l}}
    PROVE  /\ OnePerSwitch(plugged, adm)
           /\ \A m \in Locations : m[1] = l[1] /\ m # l => ~Changed(m, plugged, adm)
<1>1. ASSUME NEW m \in Locations, m # l, \A c \in plugged : ~(m \in c /\ l \in c)
      PROVE  ~Changed(m, plugged, adm)
  <2>1. m \in adm <=> m \in admin
    BY <1>1
  <2>2. ASSUME NEW c \in plugged, m \in c
        PROVE  c \subseteq adm <=> c \subseteq admin
    BY <1>1, <2>2
  <2>3. Carrier(m, plugged, adm) <=> Carrier(m, plugged, admin)
    BY <2>2 DEF Carrier
  <2> QED
    BY <2>1, <2>3 DEF Changed, Report
<1>2. ASSUME NEW c \in plugged, NEW m \in c, l \in c, m # l
      PROVE  m[1] # l[1] /\ c = {l, m}
  <2>1. PICK j \in Locations, k \in Locations : c = {j, k} /\ j[1] # k[1]
    BY <1>2, CablesAssumption DEF TypeOK
  <2> QED
    BY <1>2, <2>1
<1>3. ASSUME NEW m \in Locations, m[1] = l[1], m # l
      PROVE  ~Changed(m, plugged, adm)
  BY <1>1, <1>2, <1>3
<1>4. ASSUME NEW j \in Locations, NEW k \in Locations, j[1] = k[1],
             Changed(j, plugged, adm), Changed(k, plugged, adm)
      PROVE  j = k
  <2>1. CASE j = l \/ k = l
    BY <1>3, <1>4, <2>1
  <2>2. CASE j # l /\ k # l
    <3>1. PICK c \in plugged : j \in c /\ l \in c
      BY <1>1, <1>4, <2>2
    <3>2. PICK d \in plugged : k \in d /\ l \in d
      BY <1>1, <1>4, <2>2
    <3>3. c = d
      BY <3>1, <3>2 DEF PluggedApart
    <3> QED
      BY <1>2, <2>2, <3>1, <3>2, <3>3
  <2> QED
    BY <2>1, <2>2
<1> QED
  BY <1>3, <1>4 DEF OnePerSwitch

\* The queue of a switch after an operation: as it was, and then no port of
\* the switch changed, or one message longer.
LEMMA ReportedSwitch ==
    ASSUME TypeOK, NEW ps, NEW plg, NEW adm, NEW s \in Switches
    PROVE  \/ /\ Reported(ps, plg, adm)[s] = events[s]
              /\ s \in attached =>
                    \A p \in PortNos : <<s, p>> \in ps => ~Changed(<<s, p>>, plg, adm)
           \/ /\ s \in attached
              /\ \E p \in PortNos :
                    /\ <<s, p>> \in ps /\ Changed(<<s, p>>, plg, adm)
                    /\ Reported(ps, plg, adm)[s] =
                            Append(events[s], PortEvent("pmod", <<s, p>>, plg, adm))
<1> DEFINE changed == {p \in PortNos : <<s, p>> \in ps /\ Changed(<<s, p>>, plg, adm)}
           p == CHOOSE p \in changed : TRUE
<1>1. Reported(ps, plg, adm)[s] =
        IF s \in attached /\ changed # {}
        THEN Append(events[s], PortEvent("pmod", <<s, p>>, plg, adm)) ELSE events[s]
  BY DEF Reported, Changed
<1>2. changed # {} => p \in changed
  OBVIOUS
<1> HIDE DEF p
<1>3. CASE s \in attached /\ changed # {}
  BY <1>1, <1>2, <1>3
<1>4. CASE ~(s \in attached /\ changed # {})
  BY <1>1, <1>4
<1> QED
  BY <1>3, <1>4

\* Two states of the network in which a switch is the same, but for one port.
LEMMA ActualBut ==
    ASSUME NEW s \in Switches, NEW p \in PortNos, NEW att, NEW att2, s \in att2 <=> s \in att,
           NEW pres, NEW plg, NEW adm, NEW pres2, NEW plg2, NEW adm2,
           \A q \in PortNos \ {p} : s \in att =>
              /\ <<s, q>> \in pres2 <=> <<s, q>> \in pres
              /\ <<s, q>> \in pres => Report(<<s, q>>, plg2, adm2) = Report(<<s, q>>, plg, adm)
    PROVE  LET w  == Actual(s, att, pres, plg, adm)
               w2 == Actual(s, att2, pres2, plg2, adm2)
           IN
           /\ w2.here = w.here
           /\ s \in att /\ <<s, p>> \in pres2 =>
                w2.ports = Others(w, p) \cup {<<p, Report(<<s, p>>, plg2, adm2)>>}
           /\ ~(s \in att /\ <<s, p>> \in pres2) => w2.ports = Others(w, p)
           /\ s \in att /\ <<s, p>> \in pres <=> Others(w, p) # w.ports
<1> DEFINE w == Actual(s, att, pres, plg, adm)
           w2 == Actual(s, att2, pres2, plg2, adm2)
           In(x) == s \in att /\ <<s, x[1]>> \in pres /\ x[2] = Report(<<s, x[1]>>, plg, adm)
           In2(x) == s \in att2 /\ <<s, x[1]>> \in pres2 /\ x[2] = Report(<<s, x[1]>>, plg2, adm2)
           one == <<p, Report(<<s, p>>, plg, adm)>>
           one2 == <<p, Report(<<s, p>>, plg2, adm2)>>
<1>1. \A x \in PortNos \X Reports : x = <<x[1], x[2]>> /\ x[1] \in PortNos
  OBVIOUS
<1>2. \A x \in PortNos \X Reports : x[1] # p => (In(x) <=> In2(x))
  BY <1>1
<1>3. /\ w.ports = {x \in PortNos \X Reports : In(x)}
      /\ w2.ports = {x \in PortNos \X Reports : In2(x)}
      /\ w2.here = w.here
  BY DEF Actual
<1>4. one \in PortNos \X Reports /\ one2 \in PortNos \X Reports
  BY ReportType
<1>5. \A x \in PortNos \X Reports : x[1] = p /\ In(x) => x = one
  BY <1>1
<1>6. \A x \in PortNos \X Reports : x[1] = p /\ In2(x) => x = one2
  BY <1>1
<1>7. (In(one) <=> s \in att /\ <<s, p>> \in pres) /\ (In2(one2) <=> s \in att /\ <<s, p>> \in pres2)
  OBVIOUS
<1>8. one[1] = p /\ one2[1] = p
  OBVIOUS
<1> HIDE DEF w, w2, In, In2, one, one2
<1>9. Others(w, p) = {x \in PortNos \X Reports : x[1] # p /\ In(x)}
  BY <1>3 DEF Others
<1>10. w2.ports = Others(w, p) \cup {x \in PortNos \X Reports : x[1] = p /\ In2(x)}
  BY <1>2, <1>3, <1>9
<1>11. s \in att /\ <<s, p>> \in pres2 => w2.ports = Others(w, p) \cup {one2}
  BY <1>4, <1>6, <1>7, <1>8, <1>10
<1>12. ~(s \in att /\ <<s, p>> \in pres2) => w2.ports = Others(w, p)
  BY <1>6, <1>7, <1>10
<1>13. s \in att /\ <<s, p>> \in pres <=> Others(w, p) # w.ports
  <2>1. ASSUME s \in att, <<s, p>> \in pres
        PROVE  one \in w.ports /\ one \notin Others(w, p)
    BY <1>3, <1>4, <1>7, <1>8, <1>9, <2>1
  <2>2. ASSUME ~(s \in att /\ <<s, p>> \in pres)
        PROVE  Others(w, p) = w.ports
    BY <1>3, <1>5, <1>7, <1>9, <2>2
  <2> QED
    BY <2>1, <2>2
<1> QED
  BY <1>3, <1>11, <1>12, <1>13 DEF w, w2, one2

LEMMA ActualSame ==
    ASSUME NEW s \in Switches, NEW att, NEW att2, s \in att2 <=> s \in att,
           NEW pres, NEW plg, NEW adm, NEW pres2, NEW plg2, NEW adm2,
           \A q \in PortNos : s \in att =>
              /\ <<s, q>> \in pres2 <=> <<s, q>> \in pres
              /\ <<s, q>> \in pres => Report(<<s, q>>, plg2, adm2) = Report(<<s, q>>, plg, adm)
    PROVE  Actual(s, att2, pres2, plg2, adm2) = Actual(s, att, pres, plg, adm)
<1>1. \A x \in PortNos \X Reports :
        (s \in att2 /\ <<s, x[1]>> \in pres2 /\ x[2] = Report(<<s, x[1]>>, plg2, adm2))
          <=> (s \in att /\ <<s, x[1]>> \in pres /\ x[2] = Report(<<s, x[1]>>, plg, adm))
  OBVIOUS
<1>2. Actual(s, att2, pres2, plg2, adm2).ports = Actual(s, att, pres, plg, adm).ports
  BY <1>1 DEF Actual
<1>3. (s \in att2) = (s \in att)
  OBVIOUS
<1>4. Actual(s, att2, pres2, plg2, adm2).here = Actual(s, att, pres, plg, adm).here
  BY <1>3 DEF Actual
<1> QED
  BY <1>2, <1>4 DEF Actual

Now(s) == Actual(s, attached, present, plugged, admin)

\* Every message of a switch is legal where it comes, and together they make
\* what is known of the switch what it is.
Streams == \A s \in Switches : Leads(Known(nextTopo, s), events[s], Now(s))

\* The queue grew by the report of the one port that changed.
LEMMA ReportedLeads ==
    ASSUME TypeOK, NEW plg, NEW adm, OnePerSwitch(plg, adm), NEW s \in Switches,
           NEW v, Leads(v, events[s], Now(s))
    PROVE  Leads(v, Reported(present, plg, adm)[s], Actual(s, attached, present, plg, adm))
<1>1. events[s] \in Seq(Messages)
  BY DEF TypeOK
<1>2. CASE /\ Reported(present, plg, adm)[s] = events[s]
           /\ s \in attached =>
                \A p \in PortNos : <<s, p>> \in present => ~Changed(<<s, p>>, plg, adm)
  <2>1. Actual(s, attached, present, plg, adm) = Now(s)
    BY <1>2, ActualSame DEF Changed, Now
  <2> QED
    BY <1>2, <2>1
<1>3. ASSUME NEW p \in PortNos, s \in attached, <<s, p>> \in present, Changed(<<s, p>>, plg, adm),
             Reported(present, plg, adm)[s] =
                Append(events[s], PortEvent("pmod", <<s, p>>, plg, adm))
      PROVE  Leads(v, Reported(present, plg, adm)[s], Actual(s, attached, present, plg, adm))
  <2> DEFINE m == PortEvent("pmod", <<s, p>>, plg, adm)
             w == Now(s)
             w2 == Actual(s, attached, present, plg, adm)
  <2>1. \A q \in PortNos \ {p} : ~Changed(<<s, q>>, plg, adm)
    <3>1. \A q \in PortNos : <<s, q>> \in Locations /\ <<s, q>>[1] = s /\ <<s, q>>[2] = q
      BY DEF Locations
    <3> QED
      BY <1>3, <3>1 DEF OnePerSwitch
  <2>2. /\ w2.here = w.here
        /\ w2.ports = Others(w, p) \cup {<<p, Report(<<s, p>>, plg, adm)>>}
        /\ Others(w, p) # w.ports
    BY <1>3, <2>1, ActualBut DEF Changed, Now
  <2>3. m.type = "pmod" /\ m.port = p /\ m.report = Report(<<s, p>>, plg, adm)
    BY DEF PortEvent
  <2>4. m \in Messages
    BY <1>3, PortEventType DEF Locations
  <2> HIDE DEF m
  <2>5. Legal(w, m)
    BY <2>2, <2>3 DEF Legal
  <2>6. w2 = After(w, m)
    BY <2>2, <2>3 DEF After, Actual
  <2> QED
    BY <1>1, <1>3, <2>4, <2>5, <2>6, LeadsOn DEF m
<1> QED
  BY <1>2, <1>3, ReportedSwitch

LEMMA SwapPortLeads ==
    ASSUME TypeOK, PluggedApart, NEW l \in SwapPorts, SwapPort(l), Streams
    PROVE  Streams'
<1> DEFINE gone == l \in present
           type == IF gone THEN "ppart" ELSE "pjoin"
           reported == Reported(present \ {l}, plugged, admin')
           m == PortEvent(type, l, plugged, admin')
<1>1. l \in Locations /\ l[1] \in Switches /\ l[2] \in PortNos /\ l = <<l[1], l[2]>>
  BY PortsAssumption, LocationParts
<1>2. /\ present' = IF gone THEN present \ {l} ELSE present \cup {l}
      /\ admin' \in {admin \cup {l}, admin \ {l}}
      /\ UNCHANGED <<attached, plugged, nextTopo>>
  BY DEF SwapPort, Operation
<1>3. /\ OnePerSwitch(plugged, admin')
      /\ \A k \in Locations : k[1] = l[1] /\ k # l => ~Changed(k, plugged, admin')
  BY <1>1, <1>2, AdminChange
<1>4. events' = [reported EXCEPT ![l[1]] = IF l[1] \in attached THEN Append(@, m) ELSE @]
  BY DEF SwapPort
<1>5. m \in Messages /\ m.type = type /\ m.port = l[2] /\ m.report = Report(l, plugged, admin')
  BY <1>1, PortEventType DEF PortEvent
<1>6. reported \in [Switches -> Seq(Messages)]
  BY ReportedType DEF TypeOK
<1> HIDE DEF m
<1> SUFFICES ASSUME NEW s \in Switches
             PROVE  Leads(Known(nextTopo', s), events'[s], Actual(s, attached', present', plugged', admin'))
  BY DEF Streams, Now
<1>7. Leads(Known(nextTopo, s), events[s], Now(s))
  BY DEF Streams
<1>8. \A q \in PortNos : <<s, q>> \in Locations /\ <<s, q>>[1] = s
  BY DEF Locations
<1>9. CASE s # l[1]
  <2>1. Reported(present \ {l}, plugged, admin')[s] = Reported(present, plugged, admin')[s]
    <3> DEFINE C(ps) == {p \in PortNos : /\ <<s, p>> \in ps
                                         /\ Report(<<s, p>>, plugged, admin')
                                                # Report(<<s, p>>, plugged, admin)}
               R(ps) == IF s \in attached /\ C(ps) # {}
                        THEN Append(events[s], PortEvent("pmod",
                                <<s, CHOOSE p \in C(ps) : TRUE>>, plugged, admin'))
                        ELSE events[s]
    <3>1. \A q \in PortNos : <<s, q>> \in present \ {l} <=> <<s, q>> \in present
      BY <1>1, <1>9
    <3>2. C(present \ {l}) = C(present)
      BY <3>1
    <3>3. \A ps : Reported(ps, plugged, admin')[s] = R(ps)
      BY DEF Reported
    <3> HIDE DEF C
    <3> QED
      BY <3>2, <3>3
  <2>2. events'[s] = Reported(present, plugged, admin')[s]
    BY <1>4, <1>6, <1>9, <2>1
  <2>3. Leads(Known(nextTopo, s), events'[s], Actual(s, attached, present, plugged, admin'))
    BY <1>3, <1>7, <2>2, ReportedLeads
  <2>4. \A q \in PortNos : <<s, q>> \in present' <=> <<s, q>> \in present
    BY <1>1, <1>2, <1>9
  <2>5. Actual(s, attached', present', plugged', admin') = Actual(s, attached, present, plugged, admin')
    BY <1>2, <2>4, ActualSame
  <2> QED
    BY <1>2, <2>3, <2>5
<1>10. CASE s = l[1]
  <2>1. reported[s] = events[s]
    <3>1. \A p \in PortNos : <<s, p>> \in present \ {l} => ~Changed(<<s, p>>, plugged, admin')
      BY <1>3, <1>8, <1>10
    <3> QED
      BY <3>1, ReportedSwitch
  <2>2. events'[s] = IF s \in attached THEN Append(events[s], m) ELSE events[s]
    BY <1>4, <1>6, <1>10, <2>1
  <2> DEFINE p == l[2]
             w == Now(s)
             w2 == Actual(s, attached', present', plugged', admin')
  <2>3. /\ w2.here = w.here
        /\ s \in attached /\ <<s, p>> \in present' =>
                w2.ports = Others(w, p) \cup {<<p, Report(<<s, p>>, plugged, admin')>>}
        /\ ~(s \in attached /\ <<s, p>> \in present') => w2.ports = Others(w, p)
        /\ s \in attached /\ <<s, p>> \in present <=> Others(w, p) # w.ports
    <3>1. s \in attached' <=> s \in attached
      BY <1>2
    <3>2. \A q \in PortNos \ {p} : <<s, q>> # l
      BY <1>1
    <3>3. \A q \in PortNos \ {p} : s \in attached =>
            /\ <<s, q>> \in present' <=> <<s, q>> \in present
            /\ <<s, q>> \in present => Report(<<s, q>>, plugged', admin') = Report(<<s, q>>, plugged, admin)
      BY <1>2, <1>3, <1>8, <1>10, <3>2 DEF Changed
    <3>4. plugged' = plugged
      BY <1>2
    <3> QED
      BY <1>1, <3>1, <3>3, <3>4, ActualBut DEF Now
  <2>4. <<s, p>> = l /\ (l \in present' <=> ~gone)
    BY <1>1, <1>2, <1>10
  <2>5. CASE s \in attached
    <3>1. w.here
      BY <2>5 DEF Now, Actual
    <3>2. Legal(w, m)
      BY <1>5, <2>3, <2>4, <2>5, <3>1 DEF Legal
    <3>3. w2 = After(w, m)
      BY <1>5, <2>3, <2>4, <2>5 DEF After, Actual
    <3>4. events[s] \in Seq(Messages)
      BY DEF TypeOK
    <3> QED
      BY <1>2, <1>5, <1>7, <2>2, <2>5, <3>2, <3>3, <3>4, LeadsOn
  <2>6. CASE s \notin attached
    <3>1. w2 = w
      BY <1>2, <2>6, ActualSame DEF Now
    <3> QED
      BY <1>2, <1>7, <2>2, <2>6, <3>1
  <2> QED
    BY <2>5, <2>6
<1> QED
  BY <1>9, <1>10

LEMMA LeadsThrough ==
    ASSUME NEW u, NEW v, NEW w, NEW m1 \in Seq(Messages), NEW m2 \in Seq(Messages),
           Leads(u, m1, v), Leads(v, m2, w)
    PROVE  Leads(u, m1 \o m2, w)
<1> DEFINE n1 == Len(m1)
           n2 == Len(m2)
           m == m1 \o m2
<1>1. PICK J \in [Nat -> Views] :
        /\ J[0] = u /\ J[n1] = v
        /\ \A i \in 1..n1 : Legal(J[i - 1], m1[i]) /\ J[i] = After(J[i - 1], m1[i])
  BY DEF Leads
<1>2. PICK K \in [Nat -> Views] :
        /\ K[0] = v /\ K[n2] = w
        /\ \A i \in 1..n2 : Legal(K[i - 1], m2[i]) /\ K[i] = After(K[i - 1], m2[i])
  BY DEF Leads
<1>3. n1 \in Nat /\ n2 \in Nat /\ Len(m) = n1 + n2
  BY ConcatProperties
<1>4. /\ \A i \in 1..n1 : m[i] = m1[i]
      /\ \A i \in 1..n2 : m[n1 + i] = m2[i]
  BY <1>3
<1> DEFINE L == [i \in Nat |-> IF i <= n1 THEN J[i] ELSE K[i - n1]]
<1>5. /\ L \in [Nat -> Views]
      /\ \A i \in 0..n1 : L[i] = J[i]
      /\ \A i \in 0..n2 : L[n1 + i] = K[i]
  <2>1. ASSUME NEW i \in Nat
        PROVE  L[i] \in Views
    <3>1. i > n1 => i - n1 \in Nat
      BY <1>3
    <3> QED
      BY <1>1, <1>2, <1>3, <3>1
  <2>2. \A i \in 0..n1 : L[i] = J[i]
    BY <1>3
  <2>3. ASSUME NEW i \in 0..n2
        PROVE  L[n1 + i] = K[i]
    <3>1. CASE i = 0
      BY <1>1, <1>2, <1>3, <3>1
    <3>2. CASE i # 0
      <4>1. n1 + i \in Nat /\ ~(n1 + i <= n1) /\ (n1 + i) - n1 = i
        BY <1>3, <3>2
      <4> QED
        BY <4>1
    <3> QED
      BY <3>1, <3>2
  <2> QED
    BY <2>1, <2>2, <2>3
<1> HIDE DEF L, m
<1>6. ASSUME NEW i \in 1..(n1 + n2)
      PROVE  Legal(L[i - 1], m[i]) /\ L[i] = After(L[i - 1], m[i])
  <2>1. CASE i <= n1
    <3>1. i \in 1..n1 /\ i \in 0..n1 /\ i - 1 \in 0..n1
      BY <1>3, <2>1
    <3> QED
      BY <1>1, <1>4, <1>5, <3>1
  <2>2. CASE ~(i <= n1)
    <3> DEFINE j == i - n1
    <3>1. j \in 1..n2 /\ j \in 0..n2 /\ j - 1 \in 0..n2 /\ n1 + j = i /\ n1 + (j - 1) = i - 1
      BY <1>3, <2>2
    <3> HIDE DEF j
    <3>2. L[i] = K[j] /\ L[i - 1] = K[j - 1] /\ m[i] = m2[j]
      BY <1>4, <1>5, <3>1
    <3> QED
      BY <1>2, <3>1, <3>2
  <2> QED
    BY <2>1, <2>2
<1>7. 0 \in 0..n1 /\ n2 \in 0..n2
  BY <1>3
<1>8. L[0] = u /\ L[n1 + n2] = w
  BY <1>1, <1>2, <1>5, <1>7
<1> QED
  BY <1>3, <1>5, <1>6, <1>8 DEF Leads, m

\* A switch before its ports have joined, and after.
Bare == [here |-> TRUE, ports |-> {}]
Joined(s, here, plg, adm) ==
    [here |-> TRUE,
     ports |-> {x \in PortNos \X Reports : x[1] \in here /\ x[2] = Report(<<s, x[1]>>, plg, adm)}]

\* The ports of a switch that connects join one after the other.
LEMMA JoinsLead ==
    ASSUME NEW s \in Switches, NEW plg, NEW adm, NEW here \in SUBSET PortNos,
           NEW ports \in Seq(here),
           \A i, j \in DOMAIN ports : ports[i] = ports[j] => i = j,
           \A p \in here : \E i \in DOMAIN ports : ports[i] = p,
           NEW joins \in Seq(Messages), Len(joins) = Len(ports),
           \A i \in 1..Len(ports) : joins[i] = PortEvent("pjoin", <<s, ports[i]>>, plg, adm)
    PROVE  Leads(Bare, joins, Joined(s, here, plg, adm))
<1> DEFINE n == Len(ports)
           pair(j) == <<ports[j], Report(<<s, ports[j]>>, plg, adm)>>
           S(i) == {x \in PortNos \X Reports : \E j \in 1..n : j <= i /\ x = pair(j)}
           K == [i \in Nat |-> [here |-> TRUE, ports |-> S(i)]]
           all == {x \in PortNos \X Reports :
                      x[1] \in here /\ x[2] = Report(<<s, x[1]>>, plg, adm)}
<1>1. n \in Nat /\ DOMAIN ports = 1..n /\ \A j \in 1..n : ports[j] \in here /\ ports[j] \in PortNos
  OBVIOUS
<1>2. Len(joins) = n /\ \A i \in 1..n : joins[i] = PortEvent("pjoin", <<s, ports[i]>>, plg, adm)
  BY <1>1
<1>3. \A j \in 1..n : pair(j) \in PortNos \X Reports /\ pair(j)[1] = ports[j]
                      /\ pair(j)[2] = Report(<<s, ports[j]>>, plg, adm)
  BY <1>1, ReportType
<1>4. \A i \in 1..n : /\ joins[i].type = "pjoin" /\ joins[i].port = ports[i]
                      /\ joins[i].report = Report(<<s, ports[i]>>, plg, adm)
  <2> SUFFICES ASSUME NEW i \in 1..n
               PROVE  /\ joins[i].type = "pjoin" /\ joins[i].port = ports[i]
                      /\ joins[i].report = Report(<<s, ports[i]>>, plg, adm)
    OBVIOUS
  <2>1. joins[i] = [type |-> "pjoin", port |-> ports[i],
                    report |-> Report(<<s, ports[i]>>, plg, adm)]
    BY <1>2 DEF PortEvent
  <2> QED
    BY <2>1
<1>5. \A i \in Nat : S(i) \in SUBSET (PortNos \X Reports)
  OBVIOUS
<1> HIDE DEF pair
<1>6. S(0) = {}
  <2>1. \A j \in 1..n : ~(j <= 0)
    BY <1>1
  <2> QED
    BY <2>1
<1>7. S(n) = all
  <2>1. ASSUME NEW x \in S(n)
        PROVE  x \in all
    <3>1. PICK j \in 1..n : x = pair(j)
      BY <2>1
    <3> QED
      BY <1>1, <1>3, <2>1, <3>1
  <2>2. ASSUME NEW x \in all
        PROVE  x \in S(n)
    <3>1. PICK j \in 1..n : ports[j] = x[1]
      BY <1>1, <2>2
    <3>2. x = pair(j) /\ j <= n
      BY <1>1, <2>2, <3>1 DEF pair
    <3> QED
      BY <2>2, <3>1, <3>2
  <2> QED
    BY <2>1, <2>2
<1>8. ASSUME NEW i \in 1..n
      PROVE  S(i) = S(i - 1) \cup {pair(i)}
  <2>1. \A j \in 1..n : j <= i <=> (j <= i - 1 \/ j = i)
    BY <1>1
  <2>2. pair(i) \in PortNos \X Reports
    BY <1>3
  <2> QED
    BY <2>1, <2>2
<1>9. ASSUME NEW i \in 1..n
      PROVE  \A x \in S(i - 1) : x[1] # ports[i]
  <2> SUFFICES ASSUME NEW x \in S(i - 1)
               PROVE  x[1] # ports[i]
    OBVIOUS
  <2>1. PICK j \in 1..n : j <= i - 1 /\ x = pair(j)
    OBVIOUS
  <2>2. j # i
    BY <1>1, <2>1
  <2>3. ports[j] # ports[i]
    BY <1>1, <2>2
  <2> QED
    BY <1>3, <2>1, <2>3
<1> HIDE DEF S
<1>10. /\ K \in [Nat -> Views]
       /\ \A i \in Nat : K[i].here = TRUE /\ K[i].ports = S(i) /\ K[i] = [here |-> TRUE, ports |-> S(i)]
  BY <1>5 DEF Views
<1> HIDE DEF K
<1>11. ASSUME NEW i \in 1..n
       PROVE  Legal(K[i - 1], joins[i]) /\ K[i] = After(K[i - 1], joins[i])
  <2>1. i \in Nat /\ i - 1 \in Nat
    BY <1>1
  <2>2. Others(K[i - 1], ports[i]) = S(i - 1)
    BY <1>9, <1>10, <2>1 DEF Others
  <2>3. S(i) = S(i - 1) \cup {<<joins[i].port, joins[i].report>>}
    BY <1>4, <1>8 DEF pair
  <2>4. Legal(K[i - 1], joins[i])
    BY <1>4, <1>10, <2>1, <2>2 DEF Legal
  <2>5. K[i] = After(K[i - 1], joins[i])
    <3>1. After(K[i - 1], joins[i]) =
            [here |-> K[i - 1].here,
             ports |-> Others(K[i - 1], joins[i].port) \cup {<<joins[i].port, joins[i].report>>}]
      BY <1>4 DEF After
    <3>2. K[i - 1].here = TRUE /\ Others(K[i - 1], joins[i].port) = S(i - 1)
      BY <1>4, <1>10, <2>1, <2>2
    <3>3. K[i] = [here |-> TRUE, ports |-> S(i)]
      BY <1>10, <2>1
    <3> QED
      BY <2>3, <3>1, <3>2, <3>3
  <2> QED
    BY <2>4, <2>5
<1>12. K[0] = Bare /\ K[n] = Joined(s, here, plg, adm)
  BY <1>1, <1>6, <1>7, <1>10 DEF Bare, Joined
<1> QED
  BY <1>2, <1>10, <1>11, <1>12 DEF Leads

LEMMA ConnectLeads ==
    ASSUME TypeOK, NEW s \in Switches, Connect(s), Streams
    PROVE  Streams'
<1> DEFINE here == {p \in PortNos : <<s, p>> \in present}
           ports == SetToSeq(here)
           joins == [i \in DOMAIN ports |-> PortEvent("pjoin", <<s, ports[i]>>, plugged, admin)]
           join == [type |-> "sjoin"]
<1>1. /\ s \notin attached /\ attached' = attached \cup {s}
      /\ events' = [events EXCEPT ![s] = (@ \o <<join>>) \o joins]
      /\ UNCHANGED <<admin, present, plugged, nextTopo>>
  BY DEF Connect, Operation
<1>2. IsFiniteSet(here) /\ here \in SUBSET PortNos
  BY PortNosAssumption, FS_Subset
<1>3. Actual(s, attached', present', plugged', admin') = Joined(s, here, plugged, admin)
  BY <1>1 DEF Actual, Joined
<1> HIDE DEF here
<1>4. /\ ports \in Seq(here)
      /\ \A i, j \in DOMAIN ports : ports[i] = ports[j] => i = j
      /\ \A p \in here : \E i \in DOMAIN ports : ports[i] = p
  BY <1>2, ListsOnce
<1> HIDE DEF ports
<1>5. /\ joins \in Seq(Messages) /\ Len(joins) = Len(ports)
      /\ \A i \in 1..Len(ports) : joins[i] = PortEvent("pjoin", <<s, ports[i]>>, plugged, admin)
  <2>1. ASSUME NEW i \in DOMAIN ports
        PROVE  PortEvent("pjoin", <<s, ports[i]>>, plugged, admin) \in Messages
    <3>1. ports[i] \in PortNos
      BY <1>2, <1>4, <2>1
    <3>2. <<s, ports[i]>> \in Locations
      BY <3>1 DEF Locations
    <3> QED
      BY <3>2, PortEventType
  <2>2. Len(ports) \in Nat /\ DOMAIN ports = 1..Len(ports)
    BY <1>4
  <2>3. /\ joins \in [1..Len(ports) -> Messages]
        /\ \A i \in 1..Len(ports) : joins[i] = PortEvent("pjoin", <<s, ports[i]>>, plugged, admin)
    BY <2>1, <2>2
  <2> HIDE DEF joins
  <2> QED
    BY <2>2, <2>3
<1> HIDE DEF joins
<1>6. Leads(Bare, joins, Joined(s, here, plugged, admin))
  BY <1>2, <1>4, <1>5, JoinsLead
<1>7. join \in Messages /\ join.type = "sjoin"
  BY DEF Messages
<1>8. events[s] \in Seq(Messages)
  BY DEF TypeOK
<1>9. Leads(Known(nextTopo, s), Append(events[s], join), Bare)
  <2>1. Now(s) = Nowhere
    <3>1. (s \in attached) = FALSE
      BY <1>1
    <3> QED
      BY <3>1 DEF Now, Actual, Nowhere
  <2>2. Legal(Nowhere, join) /\ After(Nowhere, join) = Bare
    BY <1>7 DEF Legal, After, Bare
  <2>3. Leads(Known(nextTopo, s), events[s], Nowhere)
    BY <2>1 DEF Streams
  <2> HIDE DEF join
  <2> QED
    BY <1>7, <1>8, <2>2, <2>3, LeadsOn
<1>10. events[s] \o <<join>> = Append(events[s], join) /\ Append(events[s], join) \in Seq(Messages)
  BY <1>7, <1>8
<1> HIDE DEF join
<1>11. Leads(Known(nextTopo, s), (events[s] \o <<join>>) \o joins,
             Actual(s, attached', present', plugged', admin'))
  BY <1>3, <1>5, <1>6, <1>9, <1>10, LeadsThrough
<1> SUFFICES ASSUME NEW r \in Switches
             PROVE  Leads(Known(nextTopo', r), events'[r], Actual(r, attached', present', plugged', admin'))
  BY DEF Streams, Now
<1>12. CASE r = s
  BY <1>1, <1>11, <1>12 DEF TypeOK
<1>13. CASE r # s
  <2>1. Actual(r, attached', present', plugged', admin') = Now(r)
    BY <1>1, <1>13, ActualSame DEF Now
  <2> QED
    BY <1>1, <1>13, <2>1 DEF TypeOK, Streams
<1> QED
  BY <1>12, <1>13

LEMMA DisconnectLeads ==
    ASSUME TypeOK, NEW s \in Switches, Disconnect(s), Streams
    PROVE  Streams'
<1> DEFINE part == [type |-> "spart"]
<1>1. /\ s \in attached /\ attached' = attached \ {s}
      /\ events' = [events EXCEPT ![s] = Append(@, part)]
      /\ UNCHANGED <<admin, present, plugged, nextTopo>>
  BY DEF Disconnect, Operation
<1>2. part \in Messages /\ part.type = "spart"
  BY DEF Messages
<1> HIDE DEF part
<1>3. events[s] \in Seq(Messages)
  BY DEF TypeOK
<1> SUFFICES ASSUME NEW r \in Switches
             PROVE  Leads(Known(nextTopo', r), events'[r], Actual(r, attached', present', plugged', admin'))
  BY DEF Streams, Now
<1>4. CASE r = s
  <2>1. Legal(Now(s), part)
    BY <1>1, <1>2 DEF Legal, Now, Actual
  <2>2. Actual(s, attached', present', plugged', admin') = Nowhere
    <3>1. (s \in attached') = FALSE
      BY <1>1
    <3> QED
      BY <3>1 DEF Actual, Nowhere
  <2>3. After(Now(s), part) = Nowhere
    BY <1>2 DEF After
  <2>4. Leads(Known(nextTopo, s), Append(events[s], part), Nowhere)
    BY <1>2, <1>3, <2>1, <2>3, LeadsOn DEF Streams
  <2>5. events'[s] = Append(events[s], part)
    BY <1>1 DEF TypeOK
  <2> QED
    BY <1>1, <1>4, <2>2, <2>4, <2>5
<1>5. CASE r # s
  <2>1. Actual(r, attached', present', plugged', admin') = Now(r)
    BY <1>1, <1>5, ActualSame DEF Now
  <2> QED
    BY <1>1, <1>5, <2>1 DEF TypeOK, Streams
<1> QED
  BY <1>4, <1>5

LEMMA OperateLeads ==
    ASSUME TypeOK, PluggedApart, Streams, Operate
    PROVE  PluggedApart' /\ Streams'
<1>1. ASSUME NEW c \in Cables, Plug(c) \/ Unplug(c)
      PROVE  PluggedApart' /\ Streams'
  <2>1. /\ plugged' \in {plugged \cup {c}, plugged \ {c}}
        /\ events' = Reported(present, plugged', admin)
        /\ UNCHANGED <<attached, admin, present, nextTopo>>
    BY <1>1 DEF Plug, Unplug, Operation
  <2>2. PluggedApart'
    BY <1>1 DEF Plug, Unplug, PluggedApart
  <2>3. OnePerSwitch(plugged', admin)
    BY <2>1, CableChange
  <2>4. ASSUME NEW s \in Switches
        PROVE  Leads(Known(nextTopo, s), events'[s], Actual(s, attached, present, plugged', admin))
    BY <2>1, <2>3, ReportedLeads DEF Streams
  <2> QED
    BY <2>1, <2>2, <2>4 DEF Streams, Now
<1>2. ASSUME NEW l \in AdminPorts, SetAdmin(l)
      PROVE  PluggedApart' /\ Streams'
  <2>1. /\ admin' \in {admin \cup {l}, admin \ {l}}
        /\ events' = Reported(present, plugged, admin')
        /\ UNCHANGED <<attached, plugged, present, nextTopo>>
    BY <1>2 DEF SetAdmin, Operation
  <2>2. PluggedApart'
    BY <2>1 DEF PluggedApart
  <2>3. OnePerSwitch(plugged, admin')
    BY <2>1, AdminChange, PortsAssumption
  <2>4. ASSUME NEW s \in Switches
        PROVE  Leads(Known(nextTopo, s), events'[s], Actual(s, attached, present, plugged, admin'))
    BY <2>1, <2>3, ReportedLeads DEF Streams
  <2> QED
    BY <2>1, <2>2, <2>4 DEF Streams, Now
<1>3. ASSUME NEW l \in SwapPorts, SwapPort(l)
      PROVE  PluggedApart' /\ Streams'
  BY <1>3, SwapPortLeads DEF SwapPort, PluggedApart
<1>4. ASSUME NEW s \in Switches, Connect(s) \/ Disconnect(s)
      PROVE  PluggedApart' /\ Streams'
  BY <1>4, ConnectLeads, DisconnectLeads DEF Connect, Disconnect, PluggedApart
<1> QED
  BY <1>1, <1>2, <1>3, <1>4 DEF Operate

\* A link message changes no view.
LEMMA DiscoveryLeads ==
    ASSUME TypeOK, Streams, NEW l \in probes, Discovery(l)
    PROVE  Streams'
<1>1. UNCHANGED <<nextTopo, attached, present, plugged, admin>>
  BY DEF Discovery, network
<1>2. CASE events' = events
  BY <1>1, <1>2 DEF Streams, Now
<1>3. CASE \E c \in Cables : l \in c /\ Working(c)
  <2> DEFINE c == CHOOSE c \in Cables : l \in c /\ Working(c)
             far == Far(c, l)
             m == [type |-> "link", from |-> l, to |-> far]
  <2>1. events' = [events EXCEPT ![far[1]] = Append(@, m)]
    BY <1>3 DEF Discovery
  <2>2. c \in Cables /\ l \in c
    BY <1>3
  <2> HIDE DEF c
  <2>3. l \in Locations /\ far \in Locations /\ {l, far} \in Cables
    BY <2>2, FarEnd
  <2> HIDE DEF far
  <2>4. m \in Messages /\ m.type = "link" /\ far[1] \in Switches
    BY <2>3, LocationParts DEF Messages
  <2> HIDE DEF m
  <2>5. \A v : Legal(v, m) /\ After(v, m) = v
    BY <2>4 DEF Legal, After
  <2>6. ASSUME NEW s \in Switches
        PROVE  Leads(Known(nextTopo, s), events'[s], Now(s))
    <3>1. events[s] \in Seq(Messages) /\ Leads(Known(nextTopo, s), events[s], Now(s))
      BY DEF TypeOK, Streams
    <3>2. CASE s = far[1]
      <4>1. events'[s] = Append(events[s], m)
        BY <2>1, <3>2 DEF TypeOK
      <4>2. Leads(Known(nextTopo, s), Append(events[s], m), After(Now(s), m))
        BY <2>4, <2>5, <3>1, LeadsOn
      <4> QED
        BY <2>5, <4>1, <4>2
    <3>3. CASE s # far[1]
      BY <2>1, <3>1, <3>3 DEF TypeOK
    <3> QED
      BY <3>2, <3>3
  <2> QED
    BY <1>1, <2>6 DEF Streams, Now
<1> QED
  BY <1>2, <1>3 DEF Discovery

LEMMA HandleShows ==
    ASSUME TypeOK, NEW s \in Switches, Handle(s), Legal(Known(nextTopo, s), Head(events[s]))
    PROVE  HandlerShows(s)
BY SwitchJoinShows, SwitchPartShows, PortJoinShows, PortPartShows, PortModShows, LinkUpdateShows
   DEF Handle

LEMMA HandleReceives ==
    ASSUME NEW s, Handle(s)
    PROVE  /\ events[s] # <<>> /\ events' = [events EXCEPT ![s] = Tail(@)]
           /\ UNCHANGED <<attached, present, plugged, admin>>
           /\ \E type : Receive(s, type)
BY DEF Handle, HandleSwitchJoin, HandleSwitchPart, HandlePortJoin, HandlePortPart,
       HandlePortMod, HandleLinkUpdate, Receive, network

LEMMA HandleLeads ==
    ASSUME TypeOK, Streams, NEW s \in Switches, Handle(s)
    PROVE  Streams'
<1>1. /\ events[s] # <<>> /\ events' = [events EXCEPT ![s] = Tail(@)]
      /\ UNCHANGED <<attached, present, plugged, admin>>
  BY HandleReceives
<1>2. events[s] \in Seq(Messages) /\ Leads(Known(nextTopo, s), events[s], Now(s))
  BY DEF TypeOK, Streams
<1>3. /\ Legal(Known(nextTopo, s), Head(events[s]))
      /\ Leads(After(Known(nextTopo, s), Head(events[s])), Tail(events[s]), Now(s))
  BY <1>1, <1>2, KnownType, LeadsFrom
<1>4. HandlerShows(s)
  BY <1>3, HandleShows
<1>5. ASSUME NEW r \in Switches
      PROVE  Leads(Known(nextTopo', r), events'[r], Now(r))
  <2>1. CASE r = s
    BY <1>1, <1>3, <1>4, <2>1 DEF TypeOK, HandlerShows
  <2>2. CASE r # s
    BY <1>1, <1>4, <2>2 DEF TypeOK, Streams, HandlerShows
  <2> QED
    BY <2>1, <2>2
<1> QED
  BY <1>1, <1>5 DEF Streams, Now

NetInv == TypeOK /\ PluggedApart /\ Streams

LEMMA NetInit == ASSUME Init PROVE NetInv
<1>1. PluggedApart
  BY DEF Init, PluggedApart
<1>2. ASSUME NEW s \in Switches
      PROVE  Leads(Known(nextTopo, s), events[s], Now(s))
  <2>1. DOMAIN nextTopo.ports = {} /\ attached = {} /\ events[s] = <<>>
    BY DEF Init, EmptyTopo
  <2>2. (s \in DOMAIN nextTopo.ports) = FALSE /\ (s \in attached) = FALSE
    BY <2>1
  <2>3. \A q \in PortNos : ~HasPort(nextTopo, <<s, q>>)
    BY <2>1 DEF HasPort
  <2>4. Known(nextTopo, s) = Nowhere
    BY <2>2, <2>3 DEF Known, Nowhere
  <2>5. Now(s) = Nowhere
    BY <2>2 DEF Now, Actual, Nowhere
  <2> QED
    BY <2>1, <2>4, <2>5, KnownType, LeadsNowhere
<1> QED
  BY <1>1, <1>2, InitType DEF NetInv, Streams

LEMMA NetNext ==
    ASSUME NetInv, [Next]_vars
    PROVE  NetInv'
<1>1. TypeOK'
  BY NextType DEF NetInv
<1>2. CASE Operate
  BY <1>1, <1>2, OperateLeads DEF NetInv
<1>3. ASSUME NEW l \in probes, Discovery(l)
      PROVE  NetInv'
  BY <1>1, <1>3, DiscoveryLeads DEF NetInv, Discovery, network, PluggedApart
<1>4. ASSUME NEW s \in Switches, Handle(s)
      PROVE  NetInv'
  BY <1>1, <1>4, HandleLeads, HandleReceives DEF NetInv, PluggedApart
<1>5. CASE TimerStep \/ UNCHANGED vars
  <2>1. UNCHANGED <<attached, admin, present, plugged, events, nextTopo>>
    BY <1>5 DEF TimerStep, Discard, PassCheck, CopyTopo, Assign, Notify, Timer, network, vars
  <2> QED
    BY <1>1, <2>1 DEF NetInv, PluggedApart, Streams, Now
<1> QED
  BY <1>2, <1>3, <1>4, <1>5 DEF Next, DiscoveryNext

\* An empty queue leads from a view to itself.
LEMMA KnownNow ==
    ASSUME NetInv, NEW s \in Switches, events[s] = <<>>
    PROVE  Known(nextTopo, s) = Now(s)
<1>1. PICK K \in [Nat -> Views] : K[0] = Known(nextTopo, s) /\ K[Len(events[s])] = Now(s)
  BY DEF NetInv, Streams, Leads
<1>2. Len(events[s]) = 0
  OBVIOUS
<1> QED
  BY <1>1, <1>2

LEMMA QuietPorts == ASSUME NetInv PROVE QuietPortsExact
<1> SUFFICES ASSUME \A s \in Switches : events[s] = <<>>
             PROVE  /\ DOMAIN nextTopo.ports = attached
                    /\ \A l \in Locations : l[1] \in attached =>
                        /\ HasPort(nextTopo, l) <=> l \in present
                        /\ l \in present => Shown(PortAt(nextTopo, l)) = Report(l, plugged, admin)
  BY DEF QuietPortsExact, Shown
<1>1. \A s \in Switches : Known(nextTopo, s) = Now(s)
  BY KnownNow
<1>2. IsTopology(nextTopo) /\ attached \subseteq Switches
  BY DEF NetInv, TypeOK
<1>3. \A s \in Switches : s \in DOMAIN nextTopo.ports <=> s \in attached
  <2>1. \A s \in Switches : (Known(nextTopo, s).here <=> s \in DOMAIN nextTopo.ports)
                            /\ (Now(s).here <=> s \in attached)
    BY DEF Known, Now, Actual
  <2> QED
    BY <1>1, <2>1
<1>4. DOMAIN nextTopo.ports = attached
  <2>1. DOMAIN nextTopo.ports \subseteq Switches
    BY <1>2 DEF IsTopology
  <2> QED
    BY <1>2, <1>3, <2>1
<1>5. ASSUME NEW l \in Locations, l[1] \in attached
      PROVE  /\ HasPort(nextTopo, l) <=> l \in present
             /\ l \in present => Shown(PortAt(nextTopo, l)) = Report(l, plugged, admin)
  <2> DEFINE s == l[1]
             p == l[2]
  <2>1. s \in Switches /\ p \in PortNos /\ l = <<s, p>>
    BY LocationParts
  <2>2. HasPort(nextTopo, l) <=> Others(Known(nextTopo, s), p) # Known(nextTopo, s).ports
    BY <1>2, <2>1, KnownLegal
  <2>3. l \in present <=> Others(Now(s), p) # Now(s).ports
    <3>1. s \in attached /\ <<s, p>> \in present <=> Others(Now(s), p) # Now(s).ports
      BY <2>1, ActualBut DEF Now
    <3> QED
      BY <1>5, <2>1, <3>1
  <2>4. HasPort(nextTopo, l) <=> l \in present
    BY <1>1, <2>1, <2>2, <2>3
  <2>5. ASSUME l \in present
        PROVE  Shown(PortAt(nextTopo, l)) = Report(l, plugged, admin)
    <3> DEFINE x == <<p, Shown(PortAt(nextTopo, l))>>
    <3>1. x \in PortNos \X Reports
      BY <1>2, <2>1, <2>4, <2>5, ShownType
    <3>2. x \in Known(nextTopo, s).ports
      BY <2>1, <2>4, <2>5, <3>1 DEF Known
    <3>3. x \in Now(s).ports
      BY <1>1, <2>1, <3>2
    <3> QED
      BY <2>1, <3>3 DEF Now, Actual
  <2> QED
    BY <2>4, <2>5
<1> QED
  BY <1>4, <1>5

\* Once the messages of every switch are handled, next_topo has the switches
\* and the ports of the network, with the state they report: no order of the
\* messages of different switches, and nothing the operator does meanwhile,
\* leaves a port behind or its state wrong.
THEOREM PortsExactWhenQuiet == Spec => []QuietPortsExact
<1>1. Init => NetInv
  BY NetInit
<1>2. NetInv /\ [Next]_vars => NetInv'
  BY NetNext
<1>3. NetInv => QuietPortsExact
  BY QuietPorts
<1> QED
  BY <1>1, <1>2, <1>3, PTL DEF Spec

-----------------------------------------------------------------------------
(* The links.  A port is only ever cabled to ports of one other switch: it is
   not recabled to a third while discovery runs.  Without this the handlers
   leave links that do not agree, and raise: handle_link_update removes the
   old link between the two switches of the new one, but not a link that one
   of its ports still has to another switch.                                *)
OneNeighbour ==
    \A c, d \in Cables : c \cap d # {} => {l[1] : l \in c} = {l[1] : l \in d}

\* A linked port may be up.
LinkedUp(t) ==
    \A l \in Locations : HasPort(t, l) /\ Peer(t, l) # NoLoc => PossiblyUp(PortAt(t, l))

LinksInv == Links(nextTopo) /\ LinkedUp(nextTopo) /\ channelUp

\* Where no port is linked anew, the linked ports are up as they were.
LEMMA FrameUp ==
    ASSUME NEW t, NEW u, SameFrame(t, u), LinkedUp(t),
           \A l \in Locations : HasPort(t, l) => Peer(u, l) \in {Peer(t, l), NoLoc}
    PROVE  LinkedUp(u)
<1>1. \A l \in Locations : HasPort(u, l) <=> HasPort(t, l)
  BY HasPortDomain DEF SameFrame
<1> QED
  BY <1>1 DEF SameFrame, LinkedUp, PossiblyUp

LEMMA LinkedUpAdded ==
    ASSUME NEW t, IsTopology(t), LinkedUp(t), NEW l1 \in Locations, NEW l2 \in Locations,
           HasPort(t, l1), HasPort(t, l2),
           PossiblyUp(PortAt(t, l1)), PossiblyUp(PortAt(t, l2))
    PROVE  LinkedUp(AddLink(t, l1, l2))
<1> DEFINE u == AddLink(t, l1, l2)
<1>1. /\ SameFrame(t, u) /\ IsTopology(u)
      /\ u.edges = {e \in t.edges : DOMAIN e # {l1[1], l2[1]}} \cup {EdgeOf(l1, l2)}
      /\ \A l \in Locations : HasPort(t, l) =>
           Peer(u, l) = IF l = l2 THEN l1 ELSE IF l = l1 THEN l2 ELSE Peer(t, l)
  BY LinkAdded
<1> HIDE DEF u
<1>2. \A l \in Locations : HasPort(u, l) <=> HasPort(t, l)
  BY <1>1, HasPortDomain DEF SameFrame
<1>3. ASSUME NEW l \in Locations, HasPort(u, l), Peer(u, l) # NoLoc
      PROVE  PossiblyUp(PortAt(u, l))
  <2>1. PossiblyUp(PortAt(t, l))
    BY <1>1, <1>2, <1>3 DEF LinkedUp
  <2> QED
    BY <1>1, <1>2, <1>3, <2>1 DEF SameFrame, PossiblyUp
<1> QED
  BY <1>3 DEF LinkedUp, u

LEMMA SameNeighbour ==
    ASSUME OneNeighbour, NEW l, NEW m, NEW k, {l, m} \in Cables, {l, k} \in Cables
    PROVE  m[1] = k[1]
<1>1. l[1] # m[1] /\ l[1] # k[1]
  BY CableEnds
<1>2. {l, m} \cap {l, k} # {}
  OBVIOUS
<1>3. {j[1] : j \in {l, m}} = {j[1] : j \in {l, k}}
  BY <1>2 DEF OneNeighbour
<1>4. m[1] \in {j[1] : j \in {l, m}}
  OBVIOUS
<1>5. m[1] \in {j[1] : j \in {l, k}}
  BY <1>3, <1>4
<1> QED
  BY <1>1, <1>5

\* What is legal for its switch, a message finds.
LEMMA HeadLegal ==
    ASSUME NetInv, NEW s \in Switches, Handle(s)
    PROVE  Legal(Known(nextTopo, s), Head(events[s]))
<1>1. events[s] # <<>>
  BY HandleReceives
<1>2. events[s] \in Seq(Messages) /\ Leads(Known(nextTopo, s), events[s], Now(s))
  BY DEF NetInv, TypeOK, Streams
<1> QED
  BY <1>1, <1>2, KnownType, LeadsFrom

LEMMA SwitchJoinLinks ==
    ASSUME NetInv, LinksInv, NEW s \in Switches, HandleSwitchJoin(s)
    PROVE  LinksInv'
<1> DEFINE u == [nextTopo EXCEPT !.ports =
                    [r \in DOMAIN @ \cup {s} |-> IF r = s THEN <<>> ELSE @[r]]]
<1>1. IsTopology(nextTopo) /\ nextTopo' = u /\ channelUp'
  BY DEF NetInv, TypeOK, LinksInv, HandleSwitchJoin
<1>2. Head(events[s]).type = "sjoin" /\ Legal(Known(nextTopo, s), Head(events[s]))
  BY HeadLegal DEF Handle, HandleSwitchJoin, Receive
<1>3. s \notin DOMAIN nextTopo.ports
  <2>1. Known(nextTopo, s) = Nowhere
    BY <1>2 DEF Legal
  <2>2. Nowhere.here = FALSE
    BY DEF Nowhere
  <2> QED
    BY <2>1, <2>2 DEF Known
<1>4. /\ IsTopology(u) /\ u.edges = nextTopo.edges
      /\ \A l \in Locations :
           /\ HasPort(u, l) <=> HasPort(nextTopo, l) /\ l[1] # s
           /\ HasPort(u, l) => PortAt(u, l) = PortAt(nextTopo, l)
  BY <1>1, SwitchAdded
<1> HIDE DEF u
<1>5. \A l \in Locations : HasPort(u, l) <=> HasPort(nextTopo, l)
  BY <1>3, <1>4 DEF HasPort
<1>6. Links(u)
  BY <1>4, <1>5, LinksSame DEF LinksInv, Peer
<1>7. LinkedUp(u)
  BY <1>4, <1>5 DEF LinksInv, LinkedUp, Peer
<1> QED
  BY <1>1, <1>6, <1>7 DEF LinksInv

LEMMA SwitchPartLinks ==
    ASSUME NetInv, LinksInv, NEW s \in Switches, HandleSwitchPart(s)
    PROVE  LinksInv'
<1> DEFINE t == nextTopo
           u == RemoveSwitch(t, s)
<1>1. Head(events[s]).type = "spart" /\ Legal(Known(nextTopo, s), Head(events[s]))
  BY HeadLegal DEF Handle, HandleSwitchPart, Receive
<1>2. s \in DOMAIN t.ports
  BY <1>1 DEF Legal, Known
<1>3. nextTopo' = u /\ channelUp' /\ IsTopology(t) /\ Links(t) /\ LinkedUp(t)
  BY <1>2 DEF HandleSwitchPart, Queue, LinksInv, NetInv, TypeOK
<1>4. /\ IsTopology(u) /\ u.edges = {e \in t.edges : s \notin DOMAIN e}
      /\ \A l \in Locations :
           /\ HasPort(u, l) <=> HasPort(t, l) /\ l[1] # s
           /\ HasPort(u, l) => PortAt(u, l) =
                IF \E m \in Locations : m[1] = s /\ HasPort(t, m) /\ Peer(t, m) = l
                THEN [PortAt(t, l) EXCEPT !.linked_to = NoLoc] ELSE PortAt(t, l)
  BY <1>2, <1>3, SwitchRemoved
<1> HIDE DEF t, u
<1>5. ASSUME NEW l \in Locations, HasPort(t, l), Peer(t, l) # NoLoc
      PROVE  (\E m \in Locations : m[1] = s /\ HasPort(t, m) /\ Peer(t, m) = l)
                <=> Peer(t, l)[1] = s
  <2>1. Peer(t, l) \in Locations /\ HasPort(t, Peer(t, l)) /\ Peer(t, Peer(t, l)) = l
    BY <1>3, <1>5, PeerEnds
  <2>2. ASSUME NEW m \in Locations, m[1] = s, HasPort(t, m), Peer(t, m) = l
        PROVE  Peer(t, l) = m
    <3>1. l # NoLoc
      BY LocationParts
    <3> QED
      BY <1>3, <2>2, <3>1, PeerEnds
  <2> QED
    BY <2>1, <2>2
\* A port that stays linked is linked elsewhere, and has not changed.
<1>6. ASSUME NEW l \in Locations, HasPort(u, l), Peer(u, l) # NoLoc
      PROVE  /\ HasPort(t, l) /\ PortAt(u, l) = PortAt(t, l) /\ Peer(u, l) = Peer(t, l)
             /\ l[1] # s /\ Peer(t, l)[1] # s
  <2>1. HasPort(t, l) /\ l[1] # s /\ PortAt(t, l) \in Ports
    <3>1. HasPort(t, l) /\ l[1] # s
      BY <1>4, <1>6
    <3>2. PortAt(t, l) \in Ports
      BY <1>3, <3>1 DEF IsTopology, HasPort, PortAt
    <3> QED
      BY <3>1, <3>2
  <2>2. CASE \E m \in Locations : m[1] = s /\ HasPort(t, m) /\ Peer(t, m) = l
    <3>1. PortAt(u, l) = [PortAt(t, l) EXCEPT !.linked_to = NoLoc]
      BY <1>4, <1>6, <2>2
    <3>2. Peer(u, l) = NoLoc
      BY <2>1, <3>1 DEF Peer, Ports
    <3> QED
      BY <1>6, <3>2
  <2>3. CASE ~\E m \in Locations : m[1] = s /\ HasPort(t, m) /\ Peer(t, m) = l
    <3>1. PortAt(u, l) = PortAt(t, l) /\ Peer(u, l) = Peer(t, l)
      BY <1>4, <1>6, <2>3 DEF Peer
    <3> QED
      BY <1>5, <1>6, <2>1, <2>3, <3>1
  <2> QED
    BY <2>2, <2>3
\* A port linked elsewhere stays linked.
<1>7. ASSUME NEW l \in Locations, HasPort(t, l), Peer(t, l) # NoLoc, l[1] # s, Peer(t, l)[1] # s
      PROVE  HasPort(u, l) /\ Peer(u, l) = Peer(t, l)
  BY <1>4, <1>5, <1>7 DEF Peer
<1>8. LinkedUp(u)
  BY <1>3, <1>6 DEF LinkedUp
<1>9. ASSUME NEW l \in Locations, HasPort(u, l), Peer(u, l) # NoLoc
      PROVE  {l, Peer(u, l)} \in Cables /\ EdgeOf(l, Peer(u, l)) \in u.edges
  <2>1. /\ Peer(t, l) \in Locations /\ l[1] # Peer(t, l)[1]
        /\ {l, Peer(t, l)} \in Cables /\ EdgeOf(l, Peer(t, l)) \in t.edges
    BY <1>3, <1>6, <1>9, PeerEnds
  <2>2. DOMAIN EdgeOf(l, Peer(t, l)) = {l[1], Peer(t, l)[1]}
    BY <2>1, EdgeFacts
  <2> QED
    BY <1>4, <1>6, <1>9, <2>1, <2>2
<1>10. ASSUME NEW l \in Locations, NEW m \in Locations, l[1] # m[1], EdgeOf(l, m) \in u.edges
       PROVE  HasPort(u, l) /\ Peer(u, l) = m
  <2>1. EdgeOf(l, m) \in t.edges /\ s \notin DOMAIN EdgeOf(l, m)
    BY <1>4, <1>10
  <2>2. l[1] # s /\ m[1] # s
    BY <1>10, <2>1, EdgeFacts
  <2>3. HasPort(t, l) /\ Peer(t, l) = m /\ m # NoLoc
    BY <1>3, <1>10, <2>1, LocationParts DEF Links
  <2> QED
    BY <1>7, <2>2, <2>3
<1>11. Links(u)
  <2>1. \A e \in u.edges : \E l, m \in Locations : {l, m} \in Cables /\ e = EdgeOf(l, m)
    BY <1>3, <1>4 DEF Links
  <2>2. \A e, f \in u.edges : DOMAIN e = DOMAIN f => e = f
    BY <1>3, <1>4 DEF Links
  <2> QED
    BY <1>9, <1>10, <2>1, <2>2 DEF Links
<1> QED
  BY <1>3, <1>8, <1>11 DEF LinksInv

LEMMA PortJoinLinks ==
    ASSUME NetInv, LinksInv, NEW s \in Switches, HandlePortJoin(s)
    PROVE  LinksInv'
<1> DEFINE e == Head(events[s])
           loc == <<s, e.port>>
           port == NewPort(e.report.config, e.report.status)
           t == nextTopo
           u == SetPort(t, loc, port)
<1>1. e \in Messages /\ e.type = "pjoin" /\ Legal(Known(t, s), e)
  BY HeadLegal, ReceiveType DEF Handle, HandlePortJoin, NetInv
<1>2. e.port \in PortNos /\ e.report \in Reports /\ IsTopology(t)
  BY <1>1, MessageParts DEF NetInv, TypeOK
<1>3. loc \in Locations /\ loc[1] = s /\ port \in Ports /\ port.linked_to = NoLoc
  BY <1>2 DEF Locations, Reports, NewPort, Ports
<1>4. s \in DOMAIN t.ports /\ ~HasPort(t, loc)
  BY <1>1, <1>2, KnownLegal DEF Legal
<1>5. nextTopo' = u /\ channelUp' /\ Links(t) /\ LinkedUp(t)
  BY <1>4 DEF HandlePortJoin, Queue, LinksInv
<1> HIDE DEF e, loc, port, t
<1>6. IsTopology(u)
  BY <1>2, <1>3, <1>4, SetPortTopology
<1>7. /\ u.edges = t.edges
      /\ \A l \in Locations :
           /\ HasPort(u, l) <=> HasPort(t, l) \/ l = loc
           /\ HasPort(u, l) => PortAt(u, l) = IF l = loc THEN port ELSE PortAt(t, l)
  BY <1>2, <1>3, <1>4, SetPortEffect DEF IsTopology
<1> HIDE DEF u
<1>8. \A l \in Locations : HasPort(u, l) /\ Peer(u, l) # NoLoc =>
          HasPort(t, l) /\ PortAt(u, l) = PortAt(t, l)
  BY <1>3, <1>7 DEF Peer
<1>9. \A l, m \in Locations : (HasPort(u, l) /\ Peer(u, l) = m) <=> (HasPort(t, l) /\ Peer(t, l) = m)
  <2> SUFFICES ASSUME NEW l \in Locations, NEW m \in Locations
               PROVE  (HasPort(u, l) /\ Peer(u, l) = m) <=> (HasPort(t, l) /\ Peer(t, l) = m)
    OBVIOUS
  <2>1. m # NoLoc
    BY LocationParts
  <2> QED
    BY <1>4, <1>7, <1>8, <2>1 DEF Peer
<1>10. Links(u)
  BY <1>5, <1>6, <1>7, <1>9, LinksSame
<1>11. LinkedUp(u)
  BY <1>5, <1>8 DEF LinkedUp, Peer
<1> QED
  BY <1>5, <1>10, <1>11 DEF LinksInv

LEMMA PortPartLinks ==
    ASSUME NetInv, LinksInv, NEW s \in Switches, HandlePortPart(s)
    PROVE  LinksInv'
<1> DEFINE e == Head(events[s])
           loc == <<s, e.port>>
           t == nextTopo
           cut == RemoveAssociatedLink(t, loc)
           u == [cut EXCEPT !.ports[loc[1]] = Restrict(@, DOMAIN @ \ {loc[2]})]
<1>1. e \in Messages /\ e.type = "ppart" /\ Legal(Known(t, s), e)
  BY HeadLegal, ReceiveType DEF Handle, HandlePortPart, NetInv
<1>2. e.port \in PortNos /\ IsTopology(t)
  BY <1>1, MessageParts DEF NetInv, TypeOK
<1>3. loc \in Locations /\ loc[1] = s
  BY <1>2 DEF Locations
<1>4. HasPort(t, loc)
  BY <1>1, <1>2, KnownLegal DEF Legal
<1>5. nextTopo' = u /\ channelUp' /\ Links(t) /\ LinkedUp(t)
  BY <1>4 DEF HandlePortPart, Queue, LinksInv
<1> HIDE DEF e, loc, t
<1>6. /\ SameFrame(t, cut) /\ IsTopology(cut) /\ Links(cut) /\ Peer(cut, loc) = NoLoc
      /\ \A l \in Locations : HasPort(t, l) => Peer(cut, l) \in {Peer(t, l), NoLoc}
  BY <1>2, <1>3, <1>4, <1>5, Unlink
<1> HIDE DEF cut
<1>7. HasPort(cut, loc) /\ LinkedUp(cut)
  <2>1. HasPort(cut, loc)
    BY <1>4, <1>6, HasPortDomain DEF SameFrame
  <2>2. LinkedUp(cut)
    BY <1>5, <1>6, FrameUp
  <2> QED
    BY <2>1, <2>2
<1>8. /\ IsTopology(u) /\ u.edges = cut.edges
      /\ \A l \in Locations :
           /\ HasPort(u, l) <=> HasPort(cut, l) /\ l # loc
           /\ HasPort(u, l) => PortAt(u, l) = PortAt(cut, l)
  BY <1>3, <1>6, <1>7, PortRemoved
<1> HIDE DEF u
<1>9. ASSUME NEW l \in Locations, NEW m \in Locations
      PROVE  (HasPort(u, l) /\ Peer(u, l) = m) <=> (HasPort(cut, l) /\ Peer(cut, l) = m)
  BY <1>6, <1>8, LocationParts DEF Peer
<1>10. Links(u)
  BY <1>6, <1>8, <1>9, LinksSame
<1>11. LinkedUp(u)
  BY <1>7, <1>8 DEF LinkedUp, Peer
<1> QED
  BY <1>5, <1>10, <1>11 DEF LinksInv

LEMMA PortModLinks ==
    ASSUME NetInv, LinksInv, NEW s \in Switches, HandlePortMod(s)
    PROVE  LinksInv'
<1> DEFINE e == Head(events[s])
           loc == <<s, e.port>>
           t == nextTopo
           prev == PortAt(t, loc)
           set == Updated(t, loc, e.report)
           downs == {f \in {"config", "status"} : prev[f] /\ ~e.report[f]}
           ups == {f \in {"config", "status"} : ~prev[f] /\ e.report[f]}
<1>1. e \in Messages /\ e.type = "pmod" /\ Legal(Known(t, s), e)
  BY HeadLegal, ReceiveType DEF Handle, HandlePortMod, NetInv
<1>2. e.port \in PortNos /\ e.report \in Reports /\ IsTopology(t)
  BY <1>1, MessageParts DEF NetInv, TypeOK
<1>3. loc \in Locations /\ loc[1] = s
  BY <1>2 DEF Locations
<1>4. HasPort(t, loc) /\ Links(t) /\ LinkedUp(t)
  BY <1>1, <1>2, KnownLegal DEF Legal, LinksInv
<1>5. CASE downs \cup ups = {}
  <2>1. UNCHANGED <<nextTopo, channelUp>>
    BY <1>5 DEF HandlePortMod, Ignore
  <2> QED
    BY <2>1 DEF LinksInv
<1>6. CASE downs \cup ups # {}
  <2>1. nextTopo' = (IF downs = {} THEN set ELSE RemoveAssociatedLink(set, loc)) /\ channelUp'
    BY <1>4, <1>6 DEF HandlePortMod, Queue, LinksInv, Updated
  <2>2. prev \in Ports
    BY <1>2, <1>4 DEF IsTopology, HasPort, PortAt
  <2>3. downs = {} /\ PossiblyUp(prev) => e.report.config \/ e.report.status
    BY <1>2, <2>2 DEF PossiblyUp, Ports, Reports
  <2> HIDE DEF e, loc, t, downs
  <2>4. /\ IsTopology(set) /\ set.edges = t.edges
        /\ \A l \in Locations :
             /\ HasPort(set, l) <=> HasPort(t, l)
             /\ HasPort(t, l) => Peer(set, l) = Peer(t, l)
             /\ HasPort(t, l) /\ l # loc => PortAt(set, l) = PortAt(t, l)
        /\ PortAt(set, loc).config = e.report.config /\ PortAt(set, loc).status = e.report.status
    BY <1>2, <1>3, <1>4, PortUpdated
  <2> HIDE DEF set
  <2>5. Links(set)
    BY <1>4, <2>4, LinksSame
  <2>6. CASE downs = {}
    <3>1. LinkedUp(set)
      BY <1>3, <1>4, <2>3, <2>4, <2>6 DEF LinkedUp, PossiblyUp
    <3> QED
      BY <2>1, <2>5, <2>6, <3>1 DEF LinksInv
  <2>7. CASE downs # {}
    <3> DEFINE u == RemoveAssociatedLink(set, loc)
    <3>1. /\ SameFrame(set, u) /\ Links(u) /\ Peer(u, loc) = NoLoc
          /\ \A l \in Locations : HasPort(set, l) => Peer(u, l) \in {Peer(set, l), NoLoc}
      BY <1>3, <1>4, <2>4, <2>5, Unlink
    <3> HIDE DEF u
    <3>2. \A l \in Locations : HasPort(u, l) <=> HasPort(set, l)
      BY <3>1, HasPortDomain DEF SameFrame
    <3>3. ASSUME NEW l \in Locations, HasPort(u, l), Peer(u, l) # NoLoc
          PROVE  PossiblyUp(PortAt(u, l))
      <4>1. l # loc /\ HasPort(t, l) /\ Peer(t, l) # NoLoc
        BY <2>4, <3>1, <3>2, <3>3
      <4>2. PossiblyUp(PortAt(set, l))
        BY <1>4, <2>4, <4>1 DEF LinkedUp
      <4> QED
        BY <2>4, <3>1, <4>1, <4>2 DEF SameFrame, PossiblyUp
    <3> QED
      BY <2>1, <2>7, <3>1, <3>3 DEF LinksInv, LinkedUp, u
  <2> QED
    BY <2>6, <2>7
<1> QED
  BY <1>5, <1>6

\* Where a port has one neighbour, the old link that handle_link_update
\* removes is the only one that the ports of the new link can have.
LEMMA LinkUpdateLinks ==
    ASSUME OneNeighbour, NetInv, LinksInv, NEW s \in Switches, HandleLinkUpdate(s)
    PROVE  LinksInv'
<1> DEFINE l1 == Head(events[s]).from
           l2 == Head(events[s]).to
           t == nextTopo
           up == PossiblyUp(PortAt(t, l1)) /\ PossiblyUp(PortAt(t, l2))
           cut == RemoveOldLinks(t, l1, l2)
           u == AddLink(cut, l1, l2)
<1>1. Head(events[s]) \in Messages /\ Head(events[s]).type = "link"
  BY ReceiveType DEF HandleLinkUpdate, NetInv
<1>2. l1 \in Locations /\ l2 \in Locations /\ {l1, l2} \in Cables /\ IsTopology(t)
  BY <1>1, MessageParts DEF NetInv, TypeOK
<1>3. l1[1] # l2[1] /\ Links(t) /\ LinkedUp(t)
  BY <1>2, CableEnds DEF LinksInv
<1>4. CASE ~HasPort(t, l1) \/ ~HasPort(t, l2)
  <2>1. UNCHANGED <<nextTopo, channelUp>>
    BY <1>4 DEF HandleLinkUpdate, Ignore
  <2> QED
    BY <2>1 DEF LinksInv
\* An edge that is there joins two linked ports, and these are up.
<1>5. CASE HasPort(t, l1) /\ HasPort(t, l2) /\ EdgeOf(l1, l2) \in t.edges
  <2>1. Peer(t, l1) # NoLoc /\ Peer(t, l2) # NoLoc
    <3>1. EdgeOf(l2, l1) \in t.edges
      BY <1>2, <1>3, <1>5, EdgeFacts
    <3> QED
      BY <1>2, <1>3, <1>5, <3>1, LocationParts DEF Links
  <2>2. up
    BY <1>2, <1>3, <1>5, <2>1 DEF LinkedUp
  <2>3. UNCHANGED <<nextTopo, channelUp>>
    BY <1>5, <2>2 DEF HandleLinkUpdate, Ignore
  <2> QED
    BY <2>3 DEF LinksInv
<1>6. CASE HasPort(t, l1) /\ HasPort(t, l2) /\ EdgeOf(l1, l2) \notin t.edges
  <2>1. nextTopo' = (IF up THEN u ELSE cut) /\ channelUp'
    BY <1>6 DEF HandleLinkUpdate, Queue, LinksInv
  <2>2. up <=> PossiblyUp(PortAt(t, l1)) /\ PossiblyUp(PortAt(t, l2))
    OBVIOUS
  <2> HIDE DEF l1, l2, t, up
  <2>3. /\ Links(cut) /\ SameFrame(t, cut) /\ IsTopology(cut)
        /\ \A e \in cut.edges : DOMAIN e # {l1[1], l2[1]}
        /\ \A l \in Locations : HasPort(t, l) => Peer(cut, l) \in {Peer(t, l), NoLoc}
    BY <1>2, <1>3, <1>6, OldLinksGone, OldLinksFrame
  <2> HIDE DEF cut
  <2>4. LinkedUp(cut)
    BY <1>3, <2>3, FrameUp
  <2>5. CASE ~up
    BY <2>1, <2>3, <2>4, <2>5 DEF LinksInv
  <2>6. CASE up
    <3>1. \A l \in Locations : HasPort(cut, l) <=> HasPort(t, l)
      BY <2>3, HasPortDomain DEF SameFrame
    <3>2. ASSUME NEW l \in {l1, l2}, Peer(cut, l) # NoLoc
          PROVE  FALSE
      <4> DEFINE m == Peer(cut, l)
      <4>1. l \in Locations /\ HasPort(cut, l)
        BY <1>2, <1>6, <3>1
      <4>2. m \in Locations /\ l[1] # m[1] /\ {l, m} \in Cables /\ EdgeOf(l, m) \in cut.edges
        BY <2>3, <3>2, <4>1, PeerEnds
      <4> HIDE DEF m
      <4>3. DOMAIN EdgeOf(l, m) = {l[1], m[1]}
        BY <4>1, <4>2, EdgeFacts
      <4>4. CASE l = l1
        <5>1. m[1] = l2[1]
          BY <1>2, <4>2, <4>4, SameNeighbour
        <5> QED
          BY <2>3, <4>2, <4>3, <4>4, <5>1
      <4>5. CASE l = l2
        <5>1. {l2, l1} \in Cables
          <6>1. {l2, l1} = {l1, l2}
            OBVIOUS
          <6> QED
            BY <1>2, <6>1
        <5>2. m[1] = l1[1]
          BY <4>2, <4>5, <5>1, SameNeighbour
        <5>3. {l[1], m[1]} = {l1[1], l2[1]}
          BY <4>5, <5>2
        <5> QED
          BY <2>3, <4>2, <4>3, <5>3
      <4> QED
        BY <4>4, <4>5
    <3>3. HasPort(cut, l1) /\ HasPort(cut, l2) /\ Peer(cut, l1) = NoLoc /\ Peer(cut, l2) = NoLoc
      BY <1>2, <1>6, <3>1, <3>2
    <3>4. PossiblyUp(PortAt(cut, l1)) /\ PossiblyUp(PortAt(cut, l2))
      BY <1>2, <1>6, <2>2, <2>3, <2>6 DEF SameFrame, PossiblyUp
    <3>5. Links(u)
      BY <1>2, <2>3, <3>3, LinkAgrees
    <3>6. LinkedUp(u)
      BY <1>2, <2>3, <2>4, <3>3, <3>4, LinkedUpAdded
    <3> QED
      BY <2>1, <2>6, <3>5, <3>6 DEF LinksInv
  <2> QED
    BY <2>5, <2>6
<1> QED
  BY <1>4, <1>5, <1>6

LEMMA LinksInit == ASSUME Init PROVE LinksInv
<1>1. nextTopo.edges = {} /\ DOMAIN nextTopo.ports = {} /\ channelUp
  BY DEF Init, EmptyTopo
<1>2. \A l \in Locations : ~HasPort(nextTopo, l)
  BY <1>1 DEF HasPort
<1> QED
  BY <1>1, <1>2 DEF LinksInv, Links, LinkedUp

LEMMA LinksNext ==
    ASSUME OneNeighbour, NetInv, LinksInv, [Next]_vars
    PROVE  LinksInv'
<1>1. ASSUME NEW s \in Switches, Handle(s)
      PROVE  LinksInv'
  BY <1>1, SwitchJoinLinks, SwitchPartLinks, PortJoinLinks, PortPartLinks,
     PortModLinks, LinkUpdateLinks DEF Handle
<1>2. CASE Operate
  <2>1. UNCHANGED <<nextTopo, channelUp>>
    BY <1>2 DEF Operate, Plug, Unplug, SetAdmin, SwapPort, Connect, Disconnect, Operation
  <2> QED
    BY <2>1 DEF LinksInv
<1>3. CASE \E l \in probes : Discovery(l)
  BY <1>3 DEF Discovery, LinksInv
<1>4. CASE TimerStep \/ UNCHANGED vars
  <2>1. UNCHANGED <<nextTopo, channelUp>>
    BY <1>4 DEF TimerStep, Discard, PassCheck, CopyTopo, Assign, Notify, Timer, vars
  <2> QED
    BY <2>1 DEF LinksInv
<1> QED
  BY <1>1, <1>2, <1>3, <1>4 DEF Next, DiscoveryNext

LEMMA LinksAgree == ASSUME LinksInv PROVE LinkSymmetry
<1> DEFINE t == nextTopo
<1>1. ASSUME NEW e \in t.edges, NEW s \in DOMAIN e, NEW r \in DOMAIN e, s # r
      PROVE  HasPort(t, <<s, e[s]>>) /\ Peer(t, <<s, e[s]>>) = <<r, e[r]>>
  <2>1. PICK l \in Locations, m \in Locations : {l, m} \in Cables /\ e = EdgeOf(l, m)
    BY DEF LinksInv, Links
  <2>2. /\ l[1] # m[1] /\ DOMAIN e = {l[1], m[1]} /\ e[l[1]] = l[2] /\ e[m[1]] = m[2]
        /\ EdgeOf(m, l) = e
    <3>1. l[1] # m[1]
      BY <2>1, CableEnds
    <3> QED
      BY <2>1, <3>1, EdgeFacts
  <2>3. HasPort(t, l) /\ Peer(t, l) = m /\ HasPort(t, m) /\ Peer(t, m) = l
    BY <2>1, <2>2 DEF LinksInv, Links
  <2>4. l = <<l[1], l[2]>> /\ m = <<m[1], m[2]>>
    BY LocationParts
  <2>5. CASE s = l[1] /\ r = m[1]
    BY <2>2, <2>3, <2>4, <2>5
  <2>6. CASE s = m[1] /\ r = l[1]
    BY <2>2, <2>3, <2>4, <2>6
  <2> QED
    BY <1>1, <2>2, <2>5, <2>6
<1> QED
  BY <1>1 DEF LinksInv, Links, LinkSymmetry, Peer

\* The two records of every link agree, whatever the order of the messages
\* of the switches, as long as a port has one neighbour.
THEOREM LinksSymmetric == OneNeighbour => (Spec => []LinkSymmetry)
<1> SUFFICES ASSUME OneNeighbour PROVE Spec => []LinkSymmetry
  OBVIOUS
<1>1. Init => NetInv /\ LinksInv
  BY NetInit, LinksInit
<1>2. NetInv /\ LinksInv /\ [Next]_vars => NetInv' /\ LinksInv'
  BY NetNext, LinksNext
<1>3. LinksInv => LinkSymmetry
  BY LinksAgree
<1> QED
  BY <1>1, <1>2, <1>3, PTL DEF Spec

\* With one neighbour per port no handler raises: a message finds its switch
\* and its port, and a link that is reported again has ports that are up.
THEOREM HandlersDoNotRaise == OneNeighbour => (Spec => []HandlersNeverRaise)
<1> SUFFICES ASSUME OneNeighbour PROVE Spec => []HandlersNeverRaise
  OBVIOUS
<1>1. Init => NetInv /\ LinksInv
  BY NetInit, LinksInit
<1>2. NetInv /\ LinksInv /\ [Next]_vars => NetInv' /\ LinksInv'
  BY NetNext, LinksNext
<1>3. LinksInv => HandlersNeverRaise
  BY DEF LinksInv, HandlersNeverRaise
<1> QED
  BY <1>1, <1>2, <1>3, PTL DEF Spec
=============================================================================
