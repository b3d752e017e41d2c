-------------------------- MODULE ConcreteNetwork --------------------------
(***************************************************************************)
(* Topology discovery of the Pyretic runtime: class ConcreteNetwork of     *)
(* core/runtime.py over the Topology graph of core/network.py.             *)
(*                                                                         *)
(* The asyncore thread runs one handler per OpenFlow event and edits       *)
(* next_topo; a handler that wants its edit seen takes an update number    *)
(* and starts a timer thread, and the timer of the newest number copies    *)
(* next_topo into topology and tells the runtime.  Handlers run one after  *)
(* the other, so each is one action; a timer thread is four steps (check,  *)
(* copy, assign, notify) that interleave with everything else.             *)
(*                                                                         *)
(* The network side is the OpenFlow client, which is not part of the       *)
(* repository: one FIFO of events per switch, and discovery packets that   *)
(* come back as a link event at the far end of a working cable.            *)
(***************************************************************************)
EXTENDS Naturals, FiniteSets, Functions, SequencesExt

CONSTANTS
    Switches,       \* datapath ids
    PortNos,        \* port numbers of every switch
    Cables,         \* the cables there may be: pairs of locations
    UserSwitches,   \* switches that report LINK_DOWN whatever the carrier is
    AdminPorts,     \* bound: locations an operator takes down and up
    SwapPorts,      \* bound: locations whose port is removed and added
    MaxOps,         \* bound: operations of the network's operator
    Prompt          \* TRUE: a timer copies and assigns within wait_period

Locations == Switches \X PortNos
NoLoc == <<>>       \* the None of Port.linked_to

ASSUME CablesAssumption ==
    \A c \in Cables :
        \E l, m \in Locations : c = {l, m} /\ l[1] # m[1]
ASSUME PortNosAssumption == IsFiniteSet(PortNos)
ASSUME MaxOpsAssumption == MaxOps \in Nat
ASSUME UserAssumption == UserSwitches \subseteq Switches
ASSUME PortsAssumption == AdminPorts \cup SwapPorts \subseteq Locations
ASSUME PromptAssumption == Prompt \in BOOLEAN

VARIABLES
    \* the network (external)
    attached,       \* switches with an OpenFlow connection
    admin,          \* locations that exist and are configured up
    present,        \* locations that exist
    plugged,        \* cables in place
    probes,         \* discovery packets on their way out of a location
    events,         \* events[s]: messages of switch s not handled yet
    ops,            \* operations so far
    \* ConcreteNetwork, asyncore side
    nextTopo,       \* next_topo
    updateNo,       \* update_no
    channelUp,      \* FALSE once a handler raised: asyncore closed the channel
    unqueued,       \* history: the last edit, or number taken, queued no update
    \* ConcreteNetwork, timer threads, each named by its this_update_no
    sleeping,       \* in time.sleep(wait_period)
    checked,        \* past the comparison with update_no
    copied,         \* next_topo.copy() made, not assigned
    notifying,      \* topology assigned, handle_network_change not yet run
    topology,       \* topology, what policies read
    seen            \* the topology of the last set_network of the policies

network == <<attached, admin, present, plugged, ops>>
timers == <<sleeping, checked, copied, notifying, topology, seen>>
vars == <<network, probes, events, nextTopo, updateNo, channelUp, unqueued,
          timers>>

----------------------------------------------------------------------------
(* Topology: a graph whose nodes carry ports and whose edges carry, for    *)
(* each of their two switches, the port they end in.                       *)

NewPort(config, status) ==
    [config |-> config, status |-> status, linked_to |-> NoLoc]
PossiblyUp(port) == port.config \/ port.status

EmptyTopo == [ports |-> [s \in {} |-> s], edges |-> {}]
HasPort(t, loc) ==
    loc[1] \in DOMAIN t.ports /\ loc[2] \in DOMAIN t.ports[loc[1]]
PortAt(t, loc) == t.ports[loc[1]][loc[2]]
EdgeOf(l, m) == [s \in {l[1], m[1]} |-> IF s = l[1] THEN l[2] ELSE m[2]]
RemoveEdge(t, s1, s2) ==
    [t EXCEPT !.edges = {e \in @ : DOMAIN e # {s1, s2}}]

\* Mutant: a port that is there is kept as it is.
SetPortDefault(t, loc, port) ==
    [t EXCEPT !.ports[loc[1]] =
        [p \in DOMAIN @ \cup {loc[2]} |-> IF p \in DOMAIN @ THEN @[p] ELSE port]]

SetPort(t, loc, port) ==
    [t EXCEPT !.ports[loc[1]] =
        [p \in DOMAIN @ \cup {loc[2]} |-> IF p = loc[2] THEN port ELSE @[p]]]
SetLink(t, loc, peer) ==
    SetPort(t, loc, [PortAt(t, loc) EXCEPT !.linked_to = peer])

\* Mutant: the far port is not unlinked.
RemoveOwnLink(t, loc) ==
    LET peer == PortAt(t, loc).linked_to
    IN  IF peer = NoLoc THEN t
        ELSE SetLink(RemoveEdge(t, loc[1], peer[1]), loc, NoLoc)

\* Mutant: the ports are unlinked, the edge stays.
RemoveLinkKeepEdge(t, loc) ==
    LET peer == PortAt(t, loc).linked_to
        half == IF HasPort(t, peer) THEN SetLink(t, peer, NoLoc) ELSE t
    IN  IF peer = NoLoc THEN t ELSE SetLink(half, loc, NoLoc)

RemoveAssociatedLink(t, loc) ==
    LET peer == PortAt(t, loc).linked_to
        cut  == RemoveEdge(t, loc[1], peer[1])
        half == IF HasPort(t, peer) THEN SetLink(cut, peer, NoLoc) ELSE cut
    IN  IF peer = NoLoc THEN t ELSE SetLink(half, loc, NoLoc)

\* handle_switch_part unlinks the ports one by one and then removes the node
\* with its edges; the peers are on other switches, so the order is immaterial.
RemoveSwitch(t, s) ==
    LET peers == {PortAt(t, <<s, p>>).linked_to : p \in DOMAIN t.ports[s]}
    IN  [ports |-> [r \in DOMAIN t.ports \ {s} |->
                       [p \in DOMAIN t.ports[r] |->
                           IF <<r, p>> \in peers
                           THEN [t.ports[r][p] EXCEPT !.linked_to = NoLoc]
                           ELSE t.ports[r][p]]],
         edges |-> {e \in t.edges : s \notin DOMAIN e}]

----------------------------------------------------------------------------
(* The network (external).  A port reports its configuration and its link  *)
(* state; an operation changes the report of at most one port of a switch, *)
(* because a cable joins two switches.                                     *)

Carrier(l, plg, adm) == \E c \in plg : l \in c /\ c \subseteq adm
Report(l, plg, adm) ==
    [config |-> l \in adm,
     status |-> l[1] \notin UserSwitches /\ Carrier(l, plg, adm)]
PortEvent(type, l, plg, adm) ==
    [type |-> type, port |-> l[2], report |-> Report(l, plg, adm)]
Working(c) ==
    c \in plugged /\ c \subseteq admin /\ \A l \in c : l[1] \in attached
Far(c, l) == CHOOSE m \in c : m # l

Reported(ps, plg, adm) ==
    [s \in Switches |->
        LET changed == {p \in PortNos :
                /\ <<s, p>> \in ps
                /\ Report(<<s, p>>, plg, adm) # Report(<<s, p>>, plugged, admin)}
        IN  IF s \in attached /\ changed # {}
            THEN Append(events[s],
                    PortEvent("pmod", <<s, CHOOSE p \in changed : TRUE>>, plg, adm))
            ELSE events[s]]

Operation ==
    /\ ops < MaxOps
    /\ ops' = ops + 1
    /\ UNCHANGED <<probes, nextTopo, updateNo, channelUp, unqueued, timers>>

Plug(c) ==
    /\ c \notin plugged
    /\ \A d \in plugged : c \cap d = {}
    /\ plugged' = plugged \cup {c}
    /\ events' = Reported(present, plugged', admin)
    /\ UNCHANGED <<attached, admin, present>>
    /\ Operation

Unplug(c) ==
    /\ c \in plugged
    /\ plugged' = plugged \ {c}
    /\ events' = Reported(present, plugged', admin)
    /\ UNCHANGED <<attached, admin, present>>
    /\ Operation

SetAdmin(l) ==
    /\ l \in present
    /\ admin' = IF l \in admin THEN admin \ {l} ELSE admin \cup {l}
    /\ events' = Reported(present, plugged, admin')
    /\ UNCHANGED <<attached, present, plugged>>
    /\ Operation

\* A port is removed from its switch, or comes back.
SwapPort(l) ==
    LET gone == l \in present
        type == IF gone THEN "ppart" ELSE "pjoin"
    IN  /\ present' = IF gone THEN present \ {l} ELSE present \cup {l}
        /\ admin' = IF gone THEN admin \ {l} ELSE admin \cup {l}
        /\ events' = [Reported(present \ {l}, plugged, admin') EXCEPT
                ![l[1]] = IF l[1] \in attached
                          THEN Append(@, PortEvent(type, l, plugged, admin'))
                          ELSE @]
        /\ UNCHANGED <<attached, plugged>>
        /\ Operation

\* The controller hears of a switch, then of each of its ports.
Connect(s) ==
    LET ports == SetToSeq({p \in PortNos : <<s, p>> \in present})
    IN  /\ s \notin attached
        /\ attached' = attached \cup {s}
        /\ events' = [events EXCEPT ![s] =
                (@ \o <<[type |-> "sjoin"]>>) \o
                [i \in DOMAIN ports |->
                    PortEvent("pjoin", <<s, ports[i]>>, plugged, admin)]]
        /\ UNCHANGED <<admin, present, plugged>>
        /\ Operation

Disconnect(s) ==
    /\ s \in attached
    /\ attached' = attached \ {s}
    /\ events' = [events EXCEPT ![s] = Append(@, [type |-> "spart"])]
    /\ UNCHANGED <<admin, present, plugged>>
    /\ Operation

\* A discovery packet leaves location l; if it reaches another switch that
\* is connected, that switch reports the link it came over.
Discovery(l) ==
    /\ l \in probes
    /\ probes' = probes \ {l}
    /\ events' =
        IF \E c \in Cables : l \in c /\ Working(c)
        THEN LET c == CHOOSE c \in Cables : l \in c /\ Working(c)
             IN  [events EXCEPT ![Far(c, l)[1]] =
                    Append(@, [type |-> "link", from |-> l, to |-> Far(c, l)])]
        ELSE events
    /\ UNCHANGED <<network, nextTopo, updateNo, channelUp, unqueued, timers>>

----------------------------------------------------------------------------
(* The handlers.  Receive(s, type) takes the next message of switch s;     *)
(* Queue(k) is k > 0 rounds of get_update_no and queue_update.             *)

Receive(s, type) ==
    /\ channelUp
    /\ events[s] # <<>>
    /\ Head(events[s]).type = type
    /\ events' = [events EXCEPT ![s] = Tail(@)]
    /\ UNCHANGED <<network, checked, copied, notifying, topology, seen>>

\* Mutant: queue_update is given the number before it is incremented.
QueueOldNumber(k) ==
    /\ updateNo' = updateNo + k
    /\ sleeping' = sleeping \cup updateNo .. (updateNo + k - 1)
    /\ unqueued' = FALSE
    /\ UNCHANGED channelUp

\* Mutant: get_update_no returns update_no + 1 and does not store it.
QueueUnstored(k) ==
    /\ UNCHANGED <<updateNo, channelUp>>
    /\ sleeping' = sleeping \cup (updateNo + 1) .. (updateNo + k)
    /\ unqueued' = FALSE

Queue(k) ==
    /\ updateNo' = updateNo + k
    /\ sleeping' = sleeping \cup (updateNo + 1) .. (updateNo + k)
    /\ unqueued' = FALSE
    /\ UNCHANGED channelUp

Ignore ==
    UNCHANGED <<nextTopo, updateNo, sleeping, unqueued, channelUp, probes>>

\* An exception leaves the handler: asyncore closes the channel to the client.
Raise ==
    /\ channelUp' = FALSE
    /\ UNCHANGED <<nextTopo, sleeping, probes>>

\* add_node on a switch that is there already empties its ports and keeps
\* its edges.  No update is queued.
HandleSwitchJoin(s) ==
    /\ Receive(s, "sjoin")
    /\ nextTopo' = [nextTopo EXCEPT !.ports =
            [r \in DOMAIN @ \cup {s} |-> IF r = s THEN <<>> ELSE @[r]]]
    /\ unqueued' = TRUE
    /\ UNCHANGED <<updateNo, sleeping, channelUp, probes>>

HandleSwitchPart(s) ==
    /\ Receive(s, "spart")
    /\ IF s \in DOMAIN nextTopo.ports
       THEN /\ nextTopo' = RemoveSwitch(nextTopo, s)
            /\ Queue(1)
            /\ UNCHANGED probes
       ELSE Raise /\ UNCHANGED <<updateNo, unqueued>>

\* The update number is taken before the port is known to be up: a port that
\* joins down makes the pending update stale and queues none.
HandlePortJoin(s) ==
    /\ Receive(s, "pjoin")
    /\ LET e   == Head(events[s])
           loc == <<s, e.port>>
           port == NewPort(e.report.config, e.report.status)
       IN  IF s \notin DOMAIN nextTopo.ports
           THEN Raise /\ updateNo' = updateNo + 1 /\ unqueued' = TRUE
           ELSE /\ nextTopo' = SetPort(nextTopo, loc, port)
                /\ IF PossiblyUp(port)
                   THEN Queue(1) /\ probes' = probes \cup {loc}
                   ELSE /\ updateNo' = updateNo + 1
                        /\ unqueued' = TRUE
                        /\ UNCHANGED <<sleeping, channelUp, probes>>

HandlePortPart(s) ==
    /\ Receive(s, "ppart")
    /\ LET loc == <<s, Head(events[s]).port>>
           cut == RemoveAssociatedLink(nextTopo, loc)
       IN  IF HasPort(nextTopo, loc)
           THEN /\ nextTopo' = [cut EXCEPT !.ports[s] =
                        Restrict(@, DOMAIN @ \ {loc[2]})]
                /\ Queue(1)
                /\ UNCHANGED probes
           ELSE Ignore

\* Mutant: port_up does not probe the port.
DoubleCheckOnly(loc, downs, ups) ==
    IF "status" \in downs THEN {loc} ELSE {}

\* port_up probes the port, and so does port_down when it double checks.
Rediscover(loc, downs, ups) ==
    IF ups # {} \/ "status" \in downs THEN {loc} ELSE {}

\* port_down for each of config and status that went down, then port_up.
HandlePortMod(s) ==
    /\ Receive(s, "pmod")
    /\ LET e     == Head(events[s])
           loc   == <<s, e.port>>
           prev  == PortAt(nextTopo, loc)
           set   == SetPort(nextTopo, loc, [prev EXCEPT
                        !.config = e.report.config, !.status = e.report.status])
           downs == {f \in {"config", "status"} : prev[f] /\ ~e.report[f]}
           ups   == {f \in {"config", "status"} : ~prev[f] /\ e.report[f]}
       IN  IF HasPort(nextTopo, loc) /\ downs \cup ups # {}
           THEN /\ nextTopo' =
                    IF downs = {} THEN set ELSE RemoveAssociatedLink(set, loc)
                /\ Queue(Cardinality(downs) + (IF ups = {} THEN 0 ELSE 1))
                /\ probes' = probes \cup Rediscover(loc, downs, ups)
           ELSE Ignore

\* LINK PORTS CHANGED: the ports the edge names are unlinked, unless they are
\* the new ones; a port that is gone raises the KeyError that the handler
\* takes for "completely new link".
RemoveOldLinks(t, l1, l2) ==
    LET olds == {e \in t.edges : DOMAIN e = {l1[1], l2[1]}}
        link == CHOOSE e \in olds : TRUE
        old1 == <<l1[1], link[l1[1]]>>
        old2 == <<l2[1], link[l2[1]]>>
        fst  == IF old1 = l1 THEN t ELSE RemoveAssociatedLink(t, old1)
    IN  IF olds = {} \/ (old1 # l1 /\ ~HasPort(t, old1)) THEN t
        ELSE IF old2 = l2 \/ ~HasPort(t, old2) THEN fst
        ELSE RemoveAssociatedLink(fst, old2)

AddLink(t, l1, l2) ==
    LET cut == RemoveEdge(SetLink(SetLink(t, l1, l2), l2, l1), l1[1], l2[1])
    IN  [cut EXCEPT !.edges = @ \cup {EdgeOf(l1, l2)}]

HandleLinkUpdate(s) ==
    /\ Receive(s, "link")
    /\ LET l1  == Head(events[s]).from
           l2  == Head(events[s]).to
           up  == PossiblyUp(PortAt(nextTopo, l1)) /\ PossiblyUp(PortAt(nextTopo, l2))
           cut == RemoveOldLinks(nextTopo, l1, l2)
       IN  IF ~HasPort(nextTopo, l1) \/ ~HasPort(nextTopo, l2) THEN Ignore
           ELSE IF EdgeOf(l1, l2) \in nextTopo.edges
           THEN IF up THEN Ignore ELSE Raise /\ UNCHANGED <<updateNo, unqueued>>
           ELSE /\ nextTopo' = IF up THEN AddLink(cut, l1, l2) ELSE cut
                /\ Queue(1)
                /\ UNCHANGED probes

Handle(s) ==
    \/ HandleSwitchJoin(s)
    \/ HandleSwitchPart(s)
    \/ HandlePortJoin(s)
    \/ HandlePortPart(s)
    \/ HandlePortMod(s)
    \/ HandleLinkUpdate(s)

----------------------------------------------------------------------------
(* The timer threads: queue_update's f.                                    *)

Timer == UNCHANGED <<network, probes, events, nextTopo, updateNo, channelUp, unqueued>>

\* this_update_no != update_no: a later update has been queued.
Discard(n) ==
    /\ n \in sleeping
    /\ n # updateNo
    /\ sleeping' = sleeping \ {n}
    /\ UNCHANGED <<checked, copied, notifying, topology, seen>>
    /\ Timer

\* A thread past the comparison holds the newest number it saw, so a thread
\* that gets here while it has not assigned was started after its comparison
\* and slept wait_period since: Prompt says this does not happen.
PassCheck(n) ==
    /\ n \in sleeping
    /\ n = updateNo
    /\ Prompt => checked = {} /\ copied = {}
    /\ sleeping' = sleeping \ {n}
    /\ checked' = checked \cup {n}
    /\ UNCHANGED <<copied, notifying, topology, seen>>
    /\ Timer

CopyTopo(n) ==
    /\ n \in checked
    /\ checked' = checked \ {n}
    /\ copied' = copied \cup {[no |-> n, topo |-> nextTopo]}
    /\ UNCHANGED <<sleeping, notifying, topology, seen>>
    /\ Timer

\* Mutant: handle_network_change is not called.
AssignSilently(c) ==
    /\ c \in copied
    /\ copied' = copied \ {c}
    /\ topology' = c.topo
    /\ UNCHANGED <<sleeping, checked, notifying, seen>>
    /\ Timer

Assign(c) ==
    /\ c \in copied
    /\ copied' = copied \ {c}
    /\ topology' = c.topo
    /\ notifying' = notifying \cup {c.no}
    /\ UNCHANGED <<sleeping, checked, seen>>
    /\ Timer

\* handle_network_change hands the policies the network, whose topology is
\* the current one.  Its test "topology != prev_network.topology" compares
\* two objects (Topology has __eq__ and no __ne__), and is always true.
Notify(n) ==
    /\ n \in notifying
    /\ notifying' = notifying \ {n}
    /\ seen' = topology
    /\ UNCHANGED <<sleeping, checked, copied, topology>>
    /\ Timer

----------------------------------------------------------------------------
Init ==
    /\ attached = {}
    /\ present = Locations
    /\ admin = Locations
    /\ plugged \in {P \in SUBSET Cables : \A c, d \in P : c # d => c \cap d = {}}
    /\ probes = {}
    /\ events = [s \in Switches |-> <<>>]
    /\ ops = 0
    /\ nextTopo = EmptyTopo
    /\ updateNo = 0
    /\ channelUp = TRUE
    /\ unqueued = FALSE
    /\ sleeping = {}
    /\ checked = {}
    /\ copied = {}
    /\ notifying = {}
    /\ topology = EmptyTopo
    /\ seen = EmptyTopo

Operate ==
    \/ \E c \in Cables : Plug(c) \/ Unplug(c)
    \/ \E l \in AdminPorts : SetAdmin(l)
    \/ \E l \in SwapPorts : SwapPort(l)
    \/ \E s \in Switches : Connect(s) \/ Disconnect(s)

TimerStep ==
    \/ \E n \in sleeping : Discard(n) \/ PassCheck(n)
    \/ \E n \in checked : CopyTopo(n)
    \/ \E c \in copied : Assign(c)
    \/ \E n \in notifying : Notify(n)

\* The handlers alone, while every timer thread is still asleep: no timer
\* step writes what a handler reads.
DiscoveryNext ==
    \/ Operate
    \/ \E l \in probes : Discovery(l)
    \/ \E s \in Switches : Handle(s)

Next == DiscoveryNext \/ TimerStep

DiscoverySpec == Init /\ [][DiscoveryNext]_vars
Spec == Init /\ [][Next]_vars

\* The asyncore thread reads on, every started thread gets to run, and the
\* client answers discovery packets; nobody has to operate the network.
Fairness ==
    /\ WF_vars(\E l \in probes : Discovery(l))
    /\ \A s \in Switches : WF_vars(Handle(s))
    /\ WF_vars(TimerStep)

FairSpec == Spec /\ Fairness

----------------------------------------------------------------------------
(* Properties.                                                             *)

Reports == [config : BOOLEAN, status : BOOLEAN]
Ports == [config : BOOLEAN, status : BOOLEAN, linked_to : Locations \cup {NoLoc}]
Messages ==
    [type : {"sjoin", "spart"}]
    \cup [type : {"pjoin", "pmod", "ppart"}, port : PortNos, report : Reports]
    \cup {m \in [type : {"link"}, from : Locations, to : Locations] :
            {m.from, m.to} \in Cables}
IsTopology(t) ==
    /\ DOMAIN t = {"ports", "edges"}
    /\ DOMAIN t.ports \subseteq Switches
    /\ \A s \in DOMAIN t.ports :
        /\ DOMAIN t.ports[s] \subseteq PortNos
        /\ \A p \in DOMAIN t.ports[s] : t.ports[s][p] \in Ports
    /\ t.edges \subseteq {EdgeOf(l, m) : l \in Locations, m \in Locations}

\* Every variable has its type; update numbers of threads have been issued.
TypeOK ==
    /\ attached \subseteq Switches
    /\ admin \subseteq present /\ present \subseteq Locations
    /\ plugged \subseteq Cables
    /\ probes \subseteq Locations
    /\ events \in [Switches -> Seq(Messages)]
    /\ ops \in 0..MaxOps
    /\ IsTopology(nextTopo) /\ IsTopology(topology) /\ IsTopology(seen)
    /\ updateNo \in Nat
    /\ sleeping \cup checked \cup notifying \subseteq 1..updateNo
    /\ \A c \in copied : c.no \in 1..updateNo /\ IsTopology(c.topo)
    /\ channelUp \in BOOLEAN /\ unqueued \in BOOLEAN

\* The two records of a link agree in next_topo: the edge between two
\* switches names exactly the two ports that are linked_to each other.  Four
\* places of the handlers edit them separately.
LinkSymmetry ==
    /\ \A e \in nextTopo.edges : \A s, r \in DOMAIN e : s # r =>
        /\ HasPort(nextTopo, <<s, e[s]>>)
        /\ PortAt(nextTopo, <<s, e[s]>>).linked_to = <<r, e[r]>>
    /\ \A l \in Locations : HasPort(nextTopo, l) =>
        LET peer == PortAt(nextTopo, l).linked_to
        IN  peer # NoLoc => EdgeOf(l, peer) \in nextTopo.edges

\* No handler lets an exception out: one that does costs the controller its
\* only channel to the switches.
HandlersNeverRaise == channelUp

\* Once the messages of every switch are handled, next_topo has the switches
\* of the network and their ports, with the state they report.
QuietPortsExact ==
    (\A s \in Switches : events[s] = <<>>) =>
        /\ DOMAIN nextTopo.ports = attached
        /\ \A l \in Locations : l[1] \in attached =>
            /\ HasPort(nextTopo, l) <=> l \in present
            /\ l \in present =>
                LET port == PortAt(nextTopo, l) IN
                [config |-> port.config, status |-> port.status]
                    = Report(l, plugged, admin)

\* Once no discovery packet is under way either, next_topo has a link for
\* every cable that works and for no other.
WorkingEdges ==
    UNION {{EdgeOf(l, Far(c, l)) : l \in c} : c \in {d \in Cables : Working(d)}}
Quiet == probes = {} /\ \A s \in Switches : events[s] = <<>>
QuietLinksExact == Quiet => nextTopo.edges = WorkingEdges

\* Why: the newest number sleeps, or a thread is past its comparison and has
\* yet to copy, or has a copy of next_topo as it is, or has assigned it; and
\* one thread at a time is between its comparison and its assignment.
NoTimer == sleeping = {} /\ checked = {} /\ copied = {}
DebounceInv ==
    /\ updateNo \in Nat
    /\ checked = {} \/ copied = {}
    /\ \A m, n \in checked : m = n
    /\ \A c, d \in copied : c = d
    /\ ~unqueued =>
        \/ updateNo \in sleeping
        \/ checked # {}
        \/ \E c \in copied : c.topo = nextTopo
        \/ copied = {} /\ topology = nextTopo

\* Debouncing loses no update that was queued: with no timer thread at work,
\* topology is next_topo, unless the last edit of next_topo queued nothing.
PublishedUnlessUnqueued == NoTimer /\ ~unqueued => topology = nextTopo

\* However the threads that call handle_network_change overlap, the policies
\* end with the topology assigned last.
SeenIsPublished == notifying = {} => seen = topology

\* In the end the policies see the links of the network, whatever happened
\* before, unless the last edit queued no update.
EventuallySeen == <>[](unqueued \/ seen.edges = WorkingEdges)

=============================================================================
