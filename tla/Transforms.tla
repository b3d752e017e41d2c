------------------------------ MODULE Transforms ------------------------------
(***************************************************************************)
(* What Runtime.install_classifier (src/core/runtime.py) makes of a        *)
(* classifier before its rules are sent to the switches: OpenFlow rules    *)
(* with priorities, for the switches of the topology; and the microflows   *)
(* that reactive0_install makes of packets that the controller evaluated.  *)
(*                                                                         *)
(* Outside the controller a packet carries its virtual headers in a tag.   *)
(***************************************************************************)
EXTENDS Policies

CONSTANTS
    Switches,           \* switches of the topology
    LLDP, ARP, IPv4,    \* values of ethtype
    InPort,             \* OFPP_IN_PORT
    ToController,       \* OFPP_CONTROLLER
    Virtual,            \* the headers that OpenFlow does not know
    Vlan                \* the tag of each set of values of virtual headers

\* encode_extended_values gives each set of values a tag of its own.
ASSUME VlanAssumption ==
    /\ \A e \in DOMAIN Vlan : DOMAIN e \subseteq Virtual /\ Vlan[e] # Absent
    /\ \A e1, e2 \in DOMAIN Vlan : Vlan[e1] = Vlan[e2] => e1 = e2

HasField(f, v) == [g \in {f} |-> {v}]

\* remove_drop, remove_identity and remove_buckets
IsRemoved(a) == a.k \in {"drop", "identity", "count"}
Remaining(acts) == FlattenSeq([i \in DOMAIN acts |-> IF IsRemoved(acts[i]) THEN <<>> ELSE <<acts[i]>>])
RemoveActions(c) == [i \in DOMAIN c |-> Rule(c[i].match, Remaining(c[i].actions))]

\* controllerify
Controllerify(c) ==
    [i \in DOMAIN c |-> IF Controller \in Range(c[i].actions) THEN Rule(c[i].match, <<Controller>>)
                        ELSE c[i]]

\* layer_3_specialize: LLDP is kept for the runtime, a test of an address is
\* split by ethtype, and ARP rules that change two fields go to the controller.
ArpBug(acts) == \E i \in DOMAIN acts : acts[i].k = "modify" /\ \E f, g \in DOMAIN acts[i].a : f # g
Layer3Rule(r) ==
    LET With(type) == Meet(r.match, HasField("ethtype", type))
    IN  IF DOMAIN r.match \intersect {"srcip", "dstip"} # {} /\ "ethtype" \notin DOMAIN r.match
        THEN <<Rule(With(IPv4), r.actions),
               Rule(With(ARP), IF ArpBug(r.actions) THEN <<Controller>> ELSE r.actions)>>
        ELSE <<r>>
Layer3Specialize(c) ==
    <<Rule(HasField("ethtype", LLDP), <<Controller>>)>>
        \o FlattenSeq([i \in DOMAIN c |-> Layer3Rule(c[i])])

\* vlan_specialize: a rule that names no tag is for packets without one.
VlanSpecialize(c) ==
    [i \in DOMAIN c |-> IF "vlan_id" \in DOMAIN c[i].match THEN c[i]
                        ELSE Rule(Meet(c[i].match, HasField("vlan_id", Absent)), c[i].actions)]

\* switchify
SwitchRules(r) ==
    IF "switch" \in DOMAIN r.match
    THEN IF \E s \in Switches : r.match["switch"] = {s} THEN <<r>> ELSE <<>>
    ELSE SetToSeq({Rule(Meet(r.match, HasField("switch", s)), r.actions) : s \in Switches})
Switchify(c) == FlattenSeq([i \in DOMAIN c |-> SwitchRules(c[i])])

\* concretize: actions become maps, and Controller an output port.
Concretize(c) ==
    LET Action(a) == IF a = Controller THEN Modify([f \in {"outport"} |-> ToController]) ELSE a
    IN  [i \in DOMAIN c |-> Rule(c[i].match, [j \in DOMAIN c[i].actions |-> Action(c[i].actions[j])])]

\* OF_inportize: OpenFlow sends a packet back only through OFPP_IN_PORT, so a
\* rule gets a copy for every port it forwards to.  An action that is no
\* forwarding raises, and nothing is installed.
Raises(c) == \E i \in DOMAIN c : \E a \in Range(c[i].actions) :
                a.k = "modify" /\ "outport" \notin DOMAIN a.a
BackOut(acts, port) ==
    [i \in DOMAIN acts |->
        IF acts[i].a["outport"] = port
        THEN Modify([acts[i].a EXCEPT !["outport"] = InPort]) ELSE acts[i]]
\* Mutant: the rule comes before its copies for the ports.
InportRulesLast(r) ==
    LET ports   == {a.a["outport"] : a \in Range(r.actions)} \ {ToController, InPort}
        Copy(p) == Rule(Meet(r.match, HasField("inport", p)), BackOut(r.actions, p))
    IN  <<r>> \o SetToSeq({Copy(p) : p \in {q \in ports : ~Disjoint(r.match, HasField("inport", q))}})
InportRules(r) ==
    LET ports    == {a.a["outport"] : a \in Range(r.actions)} \ {ToController, InPort}
        Copy(p)  == Rule(Meet(r.match, HasField("inport", p)), BackOut(r.actions, p))
    IN  IF "inport" \notin DOMAIN r.match THEN SetToSeq({Copy(p) : p \in ports}) \o <<r>>
        ELSE IF \E p \in ports : r.match["inport"] = {p}
        THEN <<Copy(CHOOSE p \in ports : r.match["inport"] = {p})>>
        ELSE <<r>>
OFInportize(c) == FlattenSeq([i \in DOMAIN c |-> InportRules(c[i])])

\* prioritize: downwards from 60000, for each switch.
FirstPriority == 60000
Prioritize(c) ==
    LET Before(i) == Cardinality({j \in 1 .. i - 1 : c[j].match["switch"] = c[i].match["switch"]})
    IN  {[match |-> c[i].match, priority |-> FirstPriority - Before(i), actions |-> c[i].actions] :
            i \in DOMAIN c}

Prepared(c) == RemoveActions(VlanSpecialize(Layer3Specialize(Controllerify(RemoveActions(c)))))
ForSwitches(c) == Switchify(Prepared(c))
FlowTable(c) == Prioritize(OFInportize(Concretize(ForSwitches(c))))

-----------------------------------------------------------------------------
(* Packets in and out of the controller *)

\* concrete2pyretic: the tag gives way to the virtual headers it stands for.
Pyretic(pkt) ==
    LET ext == CHOOSE e \in DOMAIN Vlan : Vlan[e] = pkt["vlan_id"]
    IN  IF pkt["vlan_id"] = Absent THEN pkt
        ELSE [f \in Fields |-> IF f \in DOMAIN ext THEN ext[f]
                               ELSE IF f = "vlan_id" THEN Absent ELSE pkt[f]]

\* pyretic2concrete: virtual headers with a value give way to their tag.
Extended(pkt) == [f \in {g \in Virtual : pkt[g] # Absent} |-> pkt[f]]
Concrete(pkt) ==
    [f \in Fields |-> IF f = "vlan_id" /\ DOMAIN Extended(pkt) # {} THEN Vlan[Extended(pkt)]
                      ELSE IF f \in Virtual THEN Absent ELSE pkt[f]]

\* handle_packet_in: the packets that the controller sends, those of them that leave.
Output(p, pkt) == {Concrete(q) : q \in Eval[p][Pyretic(pkt)]}
Leaving(pkts)  == {q \in pkts : q["outport"] # Absent}

\* match_on_all_fields_rule_tuple: a test of every field that the packet has, and
\* for each output the fields that differ.  An ARP packet that changes in two
\* fields gets no rule.
Microflow(pkt, outs) ==
    LET fields    == {f \in Fields : pkt[f] # Absent}
        Change(q) == Modify([f \in {g \in Fields \ {"switch", "inport"} : q[g] # pkt[g]} |-> q[f]])
        rule      == [match    |-> [f \in fields |-> {pkt[f]}],
                      priority |-> 0,
                      actions  |-> SetToSeq({Change(q) : q \in outs})]
    IN  IF pkt["ethtype"] = ARP /\ ArpBug(rule.actions) THEN {} ELSE {rule}

Queries(p, pkt) == QueriesInEval[p][[res |-> {}, pkts |-> {Pyretic(pkt)}]].res

\* Mutant: a microflow also for packets that queries are waiting for.
MicroflowsAlways(p, pkt) == Microflow(Concrete(Pyretic(pkt)), Output(p, pkt))

\* reactive0_install, unless there are queries to apply.
Microflows(p, pkt) ==
    IF Queries(p, pkt) # {} THEN {}
    ELSE Microflow(Concrete(Pyretic(pkt)), Output(p, pkt))

\* A switch: the matching rule of highest priority acts; if there is none, or
\* its action says so, the packet goes to the controller, where it is evaluated.
\* An ARP packet is not rewritten in two fields (a bug that the code names).
Matching(table, pkt) == {r \in table : Sat(r.match, pkt)}
TopRule(table, pkt) ==
    CHOOSE r \in Matching(table, pkt) : \A q \in Matching(table, pkt) : q.priority <= r.priority
Sent(act, pkt) ==
    LET out == Modified(pkt, act.a)
    IN  IF pkt["ethtype"] = ARP /\ ArpBug(<<act>>) THEN {}
        ELSE IF out["outport"] = InPort THEN {[out EXCEPT !["outport"] = pkt["inport"]]}
        ELSE IF out["outport"] = pkt["inport"] THEN {}
        ELSE {out}
ToControl(table, pkt) ==
    \/ Matching(table, pkt) = {}
    \/ \E a \in Range(TopRule(table, pkt).actions) : Modified(pkt, a.a)["outport"] = ToController
Forwarded(p, table, pkt) ==
    Leaving(IF ToControl(table, pkt) THEN Output(p, pkt)
            ELSE UNION {Sent(a, pkt) : a \in Range(TopRule(table, pkt).actions)})
-----------------------------------------------------------------------------
\* Packets that are not LLDP, as they come to a switch.
Arriving == {p \in Samples : p["outport"] = Absent /\ p["ethtype"] # LLDP}

\* What the transformations take for granted.  Programs test ports and switches by
\* their numbers and addresses by addresses, leave the tag to the runtime, and set no
\* port that OpenFlow reserves; a packet comes to a switch of the topology with no
\* virtual header but in its tag, and with addresses only if it is IP or ARP.
Installable ==
    /\ {"switch", "inport", "outport", "ethtype", "vlan_id"} \union Virtual \subseteq Fields
    /\ "vlan_id" \in Virtual /\ Virtual \intersect {"switch", "inport", "outport"} = {}
    /\ IsFiniteSet(Switches)
    /\ InPort # ToController /\ {InPort, ToController} \intersect Fields = {}
    /\ \A m \in Tests :
          /\ DOMAIN m \intersect Virtual = {}
          /\ \A f \in DOMAIN m \intersect {"switch", "inport"} : \E v \in Values : m[f] = {v}
          /\ \A f \in DOMAIN m \intersect {"srcip", "dstip"} : Absent \notin m[f]
    /\ \A a \in Mods :
          /\ DOMAIN a \intersect Virtual = {}
          /\ "outport" \in DOMAIN a => a["outport"] \notin {InPort, ToController}
    /\ \A pkt \in Arriving :
          /\ pkt["switch"] \in Switches
          /\ \A f \in Virtual \ {"vlan_id"} : pkt[f] = Absent
          /\ (\E f \in Fields \intersect {"srcip", "dstip"} : pkt[f] # Absent)
                => pkt["ethtype"] \in {IPv4, ARP}

(* In the proactive mode the tables of a program's classifier, with the controller
   behind them, forward every packet as the policy's eval does, and what it leaves
   without an output port goes nowhere (install_classifier with its transformations);
   unless OF_inportize raises, or the rule changes an ARP packet in two fields, which
   only a rule that tests an address is kept from. *)
ProactiveForward ==
    LET c     == Compile[pol]
        table == FlowTable(c)
    IN  ~Raises(ForSwitches(c)) =>
        \A pkt \in Arriving :
            \/ Forwarded(pol, table, pkt) = Leaving(Output(pol, pkt))
            \/ pkt["ethtype"] = ARP /\ ArpBug(TopRule(table, pkt).actions)

(* In the reactive mode the microflows of all packets do, where nothing goes back
   where it came from (no microflow uses OFPP_IN_PORT), and packets for queries still
   come to the controller (reactive0_install).  The policies test no virtual header:
   the microflow of a packet without a tag does not test that there is none. *)
ReactiveForward ==
    LET table == UNION {Microflows(pol, p) : p \in Arriving}
    IN  \A pkt \in Arriving :
            /\ Queries(pol, pkt) # {} => ToControl(table, pkt)
            /\ (\A q \in Output(pol, pkt) : q["outport"] # pkt["inport"]) =>
                  Forwarded(pol, table, pkt) = Leaving(Output(pol, pkt))
=============================================================================
