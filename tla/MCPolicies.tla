----------------------------- MODULE MCPolicies -----------------------------
(* Small instances of Policies and Transforms for TLC: two switches, two ports,
   addresses with a network, a tag and a virtual header. *)
EXTENDS Transforms

MCFields == {"switch", "inport", "outport", "ethtype", "srcip", "dstip", "vlan_id", "tag"}
MCValues == {"1", "2", "3", "ip", "arp", "lldp", "inp"}
Net == {"1", "2"}
MCPatterns == {{v} : v \in MCValues \union {"none"}} \union {Net}
Test(f, p) == [g \in {f} |-> p]

MCTests == {Test("dstip", Net), Test("srcip", {"1"}), Test("inport", {"1"})}
NetTests == {Test("srcip", Net), Test("srcip", {"1"}), Test("inport", {"1"})}
MCMods == {Test("outport", "1"), Test("outport", "2"), Test("srcip", "1")}
MCVlan == [e \in {Test("tag", v) : v \in {"1", "2", "3"}} |-> e["tag"]]
MCTags == {Test("tag", "inport")}


Packet(in, type, src, dst, vlan) ==
    [f \in MCFields |-> CASE f = "switch" -> "1" [] f = "inport" -> in [] f = "ethtype" -> type
                          [] f = "srcip" -> src [] f = "dstip" -> dst [] f = "vlan_id" -> vlan
                          [] OTHER -> "none"]
MCSamples == {Packet(in, "ip", src, dst, "none") : in, src \in {"1", "2"}, dst \in {"1", "3"}}
                \union {Packet("1", "arp", src, "2", "none") : src \in {"1", "2"}}
                \union {Packet(in, "lldp", "none", "none", "none") : in \in {"1", "2"}}
                \union {Packet("2", "ip", "1", "1", "3")}

\* What the theorems on compilation and on flow tables need, of the values above.
ASSUME MCModsExact == ModsExact
ASSUME MCInstallable == Installable
=============================================================================
