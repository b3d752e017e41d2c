SPECIFICATION Spec
CONSTANTS
  Fields <- MCFields
  Values <- MCValues
  Absent = "none"
  Patterns <- MCPatterns
  Tests <- MCTests
  Mods <- MCMods
  Tags <- MCTags
  Buckets = {"fb"}
  Counters = {"cb"}
  Samples <- MCSamples
  MaxAtoms = 3
  MaxDepth = 5
  Switches = {"1", "2"}
  LLDP = "lldp"
  ARP = "arp"
  IPv4 = "ip"
  InPort = "inp"
  ToController = "ctl"
  Virtual = {"tag", "vlan_id"}
  Vlan <- MCVlan
INVARIANT CompileAgrees
INVARIANT BucketsAreFed
INVARIANT QueriesApplied
INVARIANT ProactiveForward
INVARIANT ReactiveForward
CHECK_DEADLOCK FALSE
