SPECIFICATION DiscoverySpec
CONSTANTS
    s1 = s1
    s2 = s2
    Switches = {s1, s2}
    PortNos = {1}
    Cables <- OneCable
    AdminPorts <- BothEnds
    SwapPorts <- BothEnds
    UserSwitches = {}
    MaxOps = 5
    Prompt = TRUE
INVARIANTS
    HandlersNeverRaise
    QuietPortsExact
    QuietLinksExact
CHECK_DEADLOCK FALSE
