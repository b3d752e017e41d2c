SPECIFICATION DiscoverySpec
CONSTANTS
    s1 = s1
    s2 = s2
    Switches = {s1, s2}
    PortNos = {1, 2}
    Cables <- TwinCables
    AdminPorts <- End1
    SwapPorts <- End2
    UserSwitches = {s2}
    MaxOps = 4
    Prompt = TRUE
INVARIANTS
    LinkSymmetry
CHECK_DEADLOCK FALSE
