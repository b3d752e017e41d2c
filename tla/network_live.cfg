SPECIFICATION FairSpec
CONSTANTS
    s1 = s1
    s2 = s2
    Switches = {s1, s2}
    PortNos = {1}
    Cables <- OneCable
    AdminPorts = {}
    SwapPorts = {}
    UserSwitches = {}
    MaxOps = 3
    Prompt = TRUE
INVARIANTS
    TypeOK
    PublishedUnlessUnqueued
    SeenIsPublished
PROPERTIES
    EventuallySeen
CHECK_DEADLOCK FALSE
