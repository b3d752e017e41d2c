SPECIFICATION FairSpec
CONSTANTS
    Mode = "proactive0"
    Users = {}
    FifoLock = TRUE
    MaxChanges = 2
    MaxTopos = 2
    MaxPackets = 3
CHECK_DEADLOCK FALSE
INVARIANTS
    ForkedUnlessIgnored
PROPERTIES
    EventuallyInstalled
