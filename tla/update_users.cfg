SPECIFICATION Spec
CONSTANTS
    Mode = "reactive0"
    Users = {u1, u2}
    FifoLock = FALSE
    MaxChanges = 2
    MaxTopos = 1
    MaxPackets = 2
CHECK_DEADLOCK FALSE
INVARIANTS
    CompiledUnlessIgnored
    MicroflowsCurrent
