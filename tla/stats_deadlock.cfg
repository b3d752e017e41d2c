SPECIFICATION Spec
CONSTANTS
    s1 = s1
    s2 = s2
    b1 = b1
    b2 = b2
    m1 = m1
    m2 = m2
    m3 = m3
    u1 = u1
    u2 = u2
    Switches = {s1, s2}
    Buckets = {b1, b2}
    Users = {u1}
    Matches = {m1, m2, m3}
    BucketOf <- OneUser
    SwitchOf <- Named
    AnySwitch = AnySwitch
    Initial <- Both
    Classifiers <- Wider
    NoOne = NoOne
    MaxPulls = 1
    MaxUpdates = 0
    MaxLoss = 0
INVARIANTS
    NoCircularWait
CHECK_DEADLOCK FALSE
