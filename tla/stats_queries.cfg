SPECIFICATION FairSpec
CONSTANTS
    s1 = s1
    s2 = s2
    b1 = b1
    b2 = b2
    m1 = m1
    m2 = m2
    m3 = m3
    u1 = u1
    u2 = u2
    Switches = {s1, s2}
    Buckets = {b1, b2}
    Users = {u1, u2}
    Matches = {m1, m2, m3}
    BucketOf <- SharedBucket
    SwitchOf <- Anywhere
    AnySwitch = AnySwitch
    Initial <- OnlyB2
    Classifiers <- Wider
    NoOne = NoOne
    MaxPulls = 3
    MaxUpdates = 2
    MaxLoss = 1
INVARIANTS
    AnswersWillCome
    ListedIffAsked
    CirclesCrossLocks
PROPERTIES
    CallbackComes
    QuietInUpdate
CHECK_DEADLOCK FALSE
