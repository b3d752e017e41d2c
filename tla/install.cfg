SPECIFICATION FairSpec
CONSTANTS
  Switches = {s1, s2}
  Keys = {"high", "low", "net"}
  Networks = {"net"}
  Actions = {"a", "b"}
  None = None
  TableMiss = "miss"
  Classifiers <- MCClassifiers
  Unforwardable <- MCUnforwardable
  Modes = {"proactive0", "proactive1"}
  MaxJobs = 3
  MaxLeaves = 1
INVARIANT TypeOK
INVARIANT TablesTrusted
PROPERTY StayingRulesUntouched
PROPERTY StoreSpec
PROPERTY EventuallyLatest
CHECK_DEADLOCK FALSE
