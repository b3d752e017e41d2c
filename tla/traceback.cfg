SPECIFICATION Spec
CONSTANTS
  Fields <- MCFields
  Values <- MCValues
  Absent = "none"
  Patterns <- MCPatterns
  Tests <- MCTests
  Mods <- MCMods
  Tags = {}
  Buckets = {}
  Counters = {}
  Samples <- MCSamples
  MaxAtoms = 3
  MaxDepth = 5
  Switches = {"1", "2", "3"}
  Port <- MCPort
INVARIANT BackInverts
INVARIANT SimplifySound
INVARIANT HopTracedBack
CHECK_DEADLOCK FALSE
