SPECIFICATION FairSpec
CONSTANTS
  Threads = {u1}
  Children = {c1}
  Runtime = runtime
  Writer = writer
  Messages = 2
  BodySize <- MCBodySize
  Block = 3
  Capacity = 5
INVARIANT OnceInOrder
INVARIANT WholeUnlessShort
PROPERTY EventuallyHandled
CHECK_DEADLOCK FALSE
