SPECIFICATION FairSpec
CONSTANTS
  h1 = h1
  h2 = h2
  h3 = h3
  Hosts = {h1, h2, h3}
  Switches = {"s1", "s2", "s3"}
  Wirings <- MCWirings
  Talks <- MCTalks
  MaxPackets = 3
  None = None
INVARIANT LearnedLeadsHome
INVARIANT FloodsOnce
INVARIANT SecondPingUnseen
PROPERTY EventuallyDelivered
CHECK_DEADLOCK FALSE
