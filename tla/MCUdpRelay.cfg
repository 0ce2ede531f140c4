\* Two ports of the client's host, one other target, one blocked address; two
\* remembered targets, one datagram per second, resolving takes a window and more.
SPECIFICATION FairSpec
CONSTANTS
  x1 = x1
  x2 = x2
  t1 = t1
  bad = bad
  Addrs <- MCOneTarget
  ClientAddrs <- MCClientAddrs
  Blocked <- MCBlocked
  MaxTargets = 2
  RatePps = {1}
  Second = 2
  ResolveTicks = 2
  Idle = 2
  Ranges <- MCRanges
  NoRange = NoRange
  CursorMod = 8
  Ephemeral = 9
  BindIps <- MCBindIps
  Advertises <- MCAdvertises
  NoIp = NoIp
  ByName = ByName
  Lookups <- MCLookups
INVARIANTS
  UdpInv
  SetupIsExact
  BurstIsBounded
PROPERTIES
  AssociationIsPrivate
  TeardownHappens
  IdleReclaimed
CHECK_DEADLOCK FALSE
