\* As in MCUdpRelay.cfg: literals of both families under local addresses of both.
SPECIFICATION Spec
CONSTANTS
  x1 = x1
  x2 = x2
  t1 = t1
  bad = bad
  Addrs <- MCOneTarget
  ClientAddrs <- MCClientAddrs
  Blocked <- MCBlocked
  MaxTargets = 2
  RatePps = {1}
  Second = 2
  ResolveTicks = 2
  Idle = 2
  Ranges <- MCRanges
  NoRange = NoRange
  CursorMod = 8
  Ephemeral = 9
  BindIps <- MCBindIps
  Advertises <- MCAdvertises
  NoIp = NoIp
  ByName = ByName
  Lookups <- MCLookups
INVARIANTS
  AdvertisedFamilyMatches
CHECK_DEADLOCK FALSE
