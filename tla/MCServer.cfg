\* Three clients, two from one address, both caps below the demand.
SPECIFICATION FairSpec
CONSTANTS
  a = a
  b = b
  c1 = c1
  c2 = c2
  c3 = c3
  IPs <- MCIPs
  Conns <- ThreeConns
  IpOf <- MCIpOf
  MaxTotal = {2}
  MaxPerIp = {1}
  MaxSends = 1
  MaxErrors = 1
INVARIANTS
  ServerInv
  EventsPairUp
  DrainedClean
PROPERTIES
  RefusalIsExact
  ShutdownDrains
  SlotsComeBack
CHECK_DEADLOCK FALSE
