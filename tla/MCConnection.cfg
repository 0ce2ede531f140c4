\* Bytes and buffers of the real sizes.  Three allowed addresses and a refused one, in
\* answers of up to three, under a deadline that two and three shares do not divide evenly
\* at every instant; idle timers of three ticks, chunks of up to two pieces; all policies.
SPECIFICATION FairConnectionSpec
CONSTANTS
  Streams <- MCStreams
  Users <- MCUsers
  NotUtf8 = {255}
  V4Len = 4
  V6Len = 16
  MaxByte = 255
  ReadBuf = 512
  Addrs = {a1, a2, a3, bad}
  Blocked = {bad}
  Deadline = 7
  MaxAnswers = 3
  Idle = 3
  MaxLen = 2
  Policies <- MCPolicies
  Inputs <- MCInputs
  Lookups <- MCLookups
  Payloads <- MCPayloads
INVARIANTS
  NegotiateInv
  ClosedIsJustified
  EstablishInv
  SearchIsComplete
  NoCandidateStarves
  ErrorIsHonest
  RelayInv
  PolicyIsExact
  DatagramIsExact
PROPERTIES
  Returns
  IdleIsCoupled
  SilentRelayEnds
CHECK_DEADLOCK FALSE
