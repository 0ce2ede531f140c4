\* Four events over a bus and a ring that hold two.
SPECIFICATION FairSpec
CONSTANTS
  ChanCap = 2
  RingCap = 2
  PipeCap = 1
  MaxEvents = 4
INVARIANTS
  NoGapAtSeam
  AttachInv
  NothingInFlightIsDropped
PROPERTIES
  HandlerReclaimed
  DashboardExits
CHECK_DEADLOCK FALSE
