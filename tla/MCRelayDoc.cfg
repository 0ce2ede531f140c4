\* An idle window of three ticks, chunks of up to two pieces.
SPECIFICATION RelaySpec
CONSTANTS
  Idle = 3
  MaxLen = 2
PROPERTIES
  NeitherDirectionMoved
CHECK_DEADLOCK FALSE
