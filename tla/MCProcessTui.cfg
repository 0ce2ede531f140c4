\* The dashboard as front end.
SPECIFICATION SpecTui
CONSTANTS
  Conns = {c1, c2, c3}
INVARIANTS
  ProcessInv
PROPERTY
  ShutdownCompletes
CHECK_DEADLOCK FALSE
