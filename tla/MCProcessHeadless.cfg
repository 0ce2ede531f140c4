\* Headless mode: the printer waits for main's own sender.
SPECIFICATION SpecHeadless
CONSTANTS
  Conns = {c1}
PROPERTY
  DrainTaskExits
CHECK_DEADLOCK FALSE
