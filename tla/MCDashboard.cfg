\* Two connections and two other events over a channel of two and a log of three
\* lines; terminals in which the log shows no, one or two lines.
SPECIFICATION Spec
CONSTANTS
  MaxConns = 2
  MaxOthers = 2
  ChanCap = 2
  LogCap = 3
  Page = 2
  Mains = {2, 3, 4}
INVARIANTS
  DashboardInv
PROPERTIES
  ViewIsAnchored
  
