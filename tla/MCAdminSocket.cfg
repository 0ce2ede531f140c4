\* Three processes, two deaths, any leftover at the path.
SPECIFICATION FairSpec
CONSTANTS
  Procs = {p1, p2, p3}
  InitPaths = {"absent", "regular", "stale"}
  IoErrors = TRUE
  MaxDeaths = 2
INVARIANTS
  ServingIsReachable
PROPERTIES
  NeverDisturbsLivePeer
  ImplementsEndpoint
  RestartRecovers
