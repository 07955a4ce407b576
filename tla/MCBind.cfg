SPECIFICATION FairSpec
CONSTANTS
  Proc = {p1, p2, p3}
  Leftovers = {"absent", "stale", "file", "dir"}
  WithChown = TRUE
  MaxFaults = 2
INVARIANTS TypeOK ServingIsReachable PermsApplied OnlyRacersSteal
PROPERTIES LockSpec StaleRecovered
