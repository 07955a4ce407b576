SPECIFICATION Spec
CONSTANTS
  Proc = {p1, p2, p3}
  Leftovers = {"absent", "stale", "file", "dir"}
  WithChown = TRUE
  MaxFaults = 2
PROPERTIES LiveNeverUnlinked
