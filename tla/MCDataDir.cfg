SPECIFICATION Spec
CONSTANTS
  Paths <- MCPaths
  Daemons = {"microdns", "micronet"}
INVARIANTS TypeOK RootOfOneMoment NeverUnderCwd SetRootSticks
