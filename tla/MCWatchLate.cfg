SPECIFICATION FairSpec
CONSTANTS
  Files = {}
  Dirs = {"dir"}
  Trees = {}
  Bare = {}
  Names <- MCNames
  Filter <- MCFilter
  DirName <- MCDirName
  Concerns <- MCConcerns
  Debounce = 2
  Poll = 1
  MaxEvents = 2
  MaxFaults = 0
CHECK_DEADLOCK FALSE
PROPERTIES LateAttach
