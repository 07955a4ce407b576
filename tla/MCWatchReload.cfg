SPECIFICATION FairSpec
CONSTANTS
  Files = {"file", "bare"}
  Dirs = {"dir"}
  Trees = {"tree"}
  Bare = {"bare"}
  Names <- MCNames
  Filter <- MCFilter
  DirName <- MCDirName
  Concerns <- MCConcerns
  Debounce = 2
  Poll = 1
  MaxEvents = 2
  MaxFaults = 1
CHECK_DEADLOCK FALSE
INVARIANTS TypeOK OneReloadAfterStop
PROPERTIES ReloadsDebounced ReloadHasCause ChangeIsReloaded StopEndsThread FilesAndTreesAttach
