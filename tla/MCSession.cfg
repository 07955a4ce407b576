SPECIFICATION FairSpec
CONSTANTS
  Modes = {"OneShot", "Persistent"}
  Kinds = {"command", "unknown", "untyped", "badjson", "oversize"}
  MaxFrames = 3
  MaxCalls = 2
CHECK_DEADLOCK FALSE
INVARIANTS TypeOK StaysAligned AnswersInOrder NoneSkipped NoSilentDrop PersistentHangupIsSilent
PROPERTIES GoneClientEndsSession
