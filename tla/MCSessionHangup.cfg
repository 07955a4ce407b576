SPECIFICATION Spec
CONSTANTS
  Modes = {"OneShot"}
  Kinds = {"command", "unknown", "untyped", "badjson", "oversize"}
  MaxFrames = 2
  MaxCalls = 2
CHECK_DEADLOCK FALSE
INVARIANTS HangupIsSilent
