SPECIFICATION FairSpec
CONSTANTS
  Reloader = {r1, r2}
  MaxEdits = 3
  MaxFaults = 2
CHECK_DEADLOCK FALSE
INVARIANTS TypeOK
PROPERTIES LiveIsGenuine OnlyRacersRegress Converges
