SPECIFICATION FairSpec
CONSTANTS
  Radix = 2
  HeaderLen = 2
  Limits = {2, 3, 4}
  Payloads <- MCPayloads
  Buffer = 2
  MaxWrites = 3
CHECK_DEADLOCK FALSE
INVARIANTS TypeOK  AcceptedIsReadable
PROPERTIES LinkSpec SentArrives
