SPECIFICATION FairSpec
CONSTANTS
  Payloads <- MCPayloads
  Base = 2
  HeaderLen = 2
  MaxFrame = 2
  MaxSends = 3
  None = None
INVARIANT TypeOK
PROPERTIES WholeFrames SentIsReceived
CHECK_DEADLOCK FALSE
