SPECIFICATION Spec
CONSTANTS
  Base = 2
  HashLen = 1
  NonceLen = 1
  PointLen = 1
  EphLen = 2
  MacLen = 1
  U16 = 1
  U24 = 2
  U32 = 2
  U64 = 1
  MaxField = 2
  MaxBytes = 11
  MaxParts = 2
  Field = 11
  A = 8
  B = 1
  Order = 17
INVARIANTS
  RoundTrip
  
  
  TranscriptBinds
  AdditionIsGroup
  ScalarMultIsRepeatedAddition
  BlindCancels
\* One input per behaviour: the system stops after it.
CHECK_DEADLOCK FALSE
