SPECIFICATION Spec
CONSTANTS
  Codes <- MCCodes
  Captures <- MCCaptures
  LineSize = 50
  HeaderSize = 16
INVARIANTS
  TypeOK
  SentAsStored
  OnCarrier
  GapsKept
