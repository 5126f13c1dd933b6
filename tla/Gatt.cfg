SPECIFICATION FairSpec
CONSTANTS
  BufSize = 2
  MaxLong = 3
  MaxWrites = 4
  MaxConns = 2
  MaxFails = 1
INVARIANTS
  TypeOK
  PreparedIsOneWrite
PROPERTIES
  ImplementsChannel
  RequestsEnd
  FoundAgain
CHECK_DEADLOCK FALSE
