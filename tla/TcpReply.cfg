SPECIFICATION FairSpec
CONSTANTS
  c1 = c1
  c2 = c2
  c3 = c3
  Clients <- ThreeClients
  MaxSockets = 3
  Backlog = 1
  ReplyLen = 2
  MsgLen = 2
  RxLen = 3
  MaxUnits = 3
  MaxPushes = 1
  Pipelining = TRUE
  ShortSends = FALSE
  Resets = TRUE
  SetUpFails = TRUE
INVARIANTS
  TypeOK
  RepliesInOrder
PROPERTIES
  ServedUnlessStuck
CHECK_DEADLOCK FALSE
