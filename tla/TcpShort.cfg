SPECIFICATION Spec
CONSTANTS
  c1 = c1
  c2 = c2
  c3 = c3
  Clients <- TwoClients
  MaxSockets = 3
  Backlog = 1
  ReplyLen = 2
  MsgLen = 1
  RxLen = 1
  MaxUnits = 1
  MaxPushes = 0
  Pipelining = FALSE
  ShortSends = TRUE
  Resets = FALSE
  SetUpFails = FALSE
INVARIANTS
  RepliesInOrder
CHECK_DEADLOCK FALSE
