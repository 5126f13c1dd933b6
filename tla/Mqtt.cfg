SPECIFICATION FairSpec
CONSTANTS
  Ids <- TwoIds
  MaxSockets = 4
  MaxBreaks = 1
  MaxFails = 1
  PubLen = 2
  BufLen = 2
  MaxPubs = 4
  QueueCap = 2
  Stops = TRUE
INVARIANTS
  TypeOK
  SubscribedIsTrue
  DeliveredOnceInOrder
PROPERTIES
  SubscribesAgain
  StopReturns
CHECK_DEADLOCK FALSE
