SPECIFICATION FairSpec
CONSTANTS
  Clients = {c1, c2}
  NoClient = NoClient
  Slots = {s1, s2}
  NoSlot = NoSlot
  Free = Free
  QueueSize = 2
  Heartbeats = {0, 1, 2}
  MaxTime = 2
  MaxInbox = 1
INVARIANTS
  TypeOK
  PoolConserved
  SubscribeAnswerTruthful
  OnePingInFlight
  NoWorkOnBrokenConnection
  AnswersOnlyWhereAwaited
PROPERTIES
  ImplementsPubSub
  FailedReconnectionEnds
  DeadLinkDetected
  AllServed
