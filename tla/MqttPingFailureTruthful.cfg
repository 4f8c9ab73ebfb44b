SPECIFICATION Spec
CONSTANTS
  Clients = {c1, c2}
  NoClient = NoClient
  Slots = {s1, s2}
  NoSlot = NoSlot
  Free = Free
  QueueSize = 2
  Heartbeats = {1}
  MaxTime = 1
  MaxInbox = 1
PROPERTIES
  PingFailureTruthful
