SPECIFICATION FairSpec
CONSTANTS
  Resources = {r1, r2}
  NoResource = NoResource
  Publishers = {r1}
  Blocks = {b1, b2}
  NoBlock = NoBlock
  Dangling = Dangling
  Free = Free
  PoolSize = 3
INVARIANTS
  TypeOK
  StorageConserved
  NoLostWakeup
  DataInPlace
  NoStaleSignal
  NoCommandIgnored
PROPERTIES
  AllHandled
