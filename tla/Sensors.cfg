SPECIFICATION Spec
CONSTANTS
  Kinds = {"HTU", "GYRO", "LIGHT", "SOUND", "BRIDGE", "IR"}
  MaxCommands = 2
CHECK_DEADLOCK FALSE
INVARIANTS
  TypeOK
  NoSilentCommand
  TruthfulResult
  AckCount
  AdvertisedUnderstood
  AccessRespected
  StrayAcksBounded
