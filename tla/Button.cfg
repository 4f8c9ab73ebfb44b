SPECIFICATION Spec
CONSTANTS
  ResetTime = 5
INVARIANTS
  TypeOK
  PublishOnlyAdvertised
  PressReported
  LongPressPrimes
PROPERTIES
  CalmPriming
