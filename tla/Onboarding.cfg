SPECIFICATION Spec
CONSTANTS
  Networks = {n1, n2}
  BleSensors = {s1, s2}
  MaxRegistrations = 3
  None = None
CHECK_DEADLOCK FALSE
INVARIANTS
  TypeOK
  StoredConfigurationTested
  CloudAfterWifi
  TestedAsIssued
