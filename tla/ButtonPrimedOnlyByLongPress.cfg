SPECIFICATION Spec
CONSTANTS
  ResetTime = 3
PROPERTIES
  PrimedOnlyByLongPress
