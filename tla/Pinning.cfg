SPECIFICATION Spec
CONSTANTS
  Dirs = {"d"}
  MapNames <- MCMapNames
  ProgNames <- MCProgNames
  Calls = 4
CHECK_DEADLOCK FALSE
PROPERTIES
  FailedPinUndone
  
