CONSTANTS
  MaxPane = 2
  MaxWindow = 2
  ExitCap = 1
  SpawnFails = TRUE
SPECIFICATION Spec
CHECK_DEADLOCK FALSE
PROPERTIES
  ReaperKeepsUp
