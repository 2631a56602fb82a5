CONSTANTS
  MaxPane = 3
  MaxWindow = 2
  ExitCap = 1
  SpawnFails = FALSE
SPECIFICATION Spec
CHECK_DEADLOCK FALSE
INVARIANTS
  TypeOK PanesAreHome TreesFit FocusIsShown
PROPERTIES
  ReapKeepsFocus
