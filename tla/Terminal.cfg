CONSTANTS
  TabStep = 2
  Sizes <- MCSizes
  HistLimits = {0, 2}
  Counts = {0, 1, 3}
  MaxText = 3
  MaxOps = 4
SPECIFICATION Spec
CHECK_DEADLOCK FALSE
INVARIANTS
  TypeOK HistoryIsTail ScrollbackIsMain
PROPERTIES
  UpdateIsHidden ScreenIsShown
