SPECIFICATION Spec
CONSTANTS
  Panes = {p1, p2}
  Clients = {c1}
  NoPane = none
  HistCap = 2
  WheelStep = 1
  Sizes <- MCSizes
  AppModes = {"none", "motion", "alt"}
  MaxLine = 3
  MaxOps = 5
SYMMETRY MCSymmetry
INVARIANTS TypeOK ViewStays CopiesSelection
PROPERTIES ReportsFollowPress
CHECK_DEADLOCK FALSE
