SPECIFICATION Spec
CONSTANTS
  Users = {u1, u2}
  MaxDaemon = 3
  MaxCrash = 1

PROPERTY RemovesOnlyStale
CHECK_DEADLOCK FALSE
