SPECIFICATION Spec
CONSTANTS
  Users = {u1, u2}
  MaxDaemon = 3
  MaxCrash = 1
INVARIANT Reachable
PROPERTIES NewSucceeds RunEnds
CHECK_DEADLOCK FALSE
