CONSTANTS
  Caller = {c1, c2}
  Sizes = {1, 2}
  MaxPending = 3
  MaxPush = 2
SPECIFICATION Spec
CHECK_DEADLOCK FALSE
INVARIANTS QueueOK NoLostWakeup CallerOrder
PROPERTIES WriterServes PipeSpec
