CONSTANTS
  ReplyQueueCap = 2
  MaxReply = 5
SPECIFICATION Spec
INVARIANTS QueueOK
PROPERTIES NobodyIsKept PipeSpec
CHECK_DEADLOCK FALSE
