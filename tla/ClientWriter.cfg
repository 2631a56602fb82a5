CONSTANTS
  CtrlQueueSize = 2
  MaxSend = 3
  MaxFrame = 2
SPECIFICATION Spec
INVARIANTS MailboxOK ByeFlushed ControlFirst
PROPERTIES NothingIsLeft
CHECK_DEADLOCK FALSE
