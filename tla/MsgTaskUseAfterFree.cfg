CONSTANTS
  Joinable = {FALSE}
  MaxMsgs = 1
SPECIFICATION Spec
INVARIANT DeletedOnceThreadDeleted
CHECK_DEADLOCK FALSE
