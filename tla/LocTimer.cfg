CONSTANTS
  Client = {c1, c2}
  MayDestroy = {c1}
  Delay = {1, 2}
  MaxTime = 2
  MaxStarts = 3
SPECIFICATION FairSpec
CHECK_DEADLOCK FALSE
INVARIANT NoLostWakeup
INVARIANT DelegatesDeleted
PROPERTY TimersEnd
