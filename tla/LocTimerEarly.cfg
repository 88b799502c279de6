CONSTANTS
  Client = {c1, c2}
  MayDestroy = {}
  Delay = {1, 2}
  MaxTime = 3
  MaxStarts = 2
SPECIFICATION Spec
CHECK_DEADLOCK FALSE
INVARIANT PopsOnlyDue
