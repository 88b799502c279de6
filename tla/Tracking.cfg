SPECIFICATION Spec
CONSTANTS
  Client = {c1, c2}
  Interval = {1, 2}
  MaxSession = 3
  MaxInFlight = 2
  MaxRequests = 2
  MaxDown = 1
INVARIANT TypeOK
INVARIANT EngineAtSmallest
INVARIANT SessionsInStep
PROPERTY DestroyedForgotten
CHECK_DEADLOCK FALSE
