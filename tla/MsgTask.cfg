CONSTANTS
  Joinable = {TRUE, FALSE}
  MaxMsgs = 3
SPECIFICATION FairSpec
INVARIANT HandledInOrder
INVARIANT NoLostSignal
INVARIANT DelegateOutlives
PROPERTY TaskEnds
CHECK_DEADLOCK FALSE
