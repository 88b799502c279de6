CONSTANTS
  MaxInputs = 4
  MaxNotify = 3
  MaxExpire = 2
  Settings <- MCSettings
  Refusable = {"GPS_LOCK", "SUPL_VER"}
SPECIFICATION Spec
INVARIANT PayloadOwned
INVARIANT AnswerIsItsOwn
INVARIANT OdcpiServed
INVARIANT LockFollowsVote
INVARIANT ConfigKept
INVARIANT ClientInStep
PROPERTY NiAnswered
CHECK_DEADLOCK FALSE
