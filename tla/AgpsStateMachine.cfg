CONSTANTS
  Handle = {h1, h2, h3}
  MaxInFlight = 3
  ReleaseMayFail = TRUE
SPECIFICATION FairSpec
INVARIANT TypeOK
INVARIANT StateMatchesSubscribers
INVARIANT ModemAgrees
INVARIANT ReportOnItsWay
PROPERTY Answered
