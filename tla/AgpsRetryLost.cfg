CONSTANTS
  Handle = {h1, h2}
  ModemType = {"SUPL_ES"}
  EmergencyPdn = TRUE
  MaxRetries = 4
  DsResult = {"SUCCESS", "BUSY"}
  FreedReads = {}
  ReleaseMayFail = FALSE
  MaxInFlight = 2
  MaxSSR = 0
SPECIFICATION FairSpec
PROPERTY DsPendingEnds
