CONSTANTS
  Handle = {h1, h2}
  ModemType = {"SUPL", "SUPL_ES"}
  EmergencyPdn = TRUE
  MaxRetries = 2
  DsResult = {"SUCCESS", "BUSY", "UNSUPPORTED", "OTHER"}
  FreedReads = {}
  ReleaseMayFail = FALSE
  MaxInFlight = 2
  MaxSSR = 1
SYMMETRY Symmetry
SPECIFICATION Spec
INVARIANT HandlesKept
PROPERTY RemovedOnlyWhenTold
