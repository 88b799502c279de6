CONSTANTS
  Handle = {h1, h2}
  ModemType = {"SUPL", "WWAN_ANY", "SUPL_ES"}
  EmergencyPdn = FALSE
  MaxRetries = 2
  DsResult = {}
  FreedReads = {}
  ReleaseMayFail = TRUE
  MaxInFlight = 3
  MaxSSR = 0
SPECIFICATION Spec
PROPERTY MachinesImplement
