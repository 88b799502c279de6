SPECIFICATION Spec
CONSTANTS
  Parts = {"batching", "geofences", "api", "adapters", "observer", "reports"}
  Ids = {i1, i2}
  MaxCalls = 4
  FenceIds = {1, 2}
  MaxFenceCalls = 3
  Clients = {"gnss", "measurement", "batching", "geofence"}
  Offers <- MCOffers
  MaxApiCalls = 9
  MaxInputs = 4
  Others = {"flp", "geo"}
  OthersMask <- MCOthersMask
  ApiClients = {"c1", "c2"}
  CallbackSets = {{"position"}, {"sv", "nmea"}}
  MAX_ADAPTERS = 3
  Types = {"mobile", "wifi"}
  Observers = {lib1, lib2}
  ItemSets = {{"airplane"}, {"network", "airplane"}}
  SvNum <- MCSvNum
  maxItem = 2
  Payloads <- MCPayloads
  Positions <- MCPositions
  Fixes <- MCFixes
  SvReports <- MCSvReports
  Sentences <- MCSentences
  Measurements <- MCMeasurements
  INTERMEDIATE_POS = 1
  ACCURACY_THRES = 20
  ProviderAP = TRUE
  BootTime = 100
SYMMETRY Symmetry
INVARIANT SessionStoppable
INVARIANT AnswersMatch
INVARIANT BreachesReachTheirFence
INVARIANT InterfacesServe
INVARIANT SubscriptionsAgree
INVARIANT ClientsToldLast
INVARIANT XtraKnowsConnections
INVARIANT ReportsReachAdded
INVARIANT ModemDeliversWanted
INVARIANT SessionsRestarted
INVARIANT DebugReportCurrent
INVARIANT UsedInFixMatches
CHECK_DEADLOCK FALSE
