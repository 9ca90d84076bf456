SPECIFICATION SpecOneServiceEach
CONSTANTS
  i1 = i1  i2 = i2  i3 = i3  r1 = r1  r2 = r2  r3 = r3
  a1 = a1  a2 = a2
  user = user
  Incident = {i1, i2, i3}
  Request = {r1, r2, r3}
  User = {user}
  Operator = {}
  Author <- MCAuthor
  ServiceList <- TwoServices
  Resource = {"s3"}
  LiveStatus = {"OPEN"}
  Tag = {"merged"}
  Severity = {4}
  BodyField = {}
  Endpoint <- CorrelationCalls
  None = None
  MaxInFlight = 2
  Alert = {a1}
  Report <- SharedReports
  Threshold <- NoThreshold
  Ageing = {}
SYMMETRY Symmetric
INVARIANTS CorrelationTypeOK ServicesCoverAlerts
PROPERTIES LinksAreAtomic MergedOnce
CHECK_DEADLOCK FALSE
