SPECIFICATION SpecOneService
CONSTANTS
  i1 = i1  i2 = i2  i3 = i3  r1 = r1  r2 = r2  r3 = r3
  a1 = a1  a2 = a2
  user = user
  Incident = {i1, i2}
  Request = {r1, r2, r3}
  User = {user}
  Operator = {}
  Author <- MCAuthor
  ServiceList <- TwoServices
  Resource = {"s3"}
  LiveStatus = {"OPEN"}
  Tag = {"merged"}
  Severity = {1, 3, 4}
  BodyField = {}
  Endpoint <- EngineCalls
  None = None
  MaxInFlight = 1
  Alert = {a1, a2}
  Report <- AllReports
  Threshold <- StepThreshold
  Ageing = {a1, a2, i1, i2}
SYMMETRY Symmetric
INVARIANTS OneAlertPerPrint NoStrandedAlert AlertStatusAgrees IncidentAsSevere
PROPERTY SeverityOnlyRises
CHECK_DEADLOCK FALSE
