SPECIFICATION FairProviderSpec
CONSTANTS
  i1 = i1  r1 = r1  v1 = v1  j1 = j1  j2 = j2  op = op  adm = adm
  Incident = {i1}
  Request = {r1}
  User = {op, adm}
  Operator = {op}
  Author <- MCAuthor
  ServiceList <- MCServices
  Resource = {}
  LiveStatus = {"OPEN"}
  Tag = {}
  Severity = {4}
  BodyField = {}
  Endpoint = {"investigate", "approve"}
  None = None
  MaxInFlight = 1
  Investigation = {v1}
  Job = {j1, j2}
  Proposal <- TaskOrNone
  Slots = 1
  QueueActive = TRUE
  ForceSent = {FALSE}
  Failures = TRUE
  MaxRetries = 2
  UsesKey = {TRUE, FALSE}
INVARIANT ProviderTypeOK
PROPERTY InvestigationsSettle
CHECK_DEADLOCK FALSE
