SPECIFICATION Spec
CONSTANTS
  i1 = i1  i2 = i2  i3 = i3  r1 = r1  r2 = r2  r3 = r3  op = op  adm = adm
  Incident = {i1, i2}
  Request = {r1, r2, r3}
  User = {op, adm}
  Operator = {op}
  Author <- MCAuthor
  ServiceList <- MCServices
  Resource = {}
  LiveStatus = {"OPEN", "MITIGATED"}
  Tag = {}
  Severity = {1}
  BodyField = {"status", "assignee"}
  Endpoint <- AllCalls
  None = None
  MaxInFlight = 1
INVARIANTS OnlyResolvedIsDated LinksAgree
CHECK_DEADLOCK FALSE
