SPECIFICATION Spec
CONSTANTS
  i1 = i1  i2 = i2  i3 = i3  r1 = r1  r2 = r2  r3 = r3  op = op  adm = adm
  Incident = {i1, i2, i3}
  Request = {r1, r2}
  User = {op, adm}
  Operator = {op}
  Author <- MCAuthor
  ServiceList <- MCServices
  Resource = {}
  LiveStatus = {"OPEN", "MITIGATED"}
  Tag = {}
  Severity = {1, 3}
  BodyField = {"status", "services", "assignee"}
  Endpoint <- AllCalls
  None = None
  MaxInFlight = 2
SYMMETRY Interchangeable
INVARIANTS TypeOK ResolvedIsDated
PROPERTY LinksAreAtomic
CHECK_DEADLOCK FALSE
