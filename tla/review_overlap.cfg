SPECIFICATION SpecAI
CONSTANTS
  i1 = i1  r1 = r1  r2 = r2  r3 = r3  v1 = v1  v2 = v2
  j1 = j1  j2 = j2  op = op  adm = adm
  Incident = {i1}
  Request = {r1, r2}
  User = {op}
  Operator = {op}
  Author <- OneAuthor
  ServiceList <- MCServices
  Resource = {}
  LiveStatus = {"OPEN"}
  Tag = {}
  Severity = {4}
  BodyField = {}
  Endpoint = {"investigate", "approve"}
  None = None
  MaxInFlight = 2
  Investigation = {v1, v2}
  Job = {j1, j2}
  Proposal <- TwoProposals
  Slots = 2
  QueueActive = TRUE
  ForceSent = {FALSE}
  Failures = TRUE
SYMMETRY Interchangeable
INVARIANTS InvestigationTypeOK ExecutedIsTrue QueuedHasJob CompletedHasFindings
CHECK_DEADLOCK FALSE
