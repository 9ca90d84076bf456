SPECIFICATION SpecAI
CONSTANTS
  i1 = i1  r1 = r1  r2 = r2  r3 = r3  v1 = v1  v2 = v2
  j1 = j1  j2 = j2  op = op  adm = adm
  Incident = {i1}
  Request = {r1, r2, r3}
  User = {op, adm}
  Operator = {op}
  Author <- MCAuthor
  ServiceList <- MCServices
  Resource = {}
  LiveStatus = {"OPEN"}
  Tag = {}
  Severity = {1, 4}
  BodyField = {}
  Endpoint <- ReviewAndStatus
  None = None
  MaxInFlight = 1
  Investigation = {v1}
  Job = {j1}
  Proposal <- LastingProposals
  Slots = 2
  QueueActive = FALSE
  ForceSent = {FALSE}
  Failures = TRUE
INVARIANT ExecutedOnce
PROPERTY DecisionStands
CHECK_DEADLOCK FALSE
