SPECIFICATION MCSpec
CONSTANTS
  i1 = i1
  i2 = i2
  anon = anon
  r1 = r1
  e1 = e1
  d1 = d1
  d2 = d2
  path = path
  query = query
  body = body
  None = None
  x1 = x1
  x2 = x2
  o1 = o1
  o2 = o2
  a1 = a1
  a2 = a2
  v1 = v1
  v2 = v2
  w1 = w1
  g1 = g1
  g2 = g2
  Identity = {i1, i2, anon}
  Resource = {r1}
  Endpoint = {e1}
  Locator = {path, query, body}
  Caller = {x1, x2}
  AuthType <- Kinds
  ResourceType <- Types
  BoundType <- Bound
  Document <- Documents
  Body <- Bodies
  MaxStored = 5
  MultiProcess = FALSE
  HumanApproval = FALSE
  MaxRuns = 3
  Operator = {o1, o2}
  LocationOf <- Locations
  Template <- Paths
  Identifier = {path, body}
  Window <- Windows
  MaxTime = 2
  MaxAssertions = 3
  MaxScanned = 2
  Analyst = {a1, a2}
  Reviewer = {v1, v2}
  Adviser = {w1}
  Reporter = {g1, g2}
  MaxAdvice = 2
  MaxReports = 2
SYMMETRY Symmetry
CONSTRAINT Bounded
PROPERTY TerminalReview
CHECK_DEADLOCK FALSE
