\* Two A2A requests that contend for one task and one slot, and a startup check; two
\* principals with a session each and two calls over an MCP host with one place; two
\* requests at a boundary that holds two, one of each caller.
SPECIFICATION MCSpec
CONSTANTS
  Tasks = {1}
  Requests = {q1, q2}
  Startups = {s1}
  HasStartupCheck = TRUE
  MaxTasks = 1
  PageSize = 1
  AcceptLimit = 1
  CapabilityLimit = 1
  Transports = {"http", "stdio"}
  Principals = {p1, p2}
  Sessions = {s1, s2}
  RequestIds = {r1}
  Calls = {c1, c2}
  Openings = {o1, o2}
  NoOne = NoOne
  MaxSessionsPerPrincipal = 1
  MaxConcurrentRequests = 1
  MaxReplayIds = 1
  CancelOnDrain = TRUE
  q1 = q1
  q2 = q2
  BoundaryRequests <- MCBoundaryRequests
  Addresses <- MCAddresses
  MtlsSubjects <- MCMtlsSubjects
  Deployed <- MCDeployed
  Arriving <- MCArriving
  Accepted = 2
  PerCaller = 1
  MaxBody = 1
  MaxResponse = 1
INVARIANTS
  CallsAreAccounted
  IdentityIsNotTheClients
  SharesAreExact
  AnsweredOnceAndWhole
PROPERTIES
  HostsComeToRest
CHECK_DEADLOCK FALSE
