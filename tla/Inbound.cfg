\* Three calls about two challenges of one task; three requests that share a token
\* cache of one entry; three deliveries of messages that repeat ids.
SPECIFICATION MCSpec
CONSTANTS
  both = both
  single = single
  r1 = r1
  r2 = r2
  yes = yes
  no = no
  t1 = t1
  Callers = {c1, c2, c3}
  Tasks = {t1}
  Approvals = {both, single}
  Roles = {r1, r2}
  RequiredRoles <- Require
  TaskOf <- OneTask
  Tokens = {yes, no}
  Approves = {yes}
  TokenFor <- ForSingle
  NoApproval = NoApproval
  NoToken = NoToken
  MaxBuffered = 1
  MaxFailures = 2
  Requests = {c1, c2, c3}
  Subjects = {alice}
  Destinations = {api}
  Scopes = {read, write, admin}
  AllowedHere = {read, write}
  RequiredHere = {read}
  AllowedAt <- MCAllowedAt
  MaxEntries = 1
  RefreshSkew = 1
  Leeway = 0
  MaxDepth = 1
  MaxTime = 2
  MaxLife = 2
  Deliveries = {c1, c2, c3}
  Messages <- MCMessages
  NoMessage = NoMessage
  NoDelivery = NoDelivery
  MaxGeneration = 2
SYMMETRY Interchangeable
INVARIANTS
  ServedTokensAreSound
  WaitersHaveAHolder
  OneExecutionOneAnswer
  CancelsReachTheirTask
  OnlyWhatWasApprovedRuns
PROPERTIES
  ApprovalsAreOneShot
  RequiredEvidenceFirst
CHECK_DEADLOCK FALSE
