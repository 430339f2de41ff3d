\* A shutdown with a deadline while a call, a factory and a close of a shared client hang on,
\* or conversations of two turns, two over a lent client and one, with a deadline, over an
\* owned one; two tries a call, a cache of two calls, two tasks that close.
SPECIFICATION MCSpec
CONSTANTS
  Refs = {r1, r2}
  Clients = {c1}
  Constructors = {k1}
  Users = {u1}
  NoClient = NoClient
  NoRef = NoRef
  HasDeadline = TRUE
  MaxMutations = 3
  q1 = q1
  q2 = q2
  q3 = q3
  a1 = a1
  a2 = a2
  b1 = b1
  b2 = b2
  Runs <- MCRuns
  Closers <- MCClosers
  Bodies <- MCBodies
  n1 = n1
  NoName = NoName
  ServerNames = {n1}
  Attempts = 2
  Limit = 2
  MaxTurns = 2
  Deployments <- MCDeployments
  Deadlined <- MCDeadlined
  Statuses <- MCStatuses
  Hints <- MCHints
INVARIANTS
  CancelledByTheCaller
CHECK_DEADLOCK FALSE
