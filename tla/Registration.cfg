SPECIFICATION RegistrationSpec
CONSTANTS
  a1 = a1
  i1 = i1
  o1 = o1
  p1 = p1
  k1 = k1
  k2 = k2
  cardA = cardA
  c1 = c1
  Agents = {a1}
  Instances = {i1}
  Owners = {o1}
  Principals = {p1}
  Keys = {k1, k2}
  Cards = {cardA}
  NoCard = NoCard
  NoOwner = NoOwner
  NoPrincipal = NoPrincipal
  NoReceipt = NoReceipt
  Upgrades <- OneCard
  Durations = {1, 2}
  Capacity = 2
  MaxTime = 1
  MaxRevision = 2
  MaxExpected = 1
  Clients = {c1, c2}
  Requests <- MCRequests
  MaxAttempts <- Tries
  MaxAge = 0
  Services = {s1}
  NoRequest = NoRequest
INVARIANTS
  ExecutedOnceAfterIntent
  SuccessIsTold
PROPERTIES
  ExpiriesAreReported
CHECK_DEADLOCK FALSE
