\* Two clients shared by two references, replaced, retired and bound again, and a shutdown with
\* a deadline; one construction and one call in flight.
CONSTANTS
  Refs = {r1, r2}
  Clients = {c1, c2}
  Constructors = {k1}
  Users = {u1}
  NoClient = NoClient
  NoRef = NoRef
  HasDeadline = TRUE
  MaxMutations = 3
SPECIFICATION Spec
SYMMETRY Identities
INVARIANTS
  ClosesAreSafe
  PublishedClientUsable
PROPERTIES
  NoOvertakenPublication
CHECK_DEADLOCK FALSE
