SPECIFICATION Spec
CONSTANTS
  Agents = {ag}
  Instances = {i1, i2}
  Owners = {o1}
  Principals = {p1, p2}
  Keys = {k1, k2}
  cardA = cardA
  cardB = cardB
  Cards = {cardA}
  NoCard = NoCard
  NoOwner = NoOwner
  NoPrincipal = NoPrincipal
  NoReceipt = NoReceipt
  Upgrades <- OneCard
  Durations = {1, 2}
  Capacity = 2
  MaxTime = 2
  MaxRevision = 5
  MaxExpected = 3
SYMMETRY MCSymmetry
INVARIANTS
  DiscoveryServesGrants
  TerminalNeverStarved
  ReplayTellsTheTruth
PROPERTIES
  GrantsFollowAuthority
CHECK_DEADLOCK FALSE
