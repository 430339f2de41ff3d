SPECIFICATION GatewaySpec
CONSTANTS
  Agents = {ag}
  Instances = {i1, i2}
  Owners = {o1}
  Principals = {p1}
  Keys = {}
  cardA = cardA
  cardB = cardB
  Cards = {cardA, cardB}
  NoCard = NoCard
  NoOwner = NoOwner
  NoPrincipal = NoPrincipal
  NoReceipt = NoReceipt
  Upgrades <- AllUpgrades
  Durations = {1}
  Capacity = 1
  MaxTime = 1
  MaxRevision = 4
  MaxExpected = 0
  Calls = {c1, c2}
  LocalAgents = {loc}
  Preferred = NoPreference
  Modes = {"ambiguous", "remote_preferred"}
  Reachable = {i1, i2}
  Failover = TRUE
  BindingTTL = 1
  CallBudget = 1
  NoBinding = NoBinding
  NoTarget = NoTarget
SYMMETRY MCSymmetry
INVARIANTS
  AcceptedOnce
  AnswersSayWhatRan
CHECK_DEADLOCK FALSE
