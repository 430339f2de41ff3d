\* Two roots.  While the registry stands still: calls do not call; the loop that must
\* delegate has four turns, two tools and seven tokens, the other two turns; a budget of
\* three calls, and a slot for a fourth.  While it moves: two calls, that may make calls
\* themselves, and loops of two turns and one tool call, all under one ID.
SPECIFICATION MCSpec
CONSTANTS
  old = old
  new = new
  A = A
  search = search
  fetch = fetch
  NoAgent = NoAgent
  Objects = {old, new}
  Lifecycles = {"active", "draining"}
  Names = {A}
  Capabilities = {search, fetch}
  NameOf <- MCNameOf
  CapsOf <- MCCapsOf
  SchemaOf <- MCSchemaOf
  RootFrame <- MCRootFrame
  MaxGeneration = 2
  MaxSlots = 6
  FewSlots = 4
  FewTurns = 2
  FewTools = 1
  MaxRoots = 2
  x = x
  y = y
  z = z
  CallIds = {x, y, z}
  MaxTurns = 4
  MaxTools = 2
  MaxDepth = 3
  LoopTokens = 7
  ToolTokens = 1
  Usages = {1, 2}
  Required = {1}
  UseRequired = FALSE
  Fallback = {"execution_failure", "stale_target"}
  Answers = {"success", "execution_failure"}
  TreeDepth = 3
  TreeCalls = 3
  TreeTokens = 3
INVARIANTS
  LedgerBalances
  DiscoveredInstanceRuns
  SuccessIsHonest
SYMMETRY MCSymmetry
CHECK_DEADLOCK FALSE
