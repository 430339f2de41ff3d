SPECIFICATION SourceSpec
CONSTANTS
  Operators = {o1, o2}
  Readers = {r1}
  Configs = {cfg1, cfg2}
  Items = {1, 2}
  body1 = body1
  body2 = body2
  Bodies = {body1, body2}
  Batches <- MCBatches
  Checks = {"on_start", "on_invoke"}
  TTL = 1
  MaxTime = 1
  MaxRevision = 2
  NoBody = NoBody
  NoConfig = NoConfig
  NoVerdict = NoVerdict
  NoBinding = NoBinding
SYMMETRY MCSymmetry
INVARIANTS
  CorpusIsWholeAndOne
  VerdictsDescribeTheCorpus
CHECK_DEADLOCK FALSE
