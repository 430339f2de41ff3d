\* A delegating capability, its synchronous child, and two more invocations of
\* that synchronous capability, one in the same run; two of the four begin.
CONSTANTS
  outer = outer
  inner = inner
  other = other
  third = third
  slow = slow
  fast = fast
  mine = mine
  theirs = theirs
  NoCall = NoCall
  Calls = {outer, inner, other, third}
  MaxCalls = 2
  Sync = {inner, other, third}
  Limited = {outer, inner, other}
  Capability <- Named
  Run <- Runned
  Parent <- Chained
  Workers = 2
SPECIFICATION FairSpec
INVARIANTS
  AnswersAreHonest
PROPERTIES
  WaitedWorkIsOver
  ContextDiesWithAnswer
  DeadlineAnswers
CHECK_DEADLOCK FALSE
