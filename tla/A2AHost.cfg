\* Two requests, room for two of three tasks, pages of one.
CONSTANTS
  Tasks = {1, 2, 3}
  Requests = {q1, q2}
  Startups = {}
  HasStartupCheck = FALSE
  MaxTasks = 2
  PageSize = 1
  AcceptLimit = 2
  CapabilityLimit = 2
SPECIFICATION Spec
SYMMETRY Interchangeable
INVARIANTS
  OneOwnerPerWorkingTask
  CloseLeavesNothingActive
PROPERTIES
  TasksMoveForward
CHECK_DEADLOCK FALSE
