SPECIFICATION Spec
CONSTANTS
  c1 = c1
  c2 = c2
  w1 = w1
  w2 = w2
  srv = srv
  Server = srv
  Fixes <- AllFixes
  Callers <- TwoCallers
  Workers <- TwoWorkers
  Backlog = 32
  MaxTasks = 2
  MayFail = TRUE
  MayExit = TRUE
  MayClose = TRUE
  TasksReturn = TRUE
SYMMETRY Symmetry
INVARIANT TypeOK
INVARIANT TasksAccounted
INVARIANT FaultCause
PROPERTY ImplementsTaskQueue
CHECK_DEADLOCK FALSE
