SPECIFICATION FairSpec
CONSTANTS
  c1 = c1
  c2 = c2
  w1 = w1
  w2 = w2
  srv = srv
  Server = srv
  Fixes <- AllFixes
  Callers <- TwoCallers
  Workers <- OneWorker
  Backlog = 32
  MaxTasks = 3
  MayFail = FALSE
  MayExit = TRUE
  MayClose = FALSE
  TasksReturn = TRUE
INVARIANT AloneNeverBlocks
PROPERTY TasksGetDone
PROPERTY HangupsReclaimed
CHECK_DEADLOCK FALSE
