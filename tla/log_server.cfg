SPECIFICATION FairSpec
CONSTANTS
  t1 = t1
  t2 = t2
  srv = srv
  Server = srv
  Fixes <- AllFixes
  LogFixes <- OnlyValid
  Tracers <- TwoTracers
  Backlog = 32
  SockBuf = 2
  MaxLines = 3
  MayFail = TRUE
  MayExit = TRUE
  MayClose = TRUE
INVARIANT TypeOK
INVARIANT LinesAccounted
INVARIANT LogFaultCause
PROPERTY ImplementsLineLog
PROPERTY SentGetsWritten
CHECK_DEADLOCK FALSE
