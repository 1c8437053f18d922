SPECIFICATION FairSpec
CONSTANTS
  PipeCap = 2
  SockBuf = 2
  MaxSent = 4
  MayFail = TRUE
  MayKill = TRUE
INVARIANT TypeOK
INVARIANT LogOutlives
INVARIANT EndsHaveACause
PROPERTY ChildrenEnd
PROPERTY AsWrittenEnds
CHECK_DEADLOCK FALSE
