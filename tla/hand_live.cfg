SPECIFICATION FairSpec
CONSTANTS
  c1 = c1
  c2 = c2
  c3 = c3
  f1 = f1
  f2 = f2
  b1 = b1
  b2 = b2
  nobody = nobody
  Nobody = nobody
  Clients <- TwoClients
  Members <- OneMember
  Accounts <- OneEach
  Fronts <- TwoFronts
  Backs <- OneBack
  Segments = 1
  MaxFds = 2
  PipeCap = 1
  MaxAsks = 2
  MayFail = FALSE
  MayErr = TRUE
  MayLeave = TRUE
  MayReset = TRUE
  MayKill = TRUE
  Repairs <- AllRepairs
PROPERTY OutageSpreads
PROPERTY RequestsHandled
CHECK_DEADLOCK FALSE
