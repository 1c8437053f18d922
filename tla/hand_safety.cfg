SPECIFICATION Spec
CONSTANTS
  c1 = c1
  c2 = c2
  c3 = c3
  f1 = f1
  f2 = f2
  b1 = b1
  b2 = b2
  nobody = nobody
  Nobody = nobody
  Clients <- TwoClients
  Members <- OneMember
  Accounts <- NotOneEach
  Fronts <- TwoFronts
  Backs <- TwoBacks
  Segments = 2
  MaxFds = 2
  PipeCap = 1
  MaxAsks = 1
  MayFail = TRUE
  MayErr = TRUE
  MayLeave = TRUE
  MayReset = TRUE
  MayKill = TRUE
  Repairs <- NotHeader
SYMMETRY Symmetry
INVARIANT TypeOK
INVARIANT OneHolder
INVARIANT EndCause
INVARIANT OneAnswerEach
PROPERTY LoginsVerified
CHECK_DEADLOCK FALSE
