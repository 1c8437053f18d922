SPECIFICATION Spec
CONSTANTS
  s1 = s1
  s2 = s2
  s3 = s3
  c1 = c1
  c2 = c2
  nobody = nobody
  Nobody = nobody
  Servers <- ThreeStarts
  Clients <- TwoClients
  Backlog = 0
  MayFail = TRUE
SYMMETRY Symmetry
INVARIANT TypeOK
INVARIANT NamedWhileServing
INVARIANT StaleFileHeals
CHECK_DEADLOCK FALSE
