SPECIFICATION FairSpec
CONSTANTS
  o1 = o1
  o2 = o2
  i1 = 1
  i2 = 2
  none = none
  None = none
  Objects <- TwoObjects
  Ids <- TwoIds
INVARIANT TypeOK
INVARIANT EntryIsOwn
INVARIANT ThreadFaultCause
PROPERTY StoppedEnds
CHECK_DEADLOCK FALSE
