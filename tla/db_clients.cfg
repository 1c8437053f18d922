SPECIFICATION Spec
CONSTANTS
  plain = plain
  quote = quote
  odd = odd
  null = null
  notable = notable
  Null = null
  NoTable = notable
  Classes <- BothClasses
  Keys <- TwoKeys
  Vals <- ThreeTexts
  Quoted <- OneQuoted
  Escaped <- OneOdd
  Named <- OneOdd
  MayFail = TRUE
INVARIANT TypeOK
INVARIANT AckedIsStored
PROPERTY AllOrNothing
PROPERTY WedgedUntilClosed
CHECK_DEADLOCK FALSE
