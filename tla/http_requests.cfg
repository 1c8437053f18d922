SPECIFICATION Spec
CONSTANTS
  unset = unset
  Unset = unset
  Words <- AllWords
  Number <- OneNumber
  Address <- OurAddress
  Chunks <- AllChunks
  Parts <- AllParts
  Broken <- BrokenUrls
  MaxFed = 3
INVARIANT TypeOK
INVARIANT SizeMeansComplete
INVARIANT UrlIsLastSeen
INVARIANT UrlComesApart
PROPERTY RefusalIsFinal
CHECK_DEADLOCK FALSE
