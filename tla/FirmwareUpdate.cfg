\* Commands: two updates of two units, with one transfer or segment lost. Transfers: two commands,
\* five segments to a page (38 in the code), two messages lost and one late.
SPECIFICATION BridgeSpec
CONSTANTS
  u1 = u1
  u2 = u2
  NoUnit = NoUnit
  Units <- MCUnits
  Pages = 2
  FlashPages = 2
  Tries = 2
  MsgBox = 2
  MaxWire = 2
  MaxUpdates = 2
  MaxLost = 1
  Segments = 5
  SdoTries = 3
  MaxFrames = 2
  MaxDrops = 2
  MaxLates = 1
INVARIANT CleanMeansImage
PROPERTIES PromiseKept UpdateEnds BridgeComesBack
CHECK_DEADLOCK FALSE
