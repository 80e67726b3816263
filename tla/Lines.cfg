SPECIFICATION FairSpec
CONSTANTS
  Texts <- Keys
  CmdRate = 2
  CmdWindow = 2
  MaxLine = 2
  MaxLines = 3
  MaxAhead = 11
  MaxPacket = 2
  MaxTime = 2
INVARIANTS
  TypeOK
  LinesArriveWhole
  OneLineMore
PROPERTIES
  WindowExact
  Stops
CHECK_DEADLOCK FALSE
