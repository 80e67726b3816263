SPECIFICATION FairSpec
CONSTANTS
  Want <- Adjacent
  Stepping <- Documented
  BindRetries = 2
  LastPort = 4
  MaxPlayers = 2
INVARIANTS
  WayOut
PROPERTIES
  NoHalfServer
