SPECIFICATION CrashSpec
CONSTANTS
  t1 = t1
  t2 = t2
  w1 = w1
  a1 = a1
  none = none
  Conns <- TwoTelnet
  Telnet <- TwoTelnet
  Accounts <- OneAccount
  NoAccount <- none
  QueueCap = 1
  SaverCap = 1
  MaxDeeds = 1
INVARIANTS
  TypeOK
  NothingLost
  StopKeepsAll
  NoGhost
PROPERTIES
  KeepsSheets
CONSTRAINT FewFaults
SYMMETRY AlikeConns
