SPECIFICATION FairSpec
CONSTANTS
  t1 = t1
  t2 = t2
  w1 = w1
  a1 = a1
  none = none
  Conns <- TelnetAndWS
  Telnet <- TelnetOnly
  Accounts <- OneAccount
  NoAccount <- none
  QueueCap = 1
  SaverCap = 1
  MaxDeeds = 1
INVARIANTS
  NothingLost
PROPERTIES
  ShutdownCompletes
  Departs
  EventuallySaved
