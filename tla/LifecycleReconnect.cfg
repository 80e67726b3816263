SPECIFICATION Spec
CONSTANTS
  t1 = t1
  t2 = t2
  w1 = w1
  a1 = a1
  none = none
  Conns <- TwoTelnet
  Telnet <- TwoTelnet
  Accounts <- OneAccount
  NoAccount <- none
  QueueCap = 2
  SaverCap = 1
  MaxDeeds = 2
INVARIANTS
  ReconnectRestores
