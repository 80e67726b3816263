SPECIFICATION FairSpec
CONSTANTS
  t1 = t1
  w1 = w1
  Conns <- Both
  Telnet <- TelnetOnly
  Logins <- EitherWay
  OutCap = 2
  MaxEvents = 5
INVARIANTS
  TypeOK
  NewestKept
  PromptAfterCard
PROPERTIES
  KeepsPromise
  LoopNeverWaits
  Delivered
CHECK_DEADLOCK FALSE
