SPECIFICATION Spec
CONSTANTS
  t1 = t1
  w1 = w1
  ann = ann
  Ann = Ann
  bo = bo
  keyAnn = keyAnn
  keyBo = keyBo
  right = right
  wrong = wrong
  short = short
  Nobody = Nobody
  Conns <- Both
  Telnet <- TelnetOnly
  Names <- AllNames
  Keys <- AllKeys
  Fold <- Folded
  Passwords <- AllPasswords
  ValidNames <- AllNames
  ValidPasswords <- LongPasswords
  Ids = {1, 2}
  Tokens = {1, 2, 3}
INVARIANTS
  TypeOK
  OneAccountPerName
  SessionsTrue
PROPERTIES
  StaysWho
  KeepsRegistry
