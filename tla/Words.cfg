SPECIFICATION WordsSpec
CONSTANTS
  Skills <- Ids
  Stats <- Wit
  StatOf <- Trains
  RankCap = 2
  RankSumCap = 4
  StatCap = 1
  StatSumCap = 1
  Rules <- ListRules
  Tables <- AllTables
  Texts <- TitleTexts
  NoText = ""
  Commands <- Cases
  Directions <- Compass
  Reserved <- ReservedWords
  Exits <- Street
  Start = "gate"
  Contents <- Processes
  Goods <- Stuff
  Nodes <- Field
  Recipes <- Menu
  NoWord <- None
  Pending = 2
INVARIANTS
  HeardOnce
  KnownAs
  WordsReach
