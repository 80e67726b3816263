SPECIFICATION Spec
CONSTANTS
  ann = ann
  yard = yard
  road = road
  away = away
  herb = herb
  iron = iron
  pan = pan
  knife = knife
  none = none
  hand = hand
  smith = smith
  haggle = haggle
  wit = wit
  Players <- One
  Rooms <- OneRoom
  Away = away
  Spawn = yard
  Exits <- NoExits
  SpawnZone <- OneRoom
  GatherSkills <- Nothing
  Items <- AllItems
  NoItem = none
  Weight <- Weights
  SlotOf <- SlotsOf
  NoSlot = none
  FirstGround <- Heap
  Nodes <- Nothing
  Recipes <- Nothing
  MarketAt <- NoMarkets
  NoMarket = none
  Wares <- Nothing
  Haggle = haggle
  Checkpoints <- Nothing
  Topics <- Nothing
  BagCap = 1
  TradeBulk = 2
  TollNyang = 2
  MarketTickEvery = 2
  FirstNyang = 0
  Period = 2
  MaxTrade = 2
  MaxNyang = 7
  MaxStock = 4
  MaxGround = 5
  Skills <- Nothing
  Stats <- Wit
  StatOf <- NoStatOf
  RankCap = 2
  RankSumCap = 3
  StatCap = 1
  StatSumCap = 1
PROPERTIES
  GetMovesOne
