SPECIFICATION FairSpec
CONSTANTS
  ann = ann
  yard = yard
  road = road
  away = away
  herb = herb
  iron = iron
  pan = pan
  knife = knife
  none = none
  hand = hand
  smith = smith
  haggle = haggle
  wit = wit
  Players <- One
  Rooms <- TwoRooms
  Away = away
  Spawn = yard
  Exits <- BackAndForth
  SpawnZone <- TwoRooms
  GatherSkills <- Nothing
  Items <- HerbOnly
  NoItem = none
  Weight <- Weights
  SlotOf <- SlotsOf
  NoSlot = none
  FirstGround <- NoGround
  Nodes <- Nothing
  Recipes <- Nothing
  MarketAt <- Stalls
  NoMarket = none
  Wares <- Goods
  Haggle = haggle
  Checkpoints <- Gate
  Topics <- Sign
  BagCap = 4
  TradeBulk = 2
  TollNyang = 2
  MarketTickEvery = 2
  FirstNyang = 4
  Period = 2
  MaxTrade = 2
  MaxNyang = 7
  MaxStock = 4
  MaxGround = 2
  Skills <- Nothing
  Stats <- Wit
  StatOf <- NoStatOf
  RankCap = 2
  RankSumCap = 3
  StatCap = 1
  StatSumCap = 1
PROPERTIES
  CarryLimit
  Conserved
  PriceEases
  Restocks
