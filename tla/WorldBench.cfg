SPECIFICATION FairSpec
CONSTANTS
  ann = ann
  yard = yard
  road = road
  away = away
  herb = herb
  iron = iron
  pan = pan
  knife = knife
  none = none
  hand = hand
  smith = smith
  haggle = haggle
  wit = wit
  Players <- One
  Rooms <- OneRoom
  Away = away
  Spawn = yard
  Exits <- NoExits
  SpawnZone <- OneRoom
  GatherSkills <- SmithOnly
  Items <- AllItems
  NoItem = none
  Weight <- Weights
  SlotOf <- SlotsOf
  NoSlot = none
  FirstGround <- Bench
  Nodes <- TwoNodes
  Recipes <- ThreeRecipes
  MarketAt <- NoMarkets
  NoMarket = none
  Wares <- Nothing
  Haggle = haggle
  Checkpoints <- Nothing
  Topics <- Nothing
  BagCap = 3
  TradeBulk = 2
  TollNyang = 2
  MarketTickEvery = 2
  FirstNyang = 0
  Period = 2
  MaxTrade = 2
  MaxNyang = 7
  MaxStock = 4
  MaxGround = 2
  Skills <- SmithAndHaggle
  Stats <- Wit
  StatOf <- BothStats
  RankCap = 1
  RankSumCap = 1
  StatCap = 1
  StatSumCap = 1
INVARIANTS
  TypeOK
  SkillCaps
PROPERTIES
  BagsTidy
  CarryLimit
  Conserved
  Regrows
