SPECIFICATION TxSpec
CONSTANTS
  Procs <- TwoProcs
  Handlers = {h1, h2}
  Host <- HostFirst
  Skew <- NoSkew
  Planets = {"home"}
  Resources <- Metal
  Buildings <- Mine
  Mines <- Mine
  Techs = {"energy"}
  ShipKeys = {"probe"}
  Qty <- OneQty
  Factors <- OffOn
  Requests <- EveryKind
  Faults = {"crash", "stall"}
  BuildingCost <- BuildCost
  BuildingTime <- QuickBuild
  ShipCost <- ShipPrice
  ShipTime <- ShipDuration
  ResearchCost <- TechCost
  ResearchTime <- QuickTech
  ProductionRate <- LowRate
  StorageCapacity <- Storage
  InitialLevel <- StartLevel
  InitialBalance <- StartBalance
  ItemIds = {1, 2}
  MaxLevel = 3
  Horizon = 2
  MaxRequestAge = 1
SYMMETRY AnyHandler
CONSTRAINT OneTrouble
CHECK_DEADLOCK FALSE
INVARIANTS TxTypeOK CompletedMeansDone OneOrderAtATime  ProductionMatchesLevels ResearchLedger FleetConserved OneJobPerOrder
PROPERTIES DeliveredOnce ImplementsBook
