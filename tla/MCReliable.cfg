SPECIFICATION Spec
CONSTANTS
  Procs <- OneProc
  Handlers = {h1, h2}
  Host <- HostFirst
  Skew <- NoSkew
  Planets = {"home"}
  Resources <- Metal
  Buildings <- MineAndStorage
  Mines <- Mine
  Techs = {"energy"}
  ShipKeys = {"probe"}
  Qty <- OneQty
  Factors <- OffOn
  Requests <- AllButShips
  Faults = {}
  BuildingCost <- BuildCost
  BuildingTime <- BuildTime
  ShipCost <- ShipPrice
  ShipTime <- ShipDuration
  ResearchCost <- TechCost
  ResearchTime <- TechTime
  ProductionRate <- Rate
  StorageCapacity <- Storage
  InitialLevel <- StartLevel
  InitialBalance <- StartBalance
  ItemIds = {1, 2}
  MaxLevel = 3
  Horizon = 7
  MaxRequestAge = 1
SYMMETRY AnyHandler
CHECK_DEADLOCK FALSE
INVARIANTS TypeOK BuildingLedger WithinCapacity PendingHasJob
PROPERTIES LevelNeverDecreases ImplementsOrderlyBook TicksButDeliveries PaysAllButAge
