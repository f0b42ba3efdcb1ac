SPECIFICATION FairSpec
CONSTANTS
  Procs <- TwoProcs
  Handlers = {"h1"}
  Host <- HostFirst
  Skew <- NoSkew
  Planets = {"home"}
  Resources <- Metal
  Buildings <- Mine
  Mines <- Mine
  Techs = {"energy"}
  ShipKeys = {"probe"}
  Qty <- OneQty
  Factors <- OffOn
  Requests <- Orders
  Faults = {"crash", "abort", "stall"}
  BuildingCost <- BuildCost
  BuildingTime <- BuildTime
  ShipCost <- ShipPrice
  ShipTime <- ShipDuration
  ResearchCost <- TechCost
  ResearchTime <- TechTime
  ProductionRate <- Rate
  StorageCapacity <- Storage
  InitialLevel <- StartLevel
  InitialBalance <- StartBalance
  ItemIds = {1, 2}
  MaxLevel = 3
  Horizon = 3
  MaxRequestAge = 1
CHECK_DEADLOCK FALSE
PROPERTIES OrdersEventuallyDone
