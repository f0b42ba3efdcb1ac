SPECIFICATION Spec
CONSTANTS
  Procs <- TwoProcs
  Handlers = {"h1"}
  Host <- HostFirst
  Skew <- FirstAhead
  Planets = {"home"}
  Resources <- Metal
  Buildings <- Mine
  Mines <- Mine
  Techs = {"energy"}
  ShipKeys = {"probe"}
  Qty <- OneQty
  Factors <- OffOn
  Requests <- ShipsAndResearch
  Faults = {}
  BuildingCost <- BuildCost
  BuildingTime <- BuildTime
  ShipCost <- ShipPrice
  ShipTime <- ShipDuration
  ResearchCost <- TechCost
  ResearchTime <- TechTime
  ProductionRate <- Rate
  StorageCapacity <- Storage
  InitialLevel <- StartLevel
  InitialBalance <- StartBalance
  ItemIds = {1}
  MaxLevel = 3
  Horizon = 4
  MaxRequestAge = 1
CHECK_DEADLOCK FALSE
INVARIANTS CompletedMeansDone
