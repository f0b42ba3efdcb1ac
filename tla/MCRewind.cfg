SPECIFICATION Spec
CONSTANTS
  Procs <- OneProc
  Handlers = {"h1", "h2"}
  Host <- HostFirst
  Skew <- NoSkew
  Planets = {"home"}
  Resources <- Metal
  Buildings <- Mine
  Mines <- Mine
  Techs = {"energy"}
  ShipKeys = {"probe"}
  Qty <- OneQty
  Factors <- OffOn
  Requests <- ShipsAndResearch
  Faults = {}
  BuildingCost <- BuildCost
  BuildingTime <- BuildTime
  ShipCost <- ShipPrice
  ShipTime <- ShipDuration
  ResearchCost <- TechCost
  ResearchTime <- TechTime
  ProductionRate <- Rate
  StorageCapacity <- AmpleStorage
  InitialLevel <- StartLevel
  InitialBalance <- StartBalance
  ItemIds = {1, 2}
  MaxLevel = 3
  Horizon = 5
  MaxRequestAge = 1
CHECK_DEADLOCK FALSE
PROPERTIES PaysFullPrice
