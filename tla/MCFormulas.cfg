\* The real tables, on planets that are developed up to their ceilings.
CONSTANTS
  Steps = 2
  FutureLevels = 3
  Positions <- Slots
  Sites <- Planets
SPECIFICATION Spec
CHECK_DEADLOCK FALSE
INVARIANTS
  TypeOK
  EveryLevelHelps
  LevelsGetDearer
  CloserIsSunnier
PROPERTIES
  ThrottlingSharesEnergy
