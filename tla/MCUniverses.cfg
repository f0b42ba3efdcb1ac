SPECIFICATION Spec
CONSTANTS
  Handlers = {h1, h2}
  Emails = {e1, e2}
  Speeds = {1, 2}
  Sizes <- OneOrTwoSystems
  Configs = {1, 2}
  InitialConfig = 1
  BaseRate <- TwoRates
  MaxUniverses = 2
  MaxUsers = 2
SYMMETRY Names
INVARIANTS TypeOK  OnePlanetPerSlot OneUserPerEmail SystemsFillInOrder
