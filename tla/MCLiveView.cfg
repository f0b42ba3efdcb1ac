SPECIFICATION Spec
CONSTANTS
  Items = {"mine", "energy"}
  Research = {"energy"}
  Tabs = {"t1"}
  Handlers = {"h1"}
  Workers = {"w1"}
  Slots = {1, 2}
  Faults = {"crash", "drop", "fail", "signOut"}
  Nothing = "nothing"
CHECK_DEADLOCK FALSE
INVARIANTS TypeOK RestingView
PROPERTIES OwnOrderShown
