SPECIFICATION Spec
CONSTANTS
  Spokes = {"t1", "t2"}
  MaxTraces = 2
  MaxThoughts = 1
  MaxLooks = 2
  MaxFails = 2
INVARIANTS
  NeverSilent
CHECK_DEADLOCK FALSE
