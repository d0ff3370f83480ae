SPECIFICATION Spec
CONSTANTS
  Home <- MCHome
  Careful = {"send", "hand over", "present", "confirm", "restart"}
  Hubs = {"north", "south"}
  Ctx = {"c1"}
  MaxSends = 2
  MaxTransfers = 2
  MaxReceives = 2
  MaxFails = 1
  MaxBoots = 1
INVARIANTS
  NumbersOnce
  OpenItemsFollow
  NeverInNone
PROPERTIES
  AdoptedOnRecord
CHECK_DEADLOCK FALSE
