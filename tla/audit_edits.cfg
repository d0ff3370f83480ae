SPECIFICATION Spec
CONSTANTS
  Home <- MCHome
  Instance = {"a", "c"}
  Process = {"p", "q"}
  Edits = {"edit", "cut", "tear", "regenerate", "blank"}
  Racing = FALSE
  MaxLines = 3
  MaxFails = 0
  MaxEdits = 2
  MaxCrashes = 0
  MaxAnchors = 1
INVARIANTS
  OwnHistoryStands
  AnchorCatches
  AnchorAccusesTruly
PROPERTIES
  RepairLeavesSound
CHECK_DEADLOCK FALSE
