SPECIFICATION Spec
CONSTANTS
  Home <- MCHome
  Instance = {"a", "b", "c"}
  Process = {"p", "q"}
  Edits = {}
  Racing = FALSE
  MaxLines = 3
  MaxFails = 1
  MaxEdits = 0
  MaxCrashes = 1
  MaxAnchors = 0
INVARIANTS
  TypeOK
  ChainIntact
  ToldStands
  SideKept
  CheckedIsRecorded
PROPERTIES
  PromiseKept
CHECK_DEADLOCK FALSE
