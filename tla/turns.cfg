SPECIFICATION Spec
CONSTANTS
  Home <- MCHome
  Threads = {"a", "b", "c"}
  Procs = {"p1", "p2"}
  Queues = {"escalation.system_error"}
  Calls <- MCCalls
  MaxCalls = 1
INVARIANTS
  HoldingApart
  PairsTrue
  ReportTrue
PROPERTIES
  CallsEnd
CHECK_DEADLOCK FALSE
