SPECIFICATION Spec
CONSTANTS
  Home <- MCHome
  Threads = {"a", "b"}
  Procs = {"p1"}
  Queues = {"escalation.broker"}
  Calls <- MCNested
  MaxCalls = 1
PROPERTIES
  CallsEnd
CHECK_DEADLOCK FALSE
