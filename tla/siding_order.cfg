SPECIFICATION FairSpec
CONSTANTS
  Class <- MCClass
  Run = {"escalation", "freight", "service", "service2", "draft"}
  Spoke = {"s1"}
  MaxAsks = 4
  MaxFails = 1
INVARIANTS
  ClassFirst
  ArrivalOrder
  NobodyLost
  ToldByTheLog
PROPERTIES
  Served
CHECK_DEADLOCK FALSE
