SPECIFICATION FairSpec
CONSTANTS
  Msg <- MCMsg
  Rows <- MCRows
  SignedIntents <- MCSignedIntents
  Envelope = {"order", "order2", "question", "stray"}
  Operation = {"send", "resume"}
  Proofs = {"malformed", "signed"}
  Outcomes = {"human.notified"}
  LoopThreshold = 1
  HasSelfcheck = TRUE
  BootArmed = TRUE
  Dirty = FALSE
  MaxCalls = 3
  MaxDepth = 3
  MaxFails = 0
  MaxBoots = 1
INVARIANTS
  TypeOK
  AckIsFact
  LoopBound
  NothingVanishes
PROPERTIES
  PersistFirst
  CallsReturn
  CrashAlarms
CHECK_DEADLOCK FALSE
