SPECIFICATION Spec
CONSTANTS
  Msg <- MCMsg
  Rows <- MCRows
  SignedIntents <- MCSignedIntents
  Envelope = {"order", "letter"}
  Operation = {"send", "release", "notify"}
  Proofs = {"signed", "stamped"}
  Outcomes = {}
  LoopThreshold = 20
  HasSelfcheck = TRUE
  BootArmed = TRUE
  Dirty = TRUE
  MaxCalls = 3
  MaxDepth = 2
  MaxFails = 1
  MaxBoots = 2
INVARIANTS
  DeliveredOnce
  GaplessSequence
  SequenceKpiTrue
  GateTells
CHECK_DEADLOCK FALSE
