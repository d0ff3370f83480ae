SPECIFICATION Spec
CONSTANTS
  Msg <- MCMsg
  Rows <- MCRows
  SignedIntents <- MCSignedIntents
  Envelope = {"order"}
  Operation = {"send"}
  Proofs = {"signed"}
  Outcomes = {}
  LoopThreshold = 20
  HasSelfcheck = FALSE
  BootArmed = FALSE
  Dirty = FALSE
  MaxCalls = 3
  MaxDepth = 1
  MaxFails = 0
  MaxBoots = 2
INVARIANTS
  AckKpiTrue
CHECK_DEADLOCK FALSE
