SPECIFICATION Spec
CONSTANTS
  Msg <- MCMsg
  Rows <- MCRows
  SignedIntents <- MCSignedIntents
  Envelope = {"offer"}
  Operation = {"send", "release"}
  Proofs = {"signed"}
  Outcomes = {"human.notified"}
  LoopThreshold = 20
  HasSelfcheck = FALSE
  BootArmed = FALSE
  Dirty = FALSE
  MaxCalls = 3
  MaxDepth = 2
  MaxFails = 1
  MaxBoots = 1
INVARIANTS
  AuthorizationRecorded
CHECK_DEADLOCK FALSE
