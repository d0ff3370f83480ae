SPECIFICATION Spec
CONSTANTS
  Msg <- MCMsg
  Rows <- MCRows
  SignedIntents <- MCSignedIntents
  Envelope = {"letter"}
  Operation = {"send", "release", "decline"}
  Proofs = {"unsigned", "signed", "stamped"}
  Outcomes = {"human.notified"}
  LoopThreshold = 20
  HasSelfcheck = FALSE
  BootArmed = FALSE
  Dirty = FALSE
  MaxCalls = 4
  MaxDepth = 2
  MaxFails = 0
  MaxBoots = 1
INVARIANTS
  GateClosed
  OneKeyOnePass
  HoldsAside
  AuthorizationRecorded
  AuthorityProven
CHECK_DEADLOCK FALSE
