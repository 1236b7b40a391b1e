SPECIFICATION Spec
CONSTANTS
  Lane <- MCLane
  STORE_BUF_DEPTH = 2
  Addr <- MCIOAddr
  DmemAddr <- MCOneAddr
  OpSet <- MCEffects
  MaxOps = 2
  MaxRedirects = 1
  Interrupts = TRUE
INVARIANT EffectsCommit
CHECK_DEADLOCK FALSE
