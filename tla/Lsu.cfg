SPECIFICATION FairSpec
CONSTANTS
  Lane <- MCLane
  STORE_BUF_DEPTH = 2
  Addr <- MCAllAddr
  DmemAddr <- MCTwoAddr
  OpSet <- MCAllOps
  MaxOps = 3
  MaxRedirects = 1
  Interrupts = FALSE
INVARIANT TypeOK
INVARIANT LoadsSeeProgramOrder
INVARIANT ReleaseIsLast
INVARIANT OneReadOnItsWay
INVARIANT EffectsCommit
PROPERTY EveryOpAnswered
CHECK_DEADLOCK FALSE
