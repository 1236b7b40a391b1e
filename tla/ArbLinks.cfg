SPECIFICATION Spec
CONSTANTS
  NUM_CPU = 2
  Addr <- MCTwo
  Builds <- MCBuilds
  MaxOps = 4
INVARIANT ScKeepsReservation
CHECK_DEADLOCK FALSE
