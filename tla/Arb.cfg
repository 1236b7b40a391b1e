SPECIFICATION FairSpec
CONSTANTS
  NUM_CPU = 2
  Addr <- MCTwo
  Builds <- MCBuilds
  MaxOps = 4
INVARIANT TypeOK
INVARIANT AmoAtomic
INVARIANT ScUnderLink
INVARIANT AmoOnItsWay
INVARIANT AnswersAreCurrent
INVARIANT QueuesHaveRoom
PROPERTY EveryRequestAnswered
CHECK_DEADLOCK FALSE
