SPECIFICATION FairSpec
CONSTANTS
  Hart = {1, 2}
  CPU = {"cpu0", "cpu1"}
  num_periphery = 2
  prio_levels = 3
  Setups <- MCSetups
  Reads <- MCReads
  Settings <- MCSettings
INVARIANT AnswersTheRead
INVARIANT OneHandler
PROPERTY PendingIsClaimed
