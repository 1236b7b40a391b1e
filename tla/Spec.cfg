SPECIFICATION Spec
CONSTANTS
  ISSUEWIDTH = 2
  ROBDEPTH = 4
  INST_WINDOW = 2
  NUM_FU = 2
  RESBUS_ADDED_DELAY = 1
  Size = 5
  TVEC = 3
  Register = {1}
  Programs <- MCPrograms
  MaxFetched = 6
INVARIANT TypeOK
INVARIANT EpochNamesPath
INVARIANT NoWakeUpLost
INVARIANT MscratchCommitsUninterrupted
PROPERTY ExecutesInOrder
