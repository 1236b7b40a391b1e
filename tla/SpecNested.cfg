SPECIFICATION Spec
CONSTANTS
  ISSUEWIDTH = 2
  ROBDEPTH = 2
  INST_WINDOW = 2
  NUM_FU = 2
  RESBUS_ADDED_DELAY = 0
  Size = 5
  TVEC = 3
  Register = {1}
  Programs <- MCPrograms
  MaxFetched = 4
INVARIANT ExceptionReturns
