SPECIFICATION FairSpec
CONSTANTS
  ROBDEPTH = 3
  ISSUEWIDTH = 2
  Source = {1, 2}
  Stations <- MCStations
INVARIANT TypeOK
INVARIANT NoOverflow
PROPERTY GivesWhatWaits
PROPERTY EveryInstructionLeaves
