SPECIFICATION Spec
CONSTANTS
  IFUINST = 2
  NUM_THREADS = 2
  Size = 4
  Targets = {1}
  INFLIGHT = 2
  LOCAL_EPOCHS = 2
  EPOCHS = 3
PROPERTY FollowsPredictions
