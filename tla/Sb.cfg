SPECIFICATION FairSpec
CONSTANTS
  p = p
  q = q
  STORE_BUF_DEPTH = 4
  Addr <- MCAddr
  Payload <- MCPayload
INVARIANT TypeOK
INVARIANT ForwardsYoungest
PROPERTY StoresInOrder
PROPERTY FullClears
