SPECIFICATION FairSpec
CONSTANTS
  NODES = 2
  Quiet <- MCQuiet
  START = 0
  Txs <- MCTxs
  MAX_BLOCKS = 2
  MAX_RETRY = 3
  ROTATE = 2
  MaxHeight = 3
  MaxFaults = 2
INVARIANTS
  TypeOK
PROPERTIES
  KeepsFeed
  FeedGoesOn
