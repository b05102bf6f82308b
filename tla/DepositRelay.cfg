SPECIFICATION FairSpec
CONSTANTS
  d1 = d1
  d2 = d2
  d3 = d3
  Deposits <- MCDeposits
  Blocked <- MCBlocked
  Failing <- MCFailing
  START_HEIGHT = 1
  MAX_BLOCKS = 2
  MAX_RESURRECT_SIZE = 2
  ENABLE_ORACLE = TRUE
  HAS_CLIENT_ID = TRUE
  MaxHeight = 4
  MaxFaults = 2
INVARIANTS
  TypeOK
  NothingLost
  ProcessedIsSettled
  RowsMatchHeight
  OracleHeightRelayed
PROPERTIES
  SettleBeforeAdvance
  KeepsPromise
  CatchesUp
  EventuallySettled
