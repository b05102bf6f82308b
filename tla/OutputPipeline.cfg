SPECIFICATION FairSpec
CONSTANTS
  w1 = w1
  w2 = w2
  Withdrawals <- MCOne
  NoPair <- MCNone
  START_HEIGHT = 0
  MAX_BLOCKS = 2
  MAX_OUTPUT_PROPOSAL = 2
  MaxHeight = 5
  MaxFaults = 2
  MaxDeletes = 1
INVARIANTS
  TypeOK
  OutputsContiguous
  WithdrawalsProvable
  OnL1OnceInOrder
PROPERTIES
  NeverRewritten
  KeepsLog
  OutputsReachL1
