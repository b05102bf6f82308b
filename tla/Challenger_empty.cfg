SPECIFICATION FairSpec
CONSTANTS
  Corrupted <- MCNone
  START_HEIGHT = 0
  MAX_BLOCKS = 2
  DELETE_OUTPUT_PROPOSAL = TRUE
  MaxWithdrawals = 0
  MaxDeposits = 2
  MaxHeight = 2
  MaxForged = 1
  MaxFaults = 1
  MaxTimeouts = 0
INVARIANTS
  FalseNeverPassed
PROPERTIES
  DeletesOnlyInvalid
  EveryOutputAnswered
  EveryDepositChecked
