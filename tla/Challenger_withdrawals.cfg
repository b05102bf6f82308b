SPECIFICATION Spec
CONSTANTS
  Corrupted <- MCNone
  START_HEIGHT = 0
  MAX_BLOCKS = 2
  DELETE_OUTPUT_PROPOSAL = TRUE
  MaxWithdrawals = 2
  MaxDeposits = 0
  MaxHeight = 3
  MaxForged = 0
  MaxFaults = 0
  MaxTimeouts = 0
PROPERTIES
  DeletesOnlyInvalid
