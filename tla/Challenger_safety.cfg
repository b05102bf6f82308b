SPECIFICATION Spec
CONSTANTS
  Corrupted <- MCFirst
  START_HEIGHT = 0
  MAX_BLOCKS = 2
  DELETE_OUTPUT_PROPOSAL = TRUE
  MaxWithdrawals = 2
  MaxDeposits = 1
  MaxHeight = 3
  MaxForged = 0
  MaxFaults = 1
  MaxTimeouts = 1
INVARIANTS
  TypeOK
  PassedIsOnL1
  OutputsMatchIndex
  IndexesInOrder
PROPERTIES
  KeepsChallenge
