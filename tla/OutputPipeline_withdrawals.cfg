SPECIFICATION Spec
CONSTANTS
  w1 = w1
  w2 = w2
  Withdrawals <- MCWithdrawals
  NoPair <- MCNoPair
  START_HEIGHT = 1
  MAX_BLOCKS = 1
  MAX_OUTPUT_PROPOSAL = 2
  MaxHeight = 3
  MaxFaults = 0
  MaxDeletes = 0
INVARIANTS
  WithdrawalsStored
