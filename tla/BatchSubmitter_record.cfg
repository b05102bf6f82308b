SPECIFICATION Spec
CONSTANTS
  maxBulkSize = 2
  maxBytes = 2
  MaxOutputSize = 3
  MaxHeight = 5
  MaxFaults = 0
INVARIANTS
  RecordsCoverOutput
