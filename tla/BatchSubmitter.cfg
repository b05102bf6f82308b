SPECIFICATION FairSpec
CONSTANTS
  maxBulkSize = 2
  maxBytes = 1
  MaxOutputSize = 3
  MaxHeight = 5
  MaxFaults = 2
INVARIANTS
  TypeOK
  RecordsPointToData
  RecordPerOutput
  PublishedInOrder
  PaidOncePerFault
PROPERTIES
  EveryOutputRecorded
