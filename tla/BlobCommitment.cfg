SPECIFICATION Spec
CONSTANTS
  Lengths <- MCLengths
  Namespace = 7
INVARIANTS
  SharesHoldBlob
  GasCoversBlob
  SubtreesAligned
  CommitmentBinds
