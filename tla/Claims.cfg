SPECIFICATION Spec
CONSTANTS
  Users = {alice, bob}
  Digest <- MCDigest
  LIMIT = 2
  MaxRows = 5
  MaxOutputs = 3
SYMMETRY MCSymmetry
INVARIANTS
  ProofsVerify
  PagesMissNothing
