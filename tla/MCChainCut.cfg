SPECIFICATION Spec
CONSTANTS
  Depth = 2
  MaxGen = 2
  TTL = 0
  WalkTime = 0
  MaxFaults = 0
  Tag <- MCTag
  Known <- MCKnown
INVARIANT
  SignedZonesValidate
