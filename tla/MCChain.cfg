SPECIFICATION Spec
CONSTANTS
  Depth = 2
  MaxGen = 2
  TTL = 0
  WalkTime = 1
  MaxFaults = 2
  Tag <- MCTag
  Known <- MCKnown
INVARIANTS
  TypeOK
  
  GenuineHolds
