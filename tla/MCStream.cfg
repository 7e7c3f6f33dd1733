SPECIFICATION Spec
CONSTANTS
  theirs = theirs
  TransferKey = TransferKey
  NoKey = NoKey
  Keys = {TransferKey, theirs}
  MaxRRs = 3
  Sizes = {0, 1, 2, 3, 4}
  MaxDeltas = 2
  Fudge = 2
  MaxSkew = 1
  Transit = 1
  MaxFaults = 1
INVARIANTS
  TypeOK
  CompleteIsWhole
  EndIsSeen
  SignaturesHold
PROPERTY
  DeliverySpec
