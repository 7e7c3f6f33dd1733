SPECIFICATION FairSpec
CONSTANTS
  a = a
  c1 = c1
  r1 = r1
  Origins = {a}
  Clients = {c1}
  Rec = {r1}
  Sigs = {}
  Signed = {}
  Failing <- MCFailing
  HistoryCap = 2
  MaxSerial = 4
  MaxFaults = 1
  Key <- MCKey
  Within <- MCWithin
  Rank <- MCRank
  Follows <- MCFollows
INVARIANTS
  TypeOK
  AnswerIsExact
PROPERTIES
  CopyNeverRegresses
  SecondaryConverges
