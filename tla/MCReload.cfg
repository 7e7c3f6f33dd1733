SPECIFICATION FairSpec
CONSTANTS
  parent = parent
  child = child
  r1 = r1
  s1 = s1
  s2 = s2
  s3 = s3
  t1 = t1
  t2 = t2
  Key <- MCKey
  Within <- MCWithin
  Rank <- MCRank
  Follows <- MCFollows
  Origins = {parent, child}
  Clients = {}
  Rec = {}
  Sigs = {}
  Signed = {}
  Failing <- MCFailing
  HistoryCap = 1
  MaxSerial = 2
  MaxFaults = 1
PROPERTIES
  ZonesStayServed
  HangUpServed
