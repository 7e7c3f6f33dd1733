SPECIFICATION Spec
CONSTANTS
  parent = parent
  child = child
  r1 = r1
  s1 = s1
  s2 = s2
  s3 = s3
  t1 = t1
  t2 = t2
  Key <- MCKey
  Within <- MCWithin
  Rank <- MCRank
  Follows <- MCFollows
  Origins = {child}
  Clients = {t1}
  Rec = {s1, s2, s3}
  Sigs = {s1, s2, s3}
  Signed = {child}
  Failing <- MCFailing
  HistoryCap = 2
  MaxSerial = 2
  MaxFaults = 0
INVARIANT SerialChangeRenewsSignatures
