CONSTANTS
  Names <- MCNames
  Apex <- MCApex
  Under <- MCUnder
  Rank <- MCRank
  Wildcard <- MCWildcard
  Outside <- Elsewhere
  Types = {"SOA", "A", "CNAME"}
  Contents <- MCContents
  MaxChain = 3
SPECIFICATION FairSpec
CHECK_DEADLOCK FALSE
INVARIANTS TypeOK NxdomainProved NodataProved
PROPERTY Answered
