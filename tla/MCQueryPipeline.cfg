SPECIFICATION FairSpec
CONSTANTS
  qa = qa
  qb = qb
  qc = qc
  na = na
  s1 = s1
  Queries = {qa, qb, qc}
  Questions = {na}
  Question <- MCQuestion
  Profiles <- MCProfiles
  Receivers = 1
  Slots = {s1}
  Capacity = 1
  NoQuery = NoQuery
  MaxTtl = 1
  MaxValidation = 1
  MaxTime = 3
  MaxEdition = 2
INVARIANTS
  TypeOK
  ReloadVisible
  CountersAddUp
PROPERTIES
  AnswersFresh
  FastPathFlows
