SPECIFICATION Spec
CONSTANTS
  t1 = t1
  t2 = t2
  a = a
  b = b
  sh = sh
  Threads = {t1, t2}
  Sources = {a, b}
  Shards = {sh}
  ShardOf <- MCShardOf
  Ticks = 2
  Rate = 1
  MaxSources = 1
  GlobalLimit = 1
  MaxTime = 4
  MaxQueries = 5
INVARIANTS
  TypeOK
  NeverStricter
  GlobalBounded
PROPERTY SpentNotForgotten
CHECK_DEADLOCK FALSE
