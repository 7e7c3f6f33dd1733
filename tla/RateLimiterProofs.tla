-------------------------- MODULE RateLimiterProofs --------------------------
(***************************************************************************)
(* For any number of threads, sources and shards and any limits: the table  *)
(* stays within its bound, no source is held below its rate, a prune never   *)
(* forgets tokens that were spent, and the global cap is exceeded by no more  *)
(* than a factor that the number of threads sets.                           *)
(***************************************************************************)
EXTENDS RateLimiter, FiniteSetTheorems, TLAPS

LEMMA CapacityType == Capacity \in Nat /\ Capacity >= Ticks /\ Capacity > 0
<1>1. \A r, k \in Nat \ {0} : r * k \in Nat /\ r * k >= k /\ r * k > 0
  OBVIOUS
<1> QED BY <1>1, LimiterAssumption DEF Capacity

LEMMA ElapsedType ==
  ASSUME NEW m \in Nat, NEW n \in Nat
  PROVE  Elapsed(m, n) \in Nat /\ Elapsed(m, n) * Rate \in Nat
<1>1. \A k \in Nat : k * Rate \in Nat
  BY LimiterAssumption
<1> QED BY <1>1 DEF Elapsed

LEMMA RefillType ==
  ASSUME NEW b \in Bucket, NEW n \in Nat
  PROVE  Refill(b, n) \in Bucket
<1> DEFINE gain == Elapsed(n, b.last) * Rate
<1>1. b.tokens \in 0..Capacity /\ b.last \in Nat
  BY DEF Bucket
<1>2. gain \in Nat
  BY <1>1, ElapsedType
<1> HIDE DEF gain
<1>3. Least(Capacity, b.tokens + gain) \in 0..Capacity
  BY <1>1, <1>2, CapacityType DEF Least
<1> QED BY <1>3 DEF Refill, Bucket, gain

\* Refilling by a clock that is behind never takes tokens away.
LEMMA RefillKeeps ==
  ASSUME NEW b \in Bucket, NEW n \in Nat, NEW m \in Nat, n <= m
  PROVE  Least(Capacity, b.tokens + Elapsed(m, b.last) * Rate)
           <= Least(Capacity, Refill(b, n).tokens
                                + Elapsed(m, Refill(b, n).last) * Rate)
<1> DEFINE tk == b.tokens
           p == Elapsed(n, b.last) * Rate
           q == Elapsed(m, n) * Rate
           r == Elapsed(m, b.last) * Rate
<1>1. b.last \in Nat /\ tk \in Nat
  BY CapacityType DEF Bucket
<1>2. p \in Nat /\ q \in Nat /\ r \in Nat
  BY <1>1, ElapsedType
<1>3. r <= p + q
  <2>1. \A x, y, z \in Nat : x <= y + z => x * Rate <= y * Rate + z * Rate
    <3>1. \A x, y, z, k \in Nat : x <= y + z => x * k <= y * k + z * k
      OBVIOUS
    <3> QED BY <3>1, LimiterAssumption
  <2>2. Elapsed(m, b.last) <= Elapsed(n, b.last) + Elapsed(m, n)
    BY <1>1 DEF Elapsed
  <2> QED BY <1>1, <2>1, <2>2, ElapsedType
<1>4. /\ Refill(b, n).tokens = Least(Capacity, tk + p)
      /\ Refill(b, n).last = n
  BY DEF Refill
<1> HIDE DEF tk, p, q, r
<1>5. Least(Capacity, tk + r) <= Least(Capacity, Least(Capacity, tk + p) + q)
  BY <1>1, <1>2, <1>3, CapacityType DEF Least
<1> QED BY <1>4, <1>5 DEF tk, q, r

-----------------------------------------------------------------------------
(* The table.                                                               *)

\* A shard of a smaller table is no fuller.
LEMMA TableShrinks ==
  ASSUME TypeOK, NEW X \in SUBSET tracked, NEW shard \in Shards
  PROVE  /\ IsFiniteSet(Tracked(shard, X))
         /\ Cardinality(Tracked(shard, X)) \in Nat
         /\ Cardinality(Tracked(shard, X)) <= MaxSources
<1>1. IsFiniteSet(Tracked(shard, tracked))
  <2>1. Tracked(shard, tracked) \subseteq Sources
    BY DEF TypeOK, Tracked
  <2> QED BY <2>1, LimiterAssumption, FS_Subset
<1>2. Tracked(shard, X) \subseteq Tracked(shard, tracked)
  BY DEF Tracked
<1>3. /\ IsFiniteSet(Tracked(shard, X))
      /\ Cardinality(Tracked(shard, X)) <= Cardinality(Tracked(shard, tracked))
  BY <1>1, <1>2, FS_Subset
<1>4. Cardinality(Tracked(shard, X)) \in Nat
  BY <1>3, FS_CardinalityType
<1>5. Cardinality(Tracked(shard, tracked)) \in Nat
  BY <1>1, FS_CardinalityType
<1>6. Cardinality(Tracked(shard, tracked)) <= MaxSources
  BY DEF TypeOK
<1> QED BY <1>3, <1>4, <1>5, <1>6, LimiterAssumption

\* A source is only added when its shard has room.
LEMMA TableAdd ==
  ASSUME TypeOK, NEW X \in SUBSET tracked, NEW t \in Threads,
         NEW shard \in Shards, ~Full(t, X)
  PROVE  Cardinality(Tracked(shard, X \cup {src[t]})) <= MaxSources
<1>1. src[t] \in Sources
  BY DEF TypeOK
<1>2. CASE ShardOf[src[t]] = shard /\ src[t] \notin X
  <2>1. Tracked(shard, X \cup {src[t]}) = Tracked(shard, X) \cup {src[t]}
    BY <1>2 DEF Tracked
  <2>2. src[t] \notin Tracked(shard, X)
    BY <1>2 DEF Tracked
  <2>3. /\ IsFiniteSet(Tracked(shard, X))
        /\ Cardinality(Tracked(shard, X)) \in Nat
    BY TableShrinks
  <2>4. Cardinality(Tracked(shard, X) \cup {src[t]})
          = Cardinality(Tracked(shard, X)) + 1
    BY <2>2, <2>3, FS_AddElement
  <2>5. ~(Cardinality(Tracked(shard, X)) >= MaxSources)
    BY <1>2 DEF Full, Shard
  <2>6. \A n \in Nat : ~(n >= MaxSources) => n + 1 <= MaxSources
    BY LimiterAssumption
  <2>7. Cardinality(Tracked(shard, X)) + 1 <= MaxSources
    BY <2>3, <2>5, <2>6
  <2> QED BY <2>1, <2>4, <2>7
<1>3. CASE ~(ShardOf[src[t]] = shard /\ src[t] \notin X)
  <2>1. Tracked(shard, X \cup {src[t]}) = Tracked(shard, X)
    BY <1>3 DEF Tracked
  <2> QED BY <2>1, TableShrinks
<1> QED BY <1>2, <1>3

LEMMA RemainingTracked == ASSUME NEW t PROVE Remaining(t) \in SUBSET tracked
BY DEF Remaining, Kept

-----------------------------------------------------------------------------
(* The inductive invariant.                                                 *)

\* No clock that is still in use is ahead of the present.
Ages ==
  /\ \A t \in Threads : pc[t] = "source" => read[t] <= now
  /\ \A s \in tracked : bucket[s].last <= now

FairBound == \A s \in Sources : fair[s] <= Capacity

Inv == TypeOK /\ Ages /\ FairBound /\ NeverStricter

LEMMA InvInit == Init => Inv
<1> SUFFICES ASSUME Init PROVE Inv
  OBVIOUS
<1>1. TypeOK
  <2>1. \A shard \in Shards : Tracked(shard, tracked) = {}
    BY DEF Init, Tracked
  <2>2. Cardinality({}) = 0
    BY FS_EmptySet
  <2>3. \A shard \in Shards : Cardinality(Tracked(shard, tracked)) <= MaxSources
    BY <2>1, <2>2, LimiterAssumption
  <2>4. Unused \in Bucket
    BY CapacityType DEF Unused, Bucket
  <2>5. bucket \in [Sources -> Bucket]
    BY <2>4 DEF Init
  <2>6. fair \in [Sources -> Int]
    BY CapacityType DEF Init
  <2> QED BY <2>3, <2>5, <2>6 DEF Init, TypeOK
<1>2. Ages
  BY DEF Init, Ages
<1>3. FairBound /\ NeverStricter
  BY CapacityType DEF Init, FairBound, NeverStricter, Available
<1> QED BY <1>1, <1>2, <1>3 DEF Inv

\* A source that a prune drops has a bucket that is full by now.
LEMMA PrunedIsFull ==
  ASSUME Inv, NEW t \in Threads, pc[t] = "source", NEW s \in tracked,
         s \notin Remaining(t)
  PROVE  Available(s) = Capacity
<1>1. /\ bucket[s].tokens \in Nat /\ bucket[s].last \in Nat
      /\ read[t] \in Nat /\ now \in Nat /\ read[t] <= now
  BY CapacityType DEF Inv, TypeOK, Ages, Bucket
<1> DEFINE early == Elapsed(read[t], bucket[s].last)
           late == Elapsed(now, bucket[s].last)
<1>2. ~(bucket[s].tokens + early * Rate < Capacity)
  BY DEF Remaining, Kept
<1>3. early \in Nat /\ late \in Nat /\ early <= late
  BY <1>1 DEF Elapsed
<1>4. early * Rate \in Nat /\ late * Rate \in Nat
  BY <1>1, ElapsedType
<1> HIDE DEF early, late
<1>5. early * Rate <= late * Rate
  <2>1. \A x, y, k \in Nat : x <= y => x * k <= y * k
    OBVIOUS
  <2> QED BY <2>1, <1>3, LimiterAssumption
<1>6. Least(Capacity, bucket[s].tokens + late * Rate) = Capacity
  BY <1>1, <1>2, <1>4, <1>5, CapacityType DEF Least
<1> QED BY <1>6 DEF Available, late

\* The bucket a thread takes from is never below the bucket that is owed.
LEMMA RefilledFacts ==
  ASSUME Inv, NEW t \in Threads, pc[t] = "source"
  PROVE  /\ Refilled(t) \in Bucket
         /\ Refilled(t).last = read[t]
         /\ Refilled(t).last <= now
         /\ fair[src[t]] <= Least(Capacity,
              Refilled(t).tokens + Elapsed(now, read[t]) * Rate)
<1> DEFINE s == src[t]
           old == IF s \in Remaining(t) THEN bucket[s]
                  ELSE [tokens |-> Capacity, last |-> read[t]]
<1>1. /\ s \in Sources /\ read[t] \in Nat /\ now \in Nat /\ read[t] <= now
      /\ fair[s] \in Int /\ fair[s] <= Capacity
  BY DEF Inv, TypeOK, Ages, FairBound
<1>2. old \in Bucket
  <2>1. bucket[s] \in Bucket
    BY <1>1 DEF Inv, TypeOK
  <2>2. [tokens |-> Capacity, last |-> read[t]] \in Bucket
    BY <1>1, CapacityType DEF Bucket
  <2> QED BY <2>1, <2>2
<1>3. Refilled(t) = Refill(old, read[t])
  BY DEF Refilled
<1>4. fair[s] <= Least(Capacity, old.tokens + Elapsed(now, old.last) * Rate)
  <2>1. CASE s \in Remaining(t)
    <3>1. s \in tracked
      BY <2>1, RemainingTracked
    <3>2. fair[s] <= Available(s)
      BY <1>1, <3>1, CapacityType, ElapsedType DEF Inv, NeverStricter, Available,
         Least, TypeOK, Bucket
    <3> QED BY <2>1, <3>1, <3>2 DEF Available
  <2>2. CASE s \notin Remaining(t)
    <3>1. old.tokens = Capacity /\ old.last = read[t]
      BY <2>2
    <3>2. Elapsed(now, read[t]) * Rate \in Nat
      BY <1>1, ElapsedType
    <3>3. Least(Capacity, Capacity + Elapsed(now, read[t]) * Rate) = Capacity
      BY <3>2, CapacityType DEF Least
    <3> QED BY <1>1, <3>1, <3>3
  <2> QED BY <2>1, <2>2
<1> HIDE DEF old
<1>5. Refill(old, read[t]) \in Bucket /\ Refill(old, read[t]).last = read[t]
  BY <1>1, <1>2, RefillType DEF Refill
<1>6. Least(Capacity, old.tokens + Elapsed(now, old.last) * Rate)
        <= Least(Capacity, Refill(old, read[t]).tokens
             + Elapsed(now, Refill(old, read[t]).last) * Rate)
  BY <1>1, <1>2, RefillKeeps
<1>7. /\ Least(Capacity, old.tokens + Elapsed(now, old.last) * Rate) \in Int
      /\ Least(Capacity, Refill(old, read[t]).tokens
             + Elapsed(now, Refill(old, read[t]).last) * Rate) \in Int
  <2>1. \A b \in Bucket : Least(Capacity, b.tokens + Elapsed(now, b.last) * Rate) \in Int
    BY <1>1, CapacityType, ElapsedType DEF Least, Bucket
  <2> QED BY <1>2, <1>5, <2>1
<1>8. \A x, y, z \in Int : x <= y /\ y <= z => x <= z
  OBVIOUS
<1>9. fair[s] <= Least(Capacity, Refill(old, read[t]).tokens
                         + Elapsed(now, Refill(old, read[t]).last) * Rate)
  BY <1>1, <1>4, <1>6, <1>7, <1>8
<1> QED BY <1>1, <1>3, <1>5, <1>9

LEMMA InvTick == Inv /\ Tick => Inv'
<1> SUFFICES ASSUME Inv, Tick PROVE Inv'
  OBVIOUS
<1> USE DEF Tick
<1>1. now \in Nat /\ now' = now + 1
  BY DEF Inv, TypeOK
<1>2. \A s \in Sources :
        /\ fair[s] \in Int /\ fair[s] <= Capacity
        /\ fair'[s] = Least(Capacity, fair[s] + Rate)
        /\ fair'[s] \in Int /\ fair'[s] <= Capacity
  BY CapacityType, LimiterAssumption DEF Inv, TypeOK, FairBound, Least
<1>3. TypeOK'
  <2>1. fair' \in [Sources -> Int]
    BY CapacityType, LimiterAssumption DEF Inv, TypeOK, Least
  <2>2. passed' \in Nat
    BY DEF Inv, TypeOK
  <2>3. \A shard \in Shards : Cardinality(Tracked(shard, tracked')) <= MaxSources
    BY DEF Inv, TypeOK
  <2> QED BY <1>1, <2>1, <2>2, <2>3 DEF Inv, TypeOK
<1>4. Ages'
  <2>1. \A t \in Threads : pc'[t] = "source" => read'[t] <= now'
    BY <1>1 DEF Inv, TypeOK, Ages
  <2>2. \A s \in tracked' : bucket'[s].last <= now'
    <3>1. \A s \in tracked : bucket[s].last \in Nat /\ bucket[s].last <= now
      BY DEF Inv, TypeOK, Ages, Bucket
    <3> QED BY <1>1, <3>1
  <2> QED BY <2>1, <2>2 DEF Ages
<1>5. FairBound'
  BY <1>2 DEF FairBound
<1>6. NeverStricter'
  <2> SUFFICES ASSUME NEW s \in Sources PROVE Available(s)' >= fair'[s]
    BY DEF NeverStricter
  <2>1. CASE s \notin tracked
    BY <1>2, <2>1, CapacityType DEF Available
  <2>2. CASE s \in tracked
    <3> DEFINE tk == bucket[s].tokens
               gain == Elapsed(now, bucket[s].last) * Rate
               more == Elapsed(now + 1, bucket[s].last) * Rate
    <3>1. tk \in Nat /\ bucket[s].last \in Nat /\ bucket[s].last <= now
      BY <2>2, CapacityType DEF Inv, TypeOK, Ages, Bucket
    <3>2. gain \in Nat /\ more \in Nat
      <4>1. now + 1 \in Nat
        BY <1>1
      <4> QED BY <1>1, <3>1, <4>1, ElapsedType
    <3>3. more = gain + Rate
      <4>1. Elapsed(now + 1, bucket[s].last) = Elapsed(now, bucket[s].last) + 1
        BY <1>1, <3>1 DEF Elapsed
      <4>2. \A x, k \in Nat : (x + 1) * k = x * k + k
        OBVIOUS
      <4> QED BY <1>1, <3>1, <4>1, <4>2, ElapsedType, LimiterAssumption
    <3>4. Least(Capacity, tk + gain) >= fair[s]
      BY <2>2 DEF Inv, NeverStricter, Available
    <3>5. Available(s)' = Least(Capacity, tk + more)
      BY <1>1, <2>2 DEF Available
    <3> HIDE DEF tk, gain, more
    <3>6. Least(Capacity, tk + more) >= Least(Capacity, fair[s] + Rate)
      BY <1>2, <3>1, <3>2, <3>3, <3>4, CapacityType, LimiterAssumption DEF Least
    <3> QED BY <1>2, <3>5, <3>6
  <2> QED BY <2>1, <2>2
<1> QED BY <1>3, <1>4, <1>5, <1>6 DEF Inv

\* The steps of check_global, and the arrival of a query, leave the buckets.
LEMMA InvElsewhere ==
  ASSUME Inv, UNCHANGED <<now, source, src>>, window' \in Nat, count' \in Nat,
         queries' \in Nat, passed' \in Nat, read' \in [Threads -> Nat],
         pc' \in [Threads -> {"idle", "source", "window", "swap", "reset", "count"}],
         \A t \in Threads : pc'[t] = "source" => pc[t] = "source" /\ read'[t] = read[t]
  PROVE  Inv'
<1>1. TypeOK'
  BY DEF Inv, TypeOK, source
<1>2. Ages'
  BY DEF Inv, Ages, source
<1>3. FairBound' /\ NeverStricter'
  BY DEF Inv, FairBound, NeverStricter, Available, source
<1> QED BY <1>1, <1>2, <1>3 DEF Inv

LEMMA InvArrive ==
  ASSUME Inv, NEW t \in Threads, NEW s \in Sources, Arrive(t, s)
  PROVE  Inv'
<1> USE DEF Arrive
<1>1. TypeOK'
  BY DEF Inv, TypeOK, source, global
<1>2. Ages'
  <2>1. \A u \in Threads : pc'[u] = "source" => read'[u] <= now'
    BY DEF Inv, TypeOK, Ages
  <2> QED BY <2>1 DEF Inv, Ages, source
<1>3. FairBound' /\ NeverStricter'
  BY DEF Inv, FairBound, NeverStricter, Available, source
<1> QED BY <1>1, <1>2, <1>3 DEF Inv

LEMMA InvGlobal ==
  ASSUME Inv, NEW t \in Threads,
         ReadWindow(t) \/ Swap(t) \/ Reset(t) \/ Count(t)
  PROVE  Inv'
<1>1. TypeOK
  BY DEF Inv
<1>2. \A n \in Nat : Second(n) \in Nat
  BY LimiterAssumption DEF Second
<1>3. CASE ReadWindow(t)
  BY <1>1, <1>2, <1>3, InvElsewhere DEF ReadWindow, TypeOK, global
<1>4. CASE Swap(t)
  BY <1>1, <1>4, InvElsewhere DEF Swap, TypeOK, global
<1>5. CASE Reset(t)
  BY <1>1, <1>5, InvElsewhere DEF Reset, TypeOK, global
<1>6. CASE Count(t)
  BY <1>1, <1>6, InvElsewhere DEF Count, TypeOK, global
<1> QED BY <1>3, <1>4, <1>5, <1>6

-----------------------------------------------------------------------------
(* The steps under the lock of a shard.                                     *)

LEMMA SourceType ==
  ASSUME Inv, NEW t \in Threads, pc[t] = "source", Prune(t)
  PROVE  /\ Forgotten(Remaining(t)) \in [Sources -> Bucket]
         /\ last_prune' \in [Shards -> Nat]
<1>1. Unused \in Bucket
  BY CapacityType DEF Unused, Bucket
<1>2. Forgotten(Remaining(t)) \in [Sources -> Bucket]
  BY <1>1 DEF Forgotten, Inv, TypeOK
<1>3. last_prune' \in [Shards -> Nat]
  BY LimiterAssumption DEF Prune, Inv, TypeOK
<1> QED BY <1>2, <1>3

LEMMA InvPass ==
  ASSUME Inv, NEW t \in Threads, PassUntracked(t)
  PROVE  Inv'
<1> DEFINE R == Remaining(t)
<1>1. /\ pc[t] = "source" /\ Prune(t) /\ tracked' = R /\ bucket' = Forgotten(R)
      /\ pc' = [pc EXCEPT ![t] = "window"]
      /\ UNCHANGED <<now, global, src, read, queries, fair>>
  BY DEF PassUntracked
<1>2. R \in SUBSET tracked
  BY RemainingTracked
<1> HIDE DEF R
<1>3. \A s \in R : s \in Sources /\ bucket'[s] = bucket[s]
  BY <1>1, <1>2 DEF Forgotten, Inv, TypeOK
<1>4. TypeOK'
  <2>1. bucket' \in [Sources -> Bucket] /\ last_prune' \in [Shards -> Nat]
    BY <1>1, SourceType DEF R
  <2>2. \A shard \in Shards : Cardinality(Tracked(shard, tracked')) <= MaxSources
    BY <1>1, <1>2, TableShrinks DEF Inv
  <2> QED BY <1>1, <1>2, <2>1, <2>2 DEF Inv, TypeOK, global
<1>5. Ages'
  BY <1>1, <1>2, <1>3 DEF Inv, TypeOK, Ages
<1>6. FairBound'
  BY <1>1 DEF Inv, FairBound
<1>7. NeverStricter'
  <2> SUFFICES ASSUME NEW s \in Sources PROVE Available(s)' >= fair'[s]
    BY DEF NeverStricter
  <2>1. CASE s \in R
    <3>1. Available(s)' = Available(s)
      BY <1>1, <1>2, <1>3, <2>1 DEF Available
    <3> QED BY <1>1, <3>1 DEF Inv, NeverStricter
  <2>2. CASE s \notin R
    BY <1>1, <2>2, CapacityType DEF Available, Inv, TypeOK, FairBound
  <2> QED BY <2>1, <2>2
<1> QED BY <1>4, <1>5, <1>6, <1>7 DEF Inv

\* The bucket of the source is written back; f is what is owed to it then.
LEMMA InvWriteBack ==
  ASSUME Inv, NEW t \in Threads, pc[t] = "source", Prune(t), ~Full(t, Remaining(t)),
         NEW b \in Bucket, b.last <= now, NEW f \in Int, f <= Capacity,
         f <= Least(Capacity, b.tokens + Elapsed(now, b.last) * Rate),
         tracked' = Remaining(t) \cup {src[t]},
         bucket' = [Forgotten(Remaining(t)) EXCEPT ![src[t]] = b],
         fair' = [fair EXCEPT ![src[t]] = f],
         NEW p \in {"window", "idle"}, pc' = [pc EXCEPT ![t] = p],
         UNCHANGED <<now, global, src, read, queries>>
  PROVE  Inv'
<1> DEFINE R == Remaining(t)
           o == src[t]
<1>1. R \in SUBSET tracked
  BY RemainingTracked
<1>2. o \in Sources /\ R \subseteq Sources
  BY <1>1 DEF Inv, TypeOK
<1>3. Forgotten(R) \in [Sources -> Bucket] /\ last_prune' \in [Shards -> Nat]
  BY SourceType
<1>4. \A s \in R : s # o => bucket'[s] = bucket[s]
  BY <1>2, <1>3 DEF Forgotten
<1>5. bucket'[o] = b
  BY <1>2, <1>3
<1>6. tracked' = R \cup {o}
  OBVIOUS
<1>7. bucket' \in [Sources -> Bucket]
  BY <1>2, <1>3
<1>8. \A shard \in Shards : Cardinality(Tracked(shard, tracked')) <= MaxSources
  BY <1>1, TableAdd DEF Inv
<1>9. /\ fair' \in [Sources -> Int] /\ fair'[o] = f
      /\ \A s \in Sources : s # o => fair'[s] = fair[s]
  BY <1>2 DEF Inv, TypeOK
<1> HIDE DEF R, o
<1>10. TypeOK'
  BY <1>2, <1>3, <1>6, <1>7, <1>8, <1>9 DEF Inv, TypeOK, global
<1>11. Ages'
  <2>1. \A u \in Threads : pc'[u] = "source" => read'[u] <= now'
    BY DEF Inv, TypeOK, Ages
  <2>2. \A s \in tracked' : bucket'[s].last <= now'
    BY <1>1, <1>4, <1>5, <1>6 DEF Inv, Ages
  <2> QED BY <2>1, <2>2 DEF Ages
<1>12. FairBound'
  BY <1>9 DEF Inv, FairBound
<1>13. NeverStricter'
  <2> SUFFICES ASSUME NEW s \in Sources PROVE Available(s)' >= fair'[s]
    BY DEF NeverStricter
  <2>1. CASE s = o
    <3>1. Available(s)' = Least(Capacity, b.tokens + Elapsed(now, b.last) * Rate)
      BY <1>5, <1>6, <2>1 DEF Available
    <3>2. Least(Capacity, b.tokens + Elapsed(now, b.last) * Rate) \in Int
      BY CapacityType, ElapsedType DEF Least, Bucket, Inv, TypeOK
    <3> QED BY <1>9, <2>1, <3>1, <3>2
  <2>2. CASE s # o /\ s \in R
    <3>1. Available(s)' = Available(s)
      BY <1>1, <1>4, <1>6, <2>2 DEF Available
    <3> QED BY <1>9, <2>2, <3>1 DEF Inv, NeverStricter
  <2>3. CASE s # o /\ s \notin R
    <3>1. Available(s)' = Capacity
      BY <1>6, <2>3 DEF Available
    <3> QED BY <1>9, <2>3, <3>1, CapacityType DEF Inv, TypeOK, FairBound
  <2> QED BY <2>1, <2>2, <2>3
<1> QED BY <1>10, <1>11, <1>12, <1>13 DEF Inv

LEMMA InvTake ==
  ASSUME Inv, NEW t \in Threads, Take(t)
  PROVE  Inv'
<1> DEFINE b == [tokens |-> Refilled(t).tokens - Ticks, last |-> Refilled(t).last]
           f == fair[src[t]] - Ticks
           gain == Elapsed(now, read[t]) * Rate
<1>1. /\ pc[t] = "source" /\ Prune(t) /\ ~Full(t, Remaining(t))
      /\ Refilled(t).tokens >= Ticks
      /\ tracked' = Remaining(t) \cup {src[t]}
      /\ bucket' = [Forgotten(Remaining(t)) EXCEPT ![src[t]] = b]
      /\ fair' = [fair EXCEPT ![src[t]] = f]
      /\ pc' = [pc EXCEPT ![t] = "window"]
      /\ UNCHANGED <<now, global, src, read, queries>>
  BY DEF Take
<1>2. /\ Refilled(t) \in Bucket /\ Refilled(t).last = read[t]
      /\ Refilled(t).last <= now
      /\ fair[src[t]] <= Least(Capacity, Refilled(t).tokens + gain)
  BY <1>1, RefilledFacts
<1>3. /\ Refilled(t).tokens \in 0..Capacity /\ Refilled(t).last \in Nat
      /\ gain \in Nat
      /\ fair[src[t]] \in Int /\ fair[src[t]] <= Capacity
  <2>1. src[t] \in Sources /\ read[t] \in Nat /\ now \in Nat
    BY DEF Inv, TypeOK
  <2>2. gain \in Nat
    BY <2>1, ElapsedType
  <2>3. fair[src[t]] \in Int /\ fair[src[t]] <= Capacity
    BY <2>1 DEF Inv, TypeOK, FairBound
  <2> QED BY <1>2, <2>2, <2>3 DEF Bucket
<1> HIDE DEF gain
<1>4. /\ Refilled(t).tokens - Ticks \in 0..Capacity
      /\ f \in Int /\ f <= Capacity
      /\ f <= Least(Capacity, (Refilled(t).tokens - Ticks) + gain)
  BY <1>1, <1>2, <1>3, CapacityType, LimiterAssumption DEF Least
<1>5. b \in Bucket /\ b.last <= now
  BY <1>2, <1>3, <1>4 DEF Bucket
<1>6. f <= Least(Capacity, b.tokens + Elapsed(now, b.last) * Rate)
  BY <1>2, <1>4 DEF gain
<1> HIDE DEF b, f
<1> QED BY <1>1, <1>4, <1>5, <1>6, InvWriteBack

LEMMA InvDeny ==
  ASSUME Inv, NEW t \in Threads, Deny(t)
  PROVE  Inv'
<1> DEFINE b == Refilled(t)
           f == fair[src[t]]
<1>1. /\ pc[t] = "source" /\ Prune(t) /\ ~Full(t, Remaining(t))
      /\ tracked' = Remaining(t) \cup {src[t]}
      /\ bucket' = [Forgotten(Remaining(t)) EXCEPT ![src[t]] = b]
      /\ pc' = [pc EXCEPT ![t] = "idle"]
      /\ UNCHANGED <<now, global, src, read, queries>>
  BY DEF Deny
<1>2. fair' = [fair EXCEPT ![src[t]] = f]
  BY DEF Deny, Inv, TypeOK
<1>3. b \in Bucket /\ b.last = read[t] /\ b.last <= now
      /\ f <= Least(Capacity, b.tokens + Elapsed(now, read[t]) * Rate)
  BY <1>1, RefilledFacts
<1>4. f \in Int /\ f <= Capacity
  BY DEF Inv, TypeOK, FairBound
<1> HIDE DEF b, f
<1> QED BY <1>1, <1>2, <1>3, <1>4, InvWriteBack

LEMMA InvNext == Inv /\ [Next]_vars => Inv'
<1> SUFFICES ASSUME Inv, [Next]_vars PROVE Inv'
  OBVIOUS
<1>1. CASE Tick
  BY <1>1, InvTick
<1>2. ASSUME NEW t \in Threads, NEW s \in Sources, Arrive(t, s) PROVE Inv'
  BY <1>2, InvArrive
<1>3. ASSUME NEW t \in Threads, PassUntracked(t) PROVE Inv'
  BY <1>3, InvPass
<1>4. ASSUME NEW t \in Threads, Take(t) PROVE Inv'
  BY <1>4, InvTake
<1>5. ASSUME NEW t \in Threads, Deny(t) PROVE Inv'
  BY <1>5, InvDeny
<1>6. ASSUME NEW t \in Threads, ReadWindow(t) \/ Swap(t) \/ Reset(t) \/ Count(t)
      PROVE  Inv'
  BY <1>6, InvGlobal
<1>7. CASE UNCHANGED vars
  BY <1>7 DEF vars, source, global, Inv, TypeOK, Ages, FairBound, NeverStricter,
              Available
<1> QED BY <1>1, <1>2, <1>3, <1>4, <1>5, <1>6, <1>7 DEF Next

-----------------------------------------------------------------------------
(* The global cap.  Within a second, the count goes back to zero once for   *)
(* every thread that is about to reset it, once when the window of the       *)
(* present second is put in place, and twice for every thread that has read   *)
(* the clock in an earlier second: when it swaps its old window in, and when   *)
(* that is swapped out again.                                                *)

Resetting == {t \in Threads : pc[t] = "reset"}
Late == {t \in Threads : pc[t] = "swap" /\ read[t] # Second(now)}

\* Resets that may still come in this second.
Resets ==
  Cardinality(Resetting) + 2 * Cardinality(Late)
    + (IF window = Second(now) THEN 0 ELSE 1)

\* Queries that may pass before the next reset, and between k resets and the next.
Left == IF count < GlobalLimit THEN GlobalLimit - count ELSE 0
Budget(k) == k * GlobalLimit

\* A second begins with every thread on its way to a swap of an old window or
\* to a reset: the count it begins with lets nothing pass.
Quiet == passed = 0 /\ Resetting \cup Late = Threads

MaxResets == 2 * Cardinality(Threads)

GlobalInv == Quiet \/ passed + Left + Budget(Resets) <= Budget(MaxResets)

LEMMA BudgetType ==
  /\ \A k \in Nat : Budget(k) \in Nat /\ Budget(k + 1) = Budget(k) + GlobalLimit
  /\ \A j, k \in Nat : j <= k => Budget(j) <= Budget(k)
<1>1. \A L \in Nat : /\ \A k \in Nat : k * L \in Nat /\ (k + 1) * L = k * L + L
                     /\ \A j, k \in Nat : j <= k => j * L <= k * L
  OBVIOUS
<1> QED BY <1>1, LimiterAssumption DEF Budget

\* A thread is in one of the two sets at most, and one that is in neither leaves
\* less to come.
ResetFacts ==
  /\ IsFiniteSet(Resetting) /\ Cardinality(Resetting) \in Nat
  /\ IsFiniteSet(Late) /\ Cardinality(Late) \in Nat
  /\ Cardinality(Threads) \in Nat /\ MaxResets \in Nat
  /\ Resets \in Nat /\ Left \in 0..GlobalLimit
  /\ Resetting \cup Late = Threads
       => Cardinality(Resetting) + Cardinality(Late) = Cardinality(Threads)
  /\ Resetting \cup Late # Threads
       => Cardinality(Resetting) + Cardinality(Late) + 1 <= Cardinality(Threads)

LEMMA AboutToReset == TypeOK => ResetFacts
<1> SUFFICES ASSUME TypeOK PROVE ResetFacts
  OBVIOUS
<1>1. Resetting \subseteq Threads /\ Late \subseteq Threads
  BY DEF Resetting, Late
<1>2. /\ IsFiniteSet(Resetting) /\ Cardinality(Resetting) \in Nat
      /\ IsFiniteSet(Late) /\ Cardinality(Late) \in Nat
      /\ IsFiniteSet(Threads) /\ Cardinality(Threads) \in Nat
  BY <1>1, LimiterAssumption, FS_Subset, FS_CardinalityType
<1>3. Resetting \cap Late = {}
  BY DEF Resetting, Late
<1>4. Cardinality(Resetting \cup Late) = Cardinality(Resetting) + Cardinality(Late)
  <2>1. Cardinality(Resetting \cap Late) = 0
    BY <1>3, FS_EmptySet
  <2>2. Cardinality(Resetting \cup Late)
          = Cardinality(Resetting) + Cardinality(Late) - Cardinality(Resetting \cap Late)
    BY <1>2, FS_Union
  <2> QED BY <1>2, <2>1, <2>2
<1>5. Resetting \cup Late # Threads
        => Cardinality(Resetting) + Cardinality(Late) + 1 <= Cardinality(Threads)
  <2> SUFFICES ASSUME Resetting \cup Late # Threads
               PROVE  Cardinality(Resetting) + Cardinality(Late) + 1
                        <= Cardinality(Threads)
    OBVIOUS
  <2> DEFINE both == Resetting \cup Late
  <2>1. both \in SUBSET Threads /\ both # Threads
    BY <1>1
  <2> HIDE DEF both
  <2>2. /\ Cardinality(both) <= Cardinality(Threads)
        /\ Cardinality(both) # Cardinality(Threads)
        /\ Cardinality(both) \in Nat
    BY <1>2, <2>1, FS_Subset, FS_CardinalityType
  <2>3. Cardinality(both) + 1 <= Cardinality(Threads)
    BY <1>2, <2>2
  <2> QED BY <1>4, <2>3 DEF both
<1>6. Resets \in Nat
  BY <1>2 DEF Resets
<1>7. Left \in 0..GlobalLimit
  BY LimiterAssumption DEF TypeOK, Left
<1>8. MaxResets \in Nat
  BY <1>2 DEF MaxResets
<1> QED BY <1>2, <1>4, <1>5, <1>6, <1>7, <1>8 DEF ResetFacts

LEMMA AboutToResetNext == TypeOK' => ResetFacts'
BY AboutToReset, PTL

\* What is left of a budget after a step that the others do not notice.
LEMMA GlobalStill ==
  ASSUME TypeOK, GlobalInv, UNCHANGED <<window, count, passed>>,
         Second(now)' = Second(now), Resetting' = Resetting, Late' = Late
  PROVE  GlobalInv'
BY DEF GlobalInv, Quiet, Left, Resets, Budget

LEMMA GlobalInit == Init => GlobalInv
<1> SUFFICES ASSUME Init PROVE GlobalInv
  OBVIOUS
<1>1. TypeOK
  BY InvInit DEF Inv
<1>2. Resetting = {} /\ Late = {} /\ passed = 0
  BY DEF Init, Resetting, Late
<1>3. CASE Threads = {}
  BY <1>2, <1>3 DEF GlobalInv, Quiet
<1>4. CASE Threads # {}
  <2>1. Cardinality({}) = 0
    BY FS_EmptySet
  <2>2. MaxResets >= 2 /\ MaxResets \in Nat
    BY <1>1, <1>2, <1>4, <2>1, AboutToReset DEF ResetFacts, MaxResets
  <2>3. Resets \in {0, 1} /\ Left \in 0..GlobalLimit
    BY <1>1, <1>2, <2>1, AboutToReset DEF ResetFacts, Resets
  <2>4. /\ Budget(Resets) \in Nat /\ Budget(Resets) + GlobalLimit = Budget(Resets + 1)
        /\ Budget(Resets + 1) <= Budget(MaxResets)
        /\ Budget(MaxResets) \in Nat
    BY <2>2, <2>3, BudgetType
  <2> HIDE DEF Budget
  <2> QED BY <1>2, <2>3, <2>4, LimiterAssumption DEF GlobalInv
<1> QED BY <1>3, <1>4

\* When a new second begins, nothing has passed in it.
LEMMA GlobalTick ==
  ASSUME TypeOK, TypeOK', GlobalInv, Tick
  PROVE  GlobalInv'
<1>1. UNCHANGED <<window, count, pc, read>>
  BY DEF Tick
<1>2. CASE Second(now + 1) = Second(now)
  <2>1. Second(now)' = Second(now) /\ UNCHANGED passed
    BY <1>2 DEF Tick, Second
  <2>2. Resetting' = Resetting /\ Late' = Late
    BY <1>1, <2>1 DEF Resetting, Late
  <2> QED BY <1>1, <2>1, <2>2, GlobalStill
<1>3. CASE Second(now + 1) # Second(now)
  <2>1. passed' = 0
    BY <1>3 DEF Tick
  <2>2. CASE Resetting' \cup Late' = Threads
    BY <2>1, <2>2 DEF GlobalInv, Quiet
  <2>3. CASE Resetting' \cup Late' # Threads
    <3> DEFINE N == Cardinality(Threads)
               R == Cardinality(Resetting')
               O == Cardinality(Late')
               K == Resets'
    <3>1. /\ R \in Nat /\ O \in Nat /\ N \in Nat /\ R + O + 1 <= N
          /\ MaxResets = 2 * N /\ MaxResets \in Nat
          /\ K \in Nat /\ Left' \in 0..GlobalLimit
      BY <2>3, AboutToReset, AboutToResetNext DEF ResetFacts, MaxResets
    <3>2. K <= R + 2 * O + 1
      BY <3>1 DEF Resets
    <3> HIDE DEF N, R, O, K
    <3>3. K + 1 \in Nat /\ K + 1 <= MaxResets
      BY <3>1, <3>2
    <3>4. /\ Budget(K) \in Nat /\ Budget(K) + GlobalLimit = Budget(K + 1)
          /\ Budget(K + 1) <= Budget(MaxResets) /\ Budget(MaxResets) \in Nat
      BY <3>1, <3>3, BudgetType
    <3>5. 0 + Left' + Budget(K) <= Budget(MaxResets)
      BY <3>1, <3>4, LimiterAssumption
    <3> QED BY <2>1, <3>5 DEF GlobalInv, Budget, MaxResets, K
  <2> QED BY <2>2, <2>3
<1> QED BY <1>2, <1>3

LEMMA GlobalReset ==
  ASSUME TypeOK, TypeOK', GlobalInv, NEW t \in Threads, Reset(t)
  PROVE  GlobalInv'
<1>1. /\ pc[t] = "reset" /\ count' = 0
      /\ pc' = [pc EXCEPT ![t] = "count"]
      /\ UNCHANGED <<now, window, passed, read>>
  BY DEF Reset, source
<1>2. t \in Resetting /\ Resetting' = Resetting \ {t} /\ Late' = Late
  BY <1>1 DEF Resetting, Late, TypeOK
<1>3. /\ Cardinality(Resetting') = Cardinality(Resetting) - 1
      /\ Cardinality(Resetting) \in Nat /\ Cardinality(Late) \in Nat
      /\ Cardinality(Threads) \in Nat /\ MaxResets \in Nat
      /\ Cardinality(Resetting) >= 1
      /\ Resets \in Nat /\ Resets' \in Nat /\ Left \in 0..GlobalLimit
  <2>1. /\ IsFiniteSet(Resetting) /\ Cardinality(Resetting) \in Nat
        /\ Cardinality(Late) \in Nat
        /\ Cardinality(Threads) \in Nat /\ MaxResets \in Nat
        /\ Resets \in Nat /\ Left \in 0..GlobalLimit
    BY AboutToReset DEF ResetFacts
  <2>2. Resets' \in Nat /\ Cardinality(Resetting') \in Nat
    BY AboutToResetNext DEF ResetFacts
  <2>3. Cardinality(Resetting') = Cardinality(Resetting) - 1
    BY <1>2, <2>1, FS_RemoveElement
  <2> QED BY <2>1, <2>2, <2>3
<1>4. Left' = GlobalLimit
  BY <1>1, LimiterAssumption DEF Left
<1>5. Resets' + 1 = Resets
  BY <1>1, <1>2, <1>3 DEF Resets
<1>6. Budget(Resets') + GlobalLimit = Budget(Resets) /\ Budget(Resets') \in Nat
  BY <1>3, <1>5, BudgetType
<1>7. passed' + Left' + Budget(Resets') = passed + Budget(Resets)
  BY <1>1, <1>4, <1>6, LimiterAssumption DEF TypeOK
<1>8. Budget(Resets) \in Nat /\ Budget(MaxResets) \in Nat
  BY <1>3, BudgetType
<1>9. CASE Quiet
  <2>1. passed = 0 /\ Cardinality(Resetting) + Cardinality(Late) = Cardinality(Threads)
    BY <1>9, AboutToReset DEF ResetFacts, Quiet
  <2>2. Resets <= MaxResets
    BY <1>3, <2>1 DEF Resets, MaxResets
  <2>3. Budget(Resets) <= Budget(MaxResets)
    BY <1>3, <2>2, BudgetType
  <2> QED BY <1>7, <1>8, <2>1, <2>3 DEF GlobalInv, Budget
<1>10. CASE ~Quiet
  <2>1. passed + Left + Budget(Resets) <= Budget(MaxResets)
    BY <1>10 DEF GlobalInv
  <2>2. passed + Budget(Resets) <= Budget(MaxResets)
    BY <1>3, <1>8, <2>1, LimiterAssumption DEF TypeOK
  <2> QED BY <1>7, <2>2 DEF GlobalInv, Budget
<1> QED BY <1>9, <1>10

\* A late thread swaps its window in, and may be about to reset the count.
LEMMA GlobalSwapLate ==
  ASSUME TypeOK, TypeOK', GlobalInv, NEW t \in Late, Swap(t)
  PROVE  GlobalInv'
<1>1. /\ t \in Threads /\ pc[t] = "swap" /\ read[t] # Second(now)
      /\ window' = read[t]
      /\ pc' = [pc EXCEPT ![t] = IF window # read[t] THEN "reset" ELSE "count"]
      /\ UNCHANGED <<now, count, passed, read>>
  BY DEF Swap, source, Late
<1>2. /\ Late' = Late \ {t}
      /\ Resetting' = IF window # read[t] THEN Resetting \cup {t} ELSE Resetting
      /\ t \notin Resetting
  BY <1>1 DEF Resetting, Late, TypeOK
<1>3. /\ IsFiniteSet(Resetting) /\ Cardinality(Resetting) \in Nat
      /\ IsFiniteSet(Late) /\ Cardinality(Late) \in Nat
      /\ Cardinality(Threads) \in Nat /\ MaxResets \in Nat
      /\ Resets \in Nat /\ Left \in 0..GlobalLimit
  BY AboutToReset DEF ResetFacts
<1>4. Cardinality(Late') = Cardinality(Late) - 1 /\ Resets' \in Nat
      /\ Cardinality(Late') \in Nat
  BY <1>2, <1>3, FS_RemoveElement, AboutToResetNext DEF ResetFacts
<1>5. Cardinality(Resetting') = IF window # read[t] THEN Cardinality(Resetting) + 1
                                                    ELSE Cardinality(Resetting)
  BY <1>2, <1>3, FS_AddElement
<1>6. Left' = Left /\ window' # Second(now)' /\ passed' = passed
  BY <1>1 DEF Left, Second
<1>7. Resets' = Cardinality(Resetting') + 2 * Cardinality(Late') + 1
  BY <1>6 DEF Resets
<1>8. CASE Quiet /\ window # read[t]
  <2>1. Resetting' \cup Late' = Threads
    BY <1>2, <1>8 DEF Quiet
  <2> QED BY <1>6, <1>8, <2>1 DEF GlobalInv, Quiet
<1>9. CASE Quiet /\ window = read[t]
  <2>1. passed = 0 /\ Cardinality(Resetting) + Cardinality(Late) = Cardinality(Threads)
    BY <1>9, AboutToReset DEF ResetFacts, Quiet
  <2>2. Resets' + 1 <= MaxResets
    BY <1>3, <1>4, <1>5, <1>7, <1>9, <2>1 DEF MaxResets
  <2> DEFINE K == Resets'
              M == MaxResets
  <2>a. K \in Nat
    BY <1>4
  <2>b. K + 1 <= M
    BY <2>2
  <2>m. M \in Nat
    BY <1>3
  <2> HIDE DEF K, M
  <2>3. K \in Nat /\ K + 1 \in Nat /\ K + 1 <= M
    BY <2>a, <2>b
  <2>4. /\ Budget(K + 1) <= Budget(M)
        /\ Budget(K + 1) = Budget(K) + GlobalLimit
        /\ Budget(K) \in Nat /\ Budget(M) \in Nat
    BY <2>m, <2>3, BudgetType
  <2>5. passed' + Left' + Budget(K) <= Budget(M)
    BY <1>3, <1>6, <2>1, <2>4, LimiterAssumption
  <2> QED BY <2>5 DEF GlobalInv, Budget, MaxResets, K, M
<1>10. CASE ~Quiet
  <2>1. passed + Left + Budget(Resets) <= Budget(MaxResets)
    BY <1>10 DEF GlobalInv
  <2>2. Resets' <= Resets
    BY <1>3, <1>4, <1>5, <1>7 DEF Resets
  <2>3. /\ Budget(Resets') <= Budget(Resets)
        /\ Budget(Resets') \in Nat /\ Budget(Resets) \in Nat
        /\ Budget(MaxResets) \in Nat
    BY <1>3, <1>4, <2>2, BudgetType
  <2>4. passed' + Left' + Budget(Resets') <= Budget(MaxResets)
    BY <1>3, <1>6, <2>1, <2>3, LimiterAssumption DEF TypeOK
  <2> QED BY <2>4 DEF GlobalInv, Budget
<1> QED BY <1>8, <1>9, <1>10

\* The window of the present second is put in place, or is there already.
LEMMA GlobalSwapNow ==
  ASSUME TypeOK, TypeOK', GlobalInv, NEW t \in Threads, t \notin Late, Swap(t)
  PROVE  GlobalInv'
<1>1. /\ pc[t] = "swap" /\ read[t] = Second(now)
      /\ window' = read[t]
      /\ pc' = [pc EXCEPT ![t] = IF window # read[t] THEN "reset" ELSE "count"]
      /\ UNCHANGED <<now, count, passed, read>>
  BY DEF Swap, source, Late
<1>2. /\ Late' = Late
      /\ Resetting' = IF window # read[t] THEN Resetting \cup {t} ELSE Resetting
      /\ t \notin Resetting
  BY <1>1 DEF Resetting, Late, TypeOK
<1>3. /\ IsFiniteSet(Resetting) /\ Cardinality(Resetting) \in Nat
      /\ Cardinality(Late) \in Nat
  BY AboutToReset DEF ResetFacts
<1>4. Cardinality(Resetting') = IF window # read[t] THEN Cardinality(Resetting) + 1
                                                    ELSE Cardinality(Resetting)
  BY <1>2, <1>3, FS_AddElement
<1>5. Left' = Left /\ window' = Second(now)' /\ passed' = passed
  BY <1>1 DEF Left, Second
<1>6. Resets' = Resets
  BY <1>1, <1>2, <1>3, <1>4, <1>5 DEF Resets
<1>7. ~Quiet
  BY <1>2 DEF Quiet
<1> QED BY <1>5, <1>6, <1>7 DEF GlobalInv, Budget

LEMMA GlobalCount ==
  ASSUME TypeOK, TypeOK', GlobalInv, NEW t \in Threads, Count(t)
  PROVE  GlobalInv'
<1>1. /\ pc[t] = "count" /\ count' = count + 1
      /\ passed' = IF count < GlobalLimit THEN passed + 1 ELSE passed
      /\ pc' = [pc EXCEPT ![t] = "idle"]
      /\ UNCHANGED <<now, window, read>>
  BY DEF Count, source
<1>2. Resetting' = Resetting /\ Late' = Late /\ t \notin Resetting \cup Late
  BY <1>1 DEF Resetting, Late, TypeOK
<1>3. ~Quiet /\ Resets' = Resets
  BY <1>1, <1>2 DEF Quiet, Resets
<1>4. passed' + Left' = passed + Left
  BY <1>1, LimiterAssumption DEF Left, TypeOK
<1> QED BY <1>3, <1>4 DEF GlobalInv, Budget

LEMMA GlobalNext ==
  ASSUME TypeOK, TypeOK', GlobalInv, [Next]_vars
  PROVE  GlobalInv'
<1>1. CASE UNCHANGED vars
  BY <1>1, GlobalStill DEF vars, global, Resetting, Late, Second
<1>2. CASE Tick
  BY <1>2, GlobalTick
<1>3. ASSUME NEW t \in Threads,
             \/ \E s \in Sources : Arrive(t, s)
             \/ PassUntracked(t) \/ Take(t) \/ Deny(t) \/ ReadWindow(t)
      PROVE  GlobalInv'
  <2>1. UNCHANGED <<now, window, count, passed>>
    BY <1>3 DEF Arrive, PassUntracked, Take, Deny, ReadWindow, source, global
  <2>2. Resetting' = Resetting
    BY <1>3 DEF Arrive, PassUntracked, Take, Deny, ReadWindow, Resetting, TypeOK
  <2>3. Late' = Late
    BY <1>3, <2>1 DEF Arrive, PassUntracked, Take, Deny, ReadWindow, Late, TypeOK, Second
  <2> QED BY <2>1, <2>2, <2>3, GlobalStill DEF Second
<1>4. ASSUME NEW t \in Threads, Swap(t) PROVE GlobalInv'
  BY <1>4, GlobalSwapLate, GlobalSwapNow
<1>5. ASSUME NEW t \in Threads, Reset(t) \/ Count(t) PROVE GlobalInv'
  BY <1>5, GlobalReset, GlobalCount
<1> QED BY <1>1, <1>2, <1>3, <1>4, <1>5 DEF Next

LEMMA GlobalInvBounds == TypeOK /\ GlobalInv => GlobalBounded
<1> SUFFICES ASSUME TypeOK, GlobalInv PROVE GlobalBounded
  OBVIOUS
<1>1. MaxResets \in Nat /\ Resets \in Nat /\ Left \in 0..GlobalLimit
  BY AboutToReset DEF ResetFacts
<1>2. /\ Budget(Resets) \in Nat /\ Budget(MaxResets) \in Nat
  BY <1>1, BudgetType
<1>3. passed <= Budget(MaxResets)
  <2>1. CASE Quiet
    BY <1>2, <2>1 DEF Quiet
  <2>2. CASE ~Quiet
    BY <1>1, <1>2, <2>2, LimiterAssumption DEF GlobalInv, TypeOK
  <2> QED BY <2>1, <2>2
<1> QED BY <1>3 DEF GlobalBounded, Budget, MaxResets

-----------------------------------------------------------------------------
\* Every reachable state is well-typed: no shard tracks more sources than
\* max_sources_per_shard and no bucket exceeds its capacity (check_source).
THEOREM TableBounded == Spec => []TypeOK
<1>1. Inv => TypeOK
  BY DEF Inv
<1> QED BY InvInit, InvNext, <1>1, PTL DEF Spec

\* No interleaving of clock reads, refills and prunes ever holds a source below
\* the rate it is configured (check_source).
THEOREM RateHonoured == Spec => []NeverStricter
<1>1. Inv => NeverStricter
  BY DEF Inv
<1> QED BY InvInit, InvNext, <1>1, PTL DEF Spec

\* A step drops a bucket only when it would be full again (check_source).
THEOREM PruneForgetsNothing == Spec => SpentNotForgotten
<1> DEFINE Kind == \A s \in tracked : s \notin tracked' => Available(s) = Capacity
<1>1. ASSUME Inv, [Next]_vars PROVE [Kind]_vars
  <2>1. ASSUME NEW t \in Threads, PassUntracked(t) \/ Take(t) \/ Deny(t) PROVE Kind
    <3>1. pc[t] = "source" /\ Remaining(t) \subseteq tracked'
      BY <2>1 DEF PassUntracked, Take, Deny
    <3> QED BY <1>1, <3>1, PrunedIsFull
  <2>2. CASE Tick
    BY <2>2 DEF Tick
  <2>3. ASSUME NEW t \in Threads, NEW s \in Sources, Arrive(t, s) PROVE Kind
    BY <2>3 DEF Arrive, source
  <2>4. ASSUME NEW t \in Threads, ReadWindow(t) \/ Swap(t) \/ Reset(t) \/ Count(t)
        PROVE  Kind
    BY <2>4 DEF ReadWindow, Swap, Reset, Count, source
  <2> QED BY <1>1, <2>1, <2>2, <2>3, <2>4 DEF Next
<1>2. Spec => []Inv
  BY InvInit, InvNext, PTL DEF Spec
<1> QED BY <1>1, <1>2, PTL DEF Spec, SpentNotForgotten

\* However the atomic operations of any number of threads interleave, no more
\* than two limits for each thread pass within one second (check_global).
THEOREM GlobalCapBounded == Spec => []GlobalBounded
<1>1. Init => Inv /\ GlobalInv
  BY InvInit, GlobalInit
<1>2. Inv /\ GlobalInv /\ [Next]_vars => (Inv /\ GlobalInv)'
  BY InvNext, GlobalNext DEF Inv
<1>3. Inv /\ GlobalInv => GlobalBounded
  BY GlobalInvBounds DEF Inv
<1> QED BY <1>1, <1>2, <1>3, PTL DEF Spec
=============================================================================
