---------------------------- MODULE RateLimiter ----------------------------
(***************************************************************************)
(* ratelimit.rs: the check that every query passes before it is parsed.     *)
(* check_source takes a token from the bucket of the source, in a bounded   *)
(* table under the lock of a shard; the clock is read before the lock is    *)
(* taken.  check_global counts queries in one-second windows with separate  *)
(* atomic operations on the window and on the count.                       *)
(*                                                                         *)
(* Time advances in ticks, Ticks of them a second, and tokens are counted   *)
(* in units of 1/Ticks, so that a bucket gains Rate units in a tick and a   *)
(* query costs Ticks units.  The f64 arithmetic of the code is exact here.  *)
(* Both caps are enabled: a cap of 0 skips its half of the check.           *)
(***************************************************************************)
EXTENDS Integers, FiniteSets

CONSTANTS
  Threads,      \* receivers and connection workers
  Sources,      \* addresses
  Shards,
  ShardOf,      \* ShardOf[s]: the shard that the hash of s selects
  Ticks,        \* ticks in a second
  Rate,         \* queries_per_second
  MaxSources,   \* max_sources_per_shard
  GlobalLimit,  \* global_queries_per_second
  MaxTime,      \* bound: ticks
  MaxQueries    \* bound: queries

ASSUME LimiterAssumption ==
  /\ IsFiniteSet(Threads)
  /\ IsFiniteSet(Sources)
  /\ ShardOf \in [Sources -> Shards]
  /\ Ticks \in Nat \ {0}
  /\ Rate \in Nat \ {0}
  /\ MaxSources \in Nat \ {0}
  /\ GlobalLimit \in Nat \ {0}
  /\ MaxTime \in Nat
  /\ MaxQueries \in Nat

VARIABLES
  now,         \* ticks since the limiter was created
  tracked,     \* sources that have a bucket
  bucket,      \* the tokens of a source and the time they were counted
  last_prune,  \* per shard
  window,      \* global_window
  count,       \* global_count
  pc,          \* pc[t]: where thread t is in check()
  src,         \* src[t]: the source of the query it checks
  read,        \* read[t]: the time, then the window, that it has read
  queries,     \* queries so far
  fair,        \* ghost: the level of a bucket that is never forgotten, and
               \* that is refilled by the time at which a token is taken
  passed       \* ghost: queries let through in the current second

source == <<tracked, bucket, last_prune, fair>>
global == <<window, count, passed>>
vars == <<now, source, global, pc, src, read, queries>>

Capacity == Rate * Ticks
Second(n) == n \div Ticks

Bucket == [tokens : 0..Capacity, last : Nat]
Unused == [tokens |-> Capacity, last |-> 0]

Tracked(shard, set) == {s \in set : ShardOf[s] = shard}

TypeOK ==
  /\ now \in Nat
  /\ tracked \subseteq Sources
  /\ \A shard \in Shards : Cardinality(Tracked(shard, tracked)) <= MaxSources
  /\ bucket \in [Sources -> Bucket]
  /\ last_prune \in [Shards -> Nat]
  /\ window \in Nat
  /\ count \in Nat
  /\ pc \in [Threads -> {"idle", "source", "window", "swap", "reset", "count"}]
  /\ src \in [Threads -> Sources]
  /\ read \in [Threads -> Nat]
  /\ queries \in Nat
  /\ fair \in [Sources -> Int]
  /\ passed \in Nat

Init ==
  /\ now = 0
  /\ tracked = {}
  /\ bucket = [s \in Sources |-> Unused]
  /\ last_prune = [shard \in Shards |-> 0]
  /\ window = 0
  /\ count = 0
  /\ pc = [t \in Threads |-> "idle"]
  /\ src \in [Threads -> Sources]
  /\ read = [t \in Threads |-> 0]
  /\ queries = 0
  /\ fair = [s \in Sources |-> Capacity]
  /\ passed = 0

Least(m, n) == IF m <= n THEN m ELSE n

Tick ==
  /\ now < MaxTime
  /\ now' = now + 1
  /\ fair' = [s \in Sources |-> Least(Capacity, fair[s] + Rate)]
  /\ passed' = IF Second(now + 1) = Second(now) THEN passed ELSE 0
  /\ UNCHANGED <<tracked, bucket, last_prune, window, count, pc, src, read,
                 queries>>

-----------------------------------------------------------------------------
(* check_source                                                             *)

\* duration_since is zero when the other time is later.
Elapsed(n, since) == IF n > since THEN n - since ELSE 0

\* MUTANT of Refill: only whole tokens are added, and the rest is lost.
RefillWhole(b, n) ==
  [tokens |-> Least(Capacity,
                    b.tokens + ((Elapsed(n, b.last) * Rate) \div Ticks) * Ticks),
   last   |-> n]

\* A bucket brought up to time n, which may be earlier than its last refill.
Refill(b, n) ==
  [tokens |-> Least(Capacity, b.tokens + Elapsed(n, b.last) * Rate),
   last   |-> n]

\* A query from source s: the clock is read before the shard is locked.
Arrive(t, s) ==
  /\ pc[t] = "idle"
  /\ queries < MaxQueries
  /\ queries' = queries + 1
  /\ pc' = [pc EXCEPT ![t] = "source"]
  /\ src' = [src EXCEPT ![t] = s]
  /\ read' = [read EXCEPT ![t] = now]
  /\ UNCHANGED <<now, source, global>>

Shard(t) == ShardOf[src[t]]

\* The source is new and the table of its shard is full.
Full(t, set) ==
  /\ src[t] \notin set
  /\ Cardinality(Tracked(Shard(t), set)) >= MaxSources

PruneDue(t) ==
  /\ Full(t, tracked)
  /\ Elapsed(read[t], last_prune[Shard(t)]) >= Ticks

\* MUTANT of Kept: every bucket of the shard is dropped.
KeptNone(t) == {s \in tracked : ShardOf[s] # Shard(t)}

\* The sources that stay when thread t prunes: those of other shards, and
\* those whose bucket is not full at the time it has read.
Kept(t) ==
  {s \in tracked :
     \/ ShardOf[s] # Shard(t)
     \/ bucket[s].tokens + Elapsed(read[t], bucket[s].last) * Rate < Capacity}

\* The sources with a bucket once a prune that is due is done.
Remaining(t) == IF PruneDue(t) THEN Kept(t) ELSE tracked

Prune(t) ==
  last_prune' = IF PruneDue(t) THEN [last_prune EXCEPT ![Shard(t)] = read[t]]
                               ELSE last_prune

\* The bucket thread t takes from, refilled; a new source starts with a full one.
Refilled(t) ==
  LET s == src[t]
  IN  Refill(IF s \in Remaining(t)
             THEN bucket[s] ELSE [tokens |-> Capacity, last |-> read[t]],
             read[t])

Forgotten(set) == [s \in Sources |-> IF s \in set THEN bucket[s] ELSE Unused]

\* MUTANT of PassUntracked: the table grows past its bound.
GrowTable(t) ==
  /\ pc[t] = "source"
  /\ Full(t, Remaining(t))
  /\ Prune(t)
  /\ tracked' = Remaining(t) \cup {src[t]}
  /\ bucket' = Forgotten(Remaining(t))
  /\ pc' = [pc EXCEPT ![t] = "window"]
  /\ UNCHANGED <<now, global, src, read, queries, fair>>

\* The table is full: the source is only subject to the global cap.
PassUntracked(t) ==
  /\ pc[t] = "source"
  /\ Full(t, Remaining(t))
  /\ Prune(t)
  /\ tracked' = Remaining(t)
  /\ bucket' = Forgotten(Remaining(t))
  /\ pc' = [pc EXCEPT ![t] = "window"]
  /\ UNCHANGED <<now, global, src, read, queries, fair>>

Take(t) ==
  /\ pc[t] = "source"
  /\ ~Full(t, Remaining(t))
  /\ Refilled(t).tokens >= Ticks
  /\ Prune(t)
  /\ tracked' = Remaining(t) \cup {src[t]}
  /\ bucket' = [Forgotten(Remaining(t)) EXCEPT
                  ![src[t]] = [tokens |-> Refilled(t).tokens - Ticks,
                               last   |-> Refilled(t).last]]
  /\ fair' = [fair EXCEPT ![src[t]] = @ - Ticks]
  /\ pc' = [pc EXCEPT ![t] = "window"]
  /\ UNCHANGED <<now, global, src, read, queries>>

Deny(t) ==
  /\ pc[t] = "source"
  /\ ~Full(t, Remaining(t))
  /\ Refilled(t).tokens < Ticks
  /\ Prune(t)
  /\ tracked' = Remaining(t) \cup {src[t]}
  /\ bucket' = [Forgotten(Remaining(t)) EXCEPT ![src[t]] = Refilled(t)]
  /\ pc' = [pc EXCEPT ![t] = "idle"]
  /\ UNCHANGED <<now, global, src, read, queries, fair>>

-----------------------------------------------------------------------------
(* check_global                                                             *)

ReadWindow(t) ==
  /\ pc[t] = "window"
  /\ read' = [read EXCEPT ![t] = Second(now)]
  /\ pc' = [pc EXCEPT ![t] = "swap"]
  /\ UNCHANGED <<now, source, global, src, queries>>

Swap(t) ==
  /\ pc[t] = "swap"
  /\ window' = read[t]
  /\ pc' = [pc EXCEPT ![t] = IF window # read[t] THEN "reset" ELSE "count"]
  /\ UNCHANGED <<now, source, count, passed, src, read, queries>>

Reset(t) ==
  /\ pc[t] = "reset"
  /\ count' = 0
  /\ pc' = [pc EXCEPT ![t] = "count"]
  /\ UNCHANGED <<now, source, window, passed, src, read, queries>>

\* MUTANT of Count: a query that is turned away is not counted, and the
\* comparison is off by one.
CountPast(t) ==
  /\ pc[t] = "count"
  /\ count' = IF count <= GlobalLimit THEN count + 1 ELSE count
  /\ passed' = IF count <= GlobalLimit THEN passed + 1 ELSE passed
  /\ pc' = [pc EXCEPT ![t] = "idle"]
  /\ UNCHANGED <<now, source, window, src, read, queries>>

Count(t) ==
  /\ pc[t] = "count"
  /\ count' = count + 1
  /\ passed' = IF count < GlobalLimit THEN passed + 1 ELSE passed
  /\ pc' = [pc EXCEPT ![t] = "idle"]
  /\ UNCHANGED <<now, source, window, src, read, queries>>

-----------------------------------------------------------------------------
Next ==
  \/ Tick
  \/ \E t \in Threads :
       \/ \E s \in Sources : Arrive(t, s)
       \/ PassUntracked(t) \/ Take(t) \/ Deny(t)
       \/ ReadWindow(t) \/ Swap(t) \/ Reset(t) \/ Count(t)

Spec == Init /\ [][Next]_vars

-----------------------------------------------------------------------------
(* Properties.                                                              *)

\* What the bucket of source s would hold if it were refilled now.
Available(s) ==
  IF s \in tracked
  THEN Least(Capacity, bucket[s].tokens + Elapsed(now, bucket[s].last) * Rate)
  ELSE Capacity

\* No source is held below its rate: its bucket holds at least what a bucket
\* that is never pruned, and refilled by an exact clock, would hold, although
\* threads refill it by clocks read before they got the lock (check_source).
NeverStricter == \A s \in Sources : Available(s) >= fair[s]

\* Pruning forgets a source only when its bucket would be full again, so a full
\* table cannot be used to win back tokens that were spent (check_source).
SpentNotForgotten ==
  [][\A s \in tracked : s \notin tracked' => Available(s) = Capacity]_vars

\* However the atomic operations of N threads interleave, no more than N times
\* twice the limit passes within one second, the bound that ratelimit.rs states
\* for a sequential limiter (check_global).
GlobalBounded == passed <= 2 * Cardinality(Threads) * GlobalLimit
=============================================================================
