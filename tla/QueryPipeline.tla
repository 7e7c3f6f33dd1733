--------------------------- MODULE QueryPipeline ---------------------------
(***************************************************************************)
(* server.rs: what happens to a query that the rate limiter let through.   *)
(* A UDP receiver answers from the zones or from the cache; a query that    *)
(* needs an upstream lookup is handed to the recursion pool, where           *)
(* handle_query runs it again from the start.  A query on a connection runs *)
(* through without being handed off.  The recursion pool is the JobService  *)
(* that ThreadPool implements.                                              *)
(*                                                                         *)
(* A question is a name and a type.  What the zones say is the number of    *)
(* the publication that holds the name; what upstream says is the time at   *)
(* which it said it.  The counters of metrics.rs are added to in the step   *)
(* of the shared state they follow: each is a relaxed atomic that only the  *)
(* metrics page reads.                                                      *)
(***************************************************************************)
EXTENDS Integers, FiniteSets, Sequences

CONSTANTS
  Queries,
  Questions,
  Question,       \* Question[q]
  Profiles,       \* assignments of traits to the queries
  Receivers,      \* udp_receivers
  Slots,          \* recursion_workers
  Capacity,       \* of the queue of the recursion pool
  NoQuery,
  MaxTtl,         \* the longest that an answer may be cached
  MaxValidation,  \* the longest that the validation of an answer may take
  MaxTime,        \* bound: ticks
  MaxEdition      \* bound: publications of the zones

\* What tells queries apart: it comes over TCP, DoT or DoH; the client is outside
\* allow_recursion; the RD bit is not set; the answer is validated (DO and
\* dnssec_validate); it does not parse or is no standard query; a forwarder may give
\* it an rcode of its own; it makes handle_query panic.
Traits == {"stream", "refused", "iterative", "validated", "unusable", "odd", "poison"}

ASSUME PipelineAssumption ==
  /\ IsFiniteSet(Queries)
  /\ Question \in [Queries -> Questions]
  /\ Profiles \subseteq [Queries -> SUBSET Traits]
  /\ Receivers \in Nat \ {0}
  /\ Capacity \in Nat \ {0}
  /\ NoQuery \notin Queries
  /\ MaxTtl \in Nat \ {0}
  /\ MaxValidation \in Nat
  /\ MaxTime \in Nat
  /\ MaxEdition \in Nat \ {0}

VARIABLES
  trait,      \* trait[q]: the traits of q
  now,
  zones,      \* zones[n]: the publication of the zone that holds n, or 0
  edition,    \* publications so far
  cache,      \* cache[n]: what is cached for n, or Absent
  stage,      \* stage[q]: where query q is
  mode,       \* mode[q]: the Recursion argument handle_query runs q with
  fetched,    \* fetched[q]: what upstream said to the run of q
  answer,     \* answer[q]: what became of q
  metrics,    \* the counters
  verdict, waiting, active, finished,   \* the recursion pool
  seen        \* ghost: what zones said of q since the present run of q began

pool == <<verdict, waiting, active, finished>>
vars == <<trait, now, zones, edition, cache, stage, mode, fetched, answer, metrics,
          pool, seen>>

Pool == INSTANCE JobService WITH Jobs <- Queries, NoJob <- NoQuery

Stages == {"sent", "zones", "cache", "handoff", "pool", "fetch", "deliver", "done"}
\* "other" is what another server said with an rcode that is passed on; "iterative" is
\* the refusal to recurse; "lost" and "failed" are panics, before and after the lookup.
Sources == {"none", "zone", "cache", "upstream", "other", "error", "iterative",
            "dropped", "lost", "failed"}
\* The rcodes that have a counter, the others, and none at all.
Rcodes == {"none", "success", "nxdomain", "servfail", "other"}
Outcomes == {"answer", "other", "bogus", "nxdomain", "servfail"}
Counters == {"queries", "hits", "misses", "success", "nxdomain", "servfail", "timed",
             "dropped"}

Absent == [rcode |-> "none", asked |-> 0, expires |-> 0]
Entry == [rcode : {"none", "success", "nxdomain"}, asked : 0..MaxTime, expires : Nat]
Reply == [kind : Outcomes \cup {"none"}, asked : 0..MaxTime]
NoReply == [kind |-> "none", asked |-> 0]
Without(from) == [from |-> from, rcode |-> "none", edition |-> 0, asked |-> 0]
Nothing == Without("none")
FromZone(e, rcode) == [from |-> "zone", rcode |-> rcode, edition |-> e, asked |-> 0]
Said(from, rcode, time) ==
  [from |-> from, rcode |-> rcode, edition |-> 0, asked |-> time]
Answer ==
  [from : Sources, rcode : Rcodes, edition : 0..MaxEdition, asked : 0..MaxTime]

TypeOK ==
  /\ trait \in Profiles
  /\ now \in 0..MaxTime
  /\ zones \in [Questions -> 0..MaxEdition]
  /\ edition \in 0..MaxEdition
  /\ cache \in [Questions -> Entry]
  /\ stage \in [Queries -> Stages]
  /\ mode \in [Queries -> {"inline", "defer", "resume"}]
  /\ fetched \in [Queries -> Reply]
  /\ answer \in [Queries -> Answer]
  /\ metrics \in [Counters -> Nat]
  /\ verdict \in [Queries -> {"none", "accepted", "refused"}]
  /\ waiting \in Seq(Queries) /\ Len(waiting) <= Capacity
  /\ active \in [Slots -> Queries \cup {NoQuery}]
  /\ finished \subseteq Queries
  /\ seen \in [Queries -> SUBSET (0..MaxEdition)]

Init ==
  /\ trait \in Profiles
  /\ now = 0
  /\ zones \in [Questions -> {0, 1}]
  /\ edition = 1
  /\ cache = [n \in Questions |-> Absent]
  /\ stage = [q \in Queries |-> "sent"]
  /\ mode = [q \in Queries |-> IF "stream" \in trait[q] THEN "inline" ELSE "defer"]
  /\ fetched = [q \in Queries |-> NoReply]
  /\ answer = [q \in Queries |-> Nothing]
  /\ metrics = [c \in Counters |-> 0]
  /\ Pool!Init
  /\ seen = [q \in Queries |-> {}]

Running(q) == stage[q] \in {"zones", "cache", "handoff", "fetch", "deliver"}
Here(q) == zones[Question[q]]

\* Each of the counters in set grows by one.
Counted(set) == [c \in Counters |-> IF c \in set THEN metrics[c] + 1 ELSE metrics[c]]

\* The run of q ends.  On the recursion pool, the job then ends.
Finish(q, a, set) ==
  /\ stage' = [stage EXCEPT ![q] = "done"]
  /\ fetched' = [fetched EXCEPT ![q] = NoReply]
  /\ answer' = [answer EXCEPT ![q] = a]
  /\ metrics' = Counted(set)

-----------------------------------------------------------------------------
(* The environment.                                                         *)

Tick ==
  /\ now < MaxTime
  /\ \A q \in Queries : stage[q] = "deliver" => now - fetched[q].asked < MaxValidation
  /\ now' = now + 1
  /\ UNCHANGED <<trait, zones, edition, cache, stage, mode, fetched, answer,
                 metrics, pool, seen>>

\* A reload publishes new zones, which may hold other names.
Publish(held) ==
  /\ edition < MaxEdition
  /\ edition' = edition + 1
  /\ zones' = [n \in Questions |-> IF n \in held THEN edition + 1 ELSE 0]
  /\ seen' = [q \in Queries |-> IF Running(q) THEN seen[q] \cup {zones'[Question[q]]}
                                              ELSE seen[q]]
  /\ UNCHANGED <<trait, now, cache, stage, mode, fetched, answer, metrics, pool>>

\* Every minute: an entry that get no longer returns is dropped.
Evict ==
  /\ cache' = [n \in Questions |-> IF cache[n].expires > now THEN cache[n] ELSE Absent]
  /\ UNCHANGED <<trait, now, zones, edition, stage, mode, fetched, answer, metrics,
                 pool, seen>>

-----------------------------------------------------------------------------
(* handle_query                                                             *)

\* A receiver takes the datagram, or a connection worker reads the message.
Receive(q) ==
  /\ stage[q] = "sent"
  /\ mode[q] = "defer" =>
       Cardinality({p \in Queries : mode[p] = "defer" /\ Running(p)}) < Receivers
  /\ stage' = [stage EXCEPT ![q] = "zones"]
  /\ metrics' = Counted({"queries"})
  /\ seen' = [seen EXCEPT ![q] = {Here(q)}]
  /\ UNCHANGED <<trait, now, zones, edition, cache, mode, fetched, answer, pool>>

\* FORMERR, NOTIMP, a TSIG refusal, or silence: the zones are never looked at.
Reject(q) ==
  /\ stage[q] = "zones"
  /\ "unusable" \in trait[q]
  /\ Finish(q, Without("error"), {})
  /\ UNCHANGED <<trait, now, zones, edition, cache, mode, pool, seen>>

\* The panic is caught and the query is answered with nothing.
Panic(q) ==
  /\ stage[q] \in {"zones", "deliver"}
  /\ "poison" \in trait[q]
  /\ Finish(q, Without(IF stage[q] = "zones" THEN "lost" ELSE "failed"), {})
  /\ UNCHANGED <<trait, now, zones, edition, cache, mode, pool, seen>>

\* The zones are cloned, and the most specific one answers: records, no data, or that
\* the name does not exist.
AnswerFromZone(q) ==
  /\ stage[q] = "zones"
  /\ "unusable" \notin trait[q]
  /\ Here(q) # 0
  /\ \E rcode \in {"success", "nxdomain"} :
       Finish(q, FromZone(Here(q), rcode), {rcode, "timed"})
  /\ UNCHANGED <<trait, now, zones, edition, cache, mode, pool, seen>>

RefuseClient(q) ==
  /\ stage[q] = "zones"
  /\ "unusable" \notin trait[q]
  /\ Here(q) = 0
  /\ "refused" \in trait[q]
  /\ Finish(q, Without("error"), {})
  /\ UNCHANGED <<trait, now, zones, edition, cache, mode, pool, seen>>

NotAuthoritative(q) ==
  /\ stage[q] = "zones"
  /\ "unusable" \notin trait[q]
  /\ Here(q) = 0
  /\ "refused" \notin trait[q]
  /\ stage' = [stage EXCEPT ![q] = "cache"]
  /\ UNCHANGED <<trait, now, zones, edition, cache, mode, fetched, answer, metrics,
                 pool, seen>>

\* MUTANT of Fresh: an entry is good until it is evicted.
FreshUntilEvicted(q) == cache[Question[q]] # Absent

\* Cache::get returns an entry only before it expires.
Fresh(q) == cache[Question[q]].expires > now

AnswerFromCache(q) ==
  /\ stage[q] = "cache"
  /\ Fresh(q)
  /\ LET e == cache[Question[q]]
     IN  Finish(q, Said("cache", e.rcode, e.asked), {"hits", e.rcode, "timed"})
  /\ UNCHANGED <<trait, now, zones, edition, cache, mode, pool, seen>>

\* MUTANT of Missed: a miss is counted again when the query is resumed.
MissedAgain(q) == {"misses"}

\* A miss is counted when the query is first seen, not when it is resumed.
Missed(q) == IF mode[q] = "resume" THEN {} ELSE {"misses"}

RefuseIterative(q) ==
  /\ stage[q] = "cache"
  /\ ~Fresh(q)
  /\ "iterative" \in trait[q]
  /\ Finish(q, Without("iterative"), Missed(q))
  /\ UNCHANGED <<trait, now, zones, edition, cache, mode, pool, seen>>

Miss(q) ==
  /\ stage[q] = "cache"
  /\ ~Fresh(q)
  /\ "iterative" \notin trait[q]
  /\ metrics' = Counted(Missed(q))
  /\ stage' = [stage EXCEPT ![q] = IF mode[q] = "defer" THEN "handoff" ELSE "fetch"]
  /\ UNCHANGED <<trait, now, zones, edition, cache, mode, fetched, answer, pool,
                 seen>>

-----------------------------------------------------------------------------
(* The recursion pool.                                                      *)

\* MUTANT of Submit: the queue has no bound.
SubmitUnbounded(q) ==
  /\ stage[q] = "handoff"
  /\ verdict' = [verdict EXCEPT ![q] = "accepted"]
  /\ waiting' = Append(waiting, q)
  /\ stage' = [stage EXCEPT ![q] = "pool"]
  /\ UNCHANGED <<trait, now, zones, edition, cache, mode, fetched, answer, metrics,
                 seen, active, finished>>

\* try_send never waits: the receiver goes back to the socket.
Submit(q) ==
  /\ stage[q] = "handoff"
  /\ Pool!Accept(q)
  /\ stage' = [stage EXCEPT ![q] = "pool"]
  /\ UNCHANGED <<trait, now, zones, edition, cache, mode, fetched, answer, metrics,
                 seen>>

\* MUTANT of Shed: the receiver waits for room in the queue.
ShedNever(q) == FALSE /\ UNCHANGED vars

\* The queue is full: the newest query is dropped, and the client retries.
Shed(q) ==
  /\ stage[q] = "handoff"
  /\ Pool!Refuse(q)
  /\ Finish(q, Without("dropped"), {"dropped"})
  /\ UNCHANGED <<trait, now, zones, edition, cache, mode, seen>>

\* MUTANT of Resume: the query goes on where it was deferred.
ResumeAtFetch(s) ==
  LET q == Head(waiting)
  IN  /\ Pool!Begin(s)
      /\ stage' = [stage EXCEPT ![q] = "fetch"]
      /\ mode' = [mode EXCEPT ![q] = "resume"]
      /\ seen' = [seen EXCEPT ![q] = {Here(q)}]
      /\ UNCHANGED <<trait, now, zones, edition, cache, fetched, answer, metrics>>

\* A worker begins the oldest job, which runs handle_query again from the start.
Resume(s) ==
  LET q == Head(waiting)
  IN  /\ Pool!Begin(s)
      /\ stage' = [stage EXCEPT ![q] = "zones"]
      /\ mode' = [mode EXCEPT ![q] = "resume"]
      /\ seen' = [seen EXCEPT ![q] = {Here(q)}]
      /\ UNCHANGED <<trait, now, zones, edition, cache, fetched, answer, metrics>>

EndJob(s) ==
  /\ active[s] # NoQuery
  /\ stage[active[s]] = "done"
  /\ Pool!End(s)
  /\ UNCHANGED <<trait, now, zones, edition, cache, stage, mode, fetched, answer,
                 metrics, seen>>

-----------------------------------------------------------------------------
(* Upstream.                                                                *)

\* The resolver returns: an answer, also one with another rcode, the proof that the
\* name does not exist, or a failure.  A bogus answer is told apart only when the
\* query is validated.
Fetch(q) ==
  /\ stage[q] = "fetch"
  /\ \E kind \in Outcomes :
       /\ kind = "other" => "odd" \in trait[q]
       /\ kind = "bogus" => "validated" \in trait[q]
       /\ fetched' = [fetched EXCEPT ![q] = [kind |-> kind, asked |-> now]]
  /\ stage' = [stage EXCEPT ![q] = "deliver"]
  /\ UNCHANGED <<trait, now, zones, edition, cache, mode, answer, metrics, pool,
                 seen>>

\* insert_positive and insert_negative.  An answer without records, or with a TTL of
\* zero, is not cached; a TTL of zero becomes one second for a name that does not
\* exist.  The rcode of a positive answer is not kept: it is NOERROR from the cache.
Insert(q, rcode, ttl) ==
  cache' = [cache EXCEPT ![Question[q]] =
              [rcode |-> rcode, asked |-> fetched[q].asked, expires |-> now + ttl]]

\* The rcode is passed on, and only NOERROR is counted: a SERVFAIL that another server
\* said is in no rcode counter.
DeliverAnswer(q) ==
  /\ stage[q] = "deliver"
  /\ fetched[q].kind \in {"answer", "other"}
  /\ \E ttl \in 0..MaxTtl :
       IF ttl = 0 THEN UNCHANGED cache ELSE Insert(q, "success", ttl)
  /\ IF fetched[q].kind = "answer"
     THEN Finish(q, Said("upstream", "success", fetched[q].asked), {"success", "timed"})
     ELSE \E rcode \in {"servfail", "other"} :
            Finish(q, Said("other", rcode, fetched[q].asked), {"timed"})
  /\ UNCHANGED <<trait, now, zones, edition, mode, pool, seen>>

DeliverNxDomain(q) ==
  /\ stage[q] = "deliver"
  /\ fetched[q].kind = "nxdomain"
  /\ \E ttl \in 1..MaxTtl : Insert(q, "nxdomain", ttl)
  /\ Finish(q, Said("upstream", "nxdomain", fetched[q].asked), {"nxdomain", "timed"})
  /\ UNCHANGED <<trait, now, zones, edition, mode, pool, seen>>

\* The resolver failed, or the answer is bogus: SERVFAIL, and nothing is cached.
DeliverServFail(q) ==
  /\ stage[q] = "deliver"
  /\ fetched[q].kind \in {"servfail", "bogus"}
  /\ Finish(q, Said("upstream", "servfail", fetched[q].asked), {"servfail", "timed"})
  /\ UNCHANGED <<trait, now, zones, edition, cache, mode, pool, seen>>

-----------------------------------------------------------------------------
\* What a thread does with a query before it waits for upstream.
Handle(q) ==
  \/ Reject(q) \/ Panic(q)
  \/ AnswerFromZone(q) \/ RefuseClient(q) \/ NotAuthoritative(q)
  \/ AnswerFromCache(q) \/ RefuseIterative(q) \/ Miss(q)
  \/ Submit(q) \/ Shed(q)

Next ==
  \/ Tick
  \/ \E held \in SUBSET Questions : Publish(held)
  \/ Evict
  \/ \E q \in Queries :
       \/ Receive(q) \/ Handle(q)
       \/ Fetch(q) \/ DeliverAnswer(q) \/ DeliverNxDomain(q) \/ DeliverServFail(q)
  \/ \E s \in Slots : Resume(s) \/ EndJob(s)

Spec == Init /\ [][Next]_vars

\* Only the receivers are fair: upstream may never answer, and then no job of
\* the recursion pool ends.
FairSpec ==
  /\ Spec
  /\ WF_vars(\E q \in Queries : mode[q] = "defer" /\ Receive(q))
  /\ \A q \in Queries : WF_vars(mode[q] = "defer" /\ Handle(q))

-----------------------------------------------------------------------------
(* Properties.                                                              *)

\* Where an answer comes from that no zone gave.
Learned == {"cache", "upstream", "other"}

\* A run of handle_query answers by zones that were published while it ran, and
\* goes to the cache or upstream only if then no zone held the name; a query
\* that waited in the pool is held to what is published once it is resumed
\* (handle_query, Recursion::Resume).
ReloadVisible ==
  \A q \in Queries :
    /\ answer[q].from = "zone" => answer[q].edition \in seen[q]
    /\ answer[q].from \in Learned => 0 \in seen[q]

\* No answer is older than the caps on caching and on validation allow together
\* (Cache::get, insert_positive).
AnswersFresh ==
  [][\A q \in Queries :
       (stage[q] # "done" /\ answer'[q].from \in Learned)
         => now - answer'[q].asked <= MaxTtl + MaxValidation]_vars

Ended(set) == {q \in Queries : answer[q].from \in set}

\* The queries that the cache did not answer when handle_query first looked there.
PastCache(q) ==
  \/ mode[q] = "resume"
  \/ stage[q] \in {"handoff", "pool", "fetch", "deliver"}
  \/ answer[q].from \in {"upstream", "other", "iterative", "dropped", "failed"}

Given(rcode, set) == {q \in Queries : answer[q].rcode = rcode /\ answer[q].from \in set}

\* Whether a query is deferred, resumed, shed or lost, each counter is the number of
\* the queries it stands for: a query is received once, misses the cache at most once,
\* and is answered, timed, counted by its rcode, or dropped once (metrics.rs).  What
\* the counters do not say: a query that misses and is then answered by the cache
\* after it was resumed is a miss and a hit; and servfail_count is the SERVFAILs of
\* this server alone, since one that another server said is passed on and is in no
\* rcode counter, which the words of metrics.rs and README.md ("SERVFAIL") leave out.
CountersAddUp ==
  /\ metrics["queries"] = Cardinality({q \in Queries : stage[q] # "sent"})
  /\ metrics["misses"] = Cardinality({q \in Queries : PastCache(q)})
  /\ metrics["hits"] = Cardinality(Ended({"cache"}))
  /\ metrics["timed"] = Cardinality(Ended({"zone", "cache", "upstream", "other"}))
  /\ metrics["success"] = Cardinality(Given("success", Sources))
  /\ metrics["nxdomain"] = Cardinality(Given("nxdomain", Sources))
  /\ metrics["servfail"] = Cardinality(Given("servfail", {"upstream"}))
  /\ metrics["dropped"] = Cardinality(Ended({"dropped"}))

\* Receivers never wait for upstream: every datagram is answered, shed or handed
\* to the pool, although no lookup may ever end (udp_receiver, Recursion::Defer).
FastPathFlows ==
  \A q \in Queries :
    (stage[q] = "sent" /\ mode[q] = "defer") ~> stage[q] \in {"pool", "done"}
=============================================================================
