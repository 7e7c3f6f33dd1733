------------------------- MODULE QueryPipelineProofs -------------------------
(***************************************************************************)
(* For any number of queries, receivers, workers and reloads: every run of  *)
(* handle_query answers by zones that were published while it ran, each      *)
(* counter is the number of the queries it stands for, and no answer is older *)
(* than the caps on caching and validation allow.                            *)
(***************************************************************************)
EXTENDS QueryPipeline, FiniteSetTheorems, TLAPS

\* A job waits in the queue exactly once, and nothing has become of it yet.
QueueOK ==
  /\ \A i \in DOMAIN waiting : stage[waiting[i]] = "pool"
  /\ \A i, k \in DOMAIN waiting : waiting[i] = waiting[k] => i = k

\* What a run has seen includes what the zones say now, and that no zone held the
\* name once it is past the zones.
SeenOK ==
  \A q \in Queries :
    /\ Running(q) => Here(q) \in seen[q]
    /\ stage[q] \in {"cache", "handoff", "fetch", "deliver"} => 0 \in seen[q]
    /\ stage[q] # "done" => answer[q] = Nothing

Inv == TypeOK /\ QueueOK /\ SeenOK /\ ReloadVisible

LEMMA InvInit == Init => Inv
<1> SUFFICES ASSUME Init PROVE Inv
  OBVIOUS
<1> USE PipelineAssumption DEF Init, Pool!Init
<1>1. TypeOK
  <2>1. Absent \in Entry /\ NoReply \in Reply /\ Nothing \in Answer
    BY DEF Entry, Absent, Reply, NoReply, Nothing, Without, Answer, Sources, Rcodes
  <2>2. /\ cache \in [Questions -> Entry] /\ fetched \in [Queries -> Reply]
        /\ answer \in [Queries -> Answer]
    BY <2>1
  <2>3. waiting \in Seq(Queries) /\ Len(waiting) <= Capacity
    OBVIOUS
  <2>4. zones \in [Questions -> 0..MaxEdition] /\ edition \in 0..MaxEdition
    OBVIOUS
  <2>5. stage \in [Queries -> Stages] /\ metrics \in [Counters -> Nat]
    BY DEF Stages
  <2> QED BY <2>2, <2>3, <2>4, <2>5 DEF TypeOK
<1>2. QueueOK
  BY DEF QueueOK
<1>3. SeenOK
  BY DEF SeenOK, Running
<1>4. ReloadVisible
  BY DEF ReloadVisible, Nothing, Without, Learned
<1> QED BY <1>1, <1>2, <1>3, <1>4 DEF Inv

-----------------------------------------------------------------------------
(* The steps of one run.                                                    *)

LEMMA CountedType == ASSUME TypeOK, NEW set PROVE Counted(set) \in [Counters -> Nat]
BY DEF TypeOK, Counted

\* A run that is under way ends with an answer that what it has seen allows.
LEMMA InvFinish ==
  ASSUME Inv, NEW q \in Queries, Running(q), NEW a \in Answer, NEW set,
         Finish(q, a, set),
         a.from = "zone" => a.edition \in seen[q],
         a.from \in Learned => 0 \in seen[q],
         cache' \in [Questions -> Entry],
         verdict' \in [Queries -> {"none", "accepted", "refused"}],
         UNCHANGED <<trait, now, zones, edition, mode, seen, waiting, active, finished>>
  PROVE  Inv'
<1>1. /\ stage' = [stage EXCEPT ![q] = "done"]
      /\ fetched' = [fetched EXCEPT ![q] = NoReply]
      /\ answer' = [answer EXCEPT ![q] = a]
      /\ metrics' \in [Counters -> Nat]
  BY CountedType DEF Finish, Inv
<1>2. NoReply \in Reply
  BY PipelineAssumption DEF NoReply, Reply
<1>3. TypeOK'
  BY <1>1, <1>2 DEF Inv, TypeOK, Stages
<1>4. QueueOK'
  <2>1. \A i \in DOMAIN waiting : waiting[i] # q
    BY DEF Inv, QueueOK, Running
  <2> QED BY <1>1, <2>1 DEF Inv, QueueOK, TypeOK
<1>5. SeenOK'
  BY <1>1 DEF Inv, TypeOK, SeenOK, Running, Here
<1>6. ReloadVisible'
  BY <1>1 DEF Inv, TypeOK, ReloadVisible
<1> QED BY <1>3, <1>4, <1>5, <1>6 DEF Inv

\* A run goes on, past the zones only if no zone held the name.
LEMMA InvGoOn ==
  ASSUME Inv, NEW q \in Queries, Running(q),
         NEW st \in {"cache", "handoff", "fetch", "deliver"},
         stage' = [stage EXCEPT ![q] = st], 0 \in seen[q],
         fetched' \in [Queries -> Reply], metrics' \in [Counters -> Nat],
         UNCHANGED <<trait, now, zones, edition, cache, mode, answer, pool, seen>>
  PROVE  Inv'
<1>1. TypeOK'
  BY DEF Inv, TypeOK, Stages, pool
<1>2. QueueOK'
  <2>1. \A i \in DOMAIN waiting : waiting[i] # q
    BY DEF Inv, QueueOK, Running
  <2> QED BY <2>1 DEF Inv, QueueOK, TypeOK, pool
<1>3. SeenOK'
  BY DEF Inv, TypeOK, SeenOK, Running, Here
<1>4. ReloadVisible'
  BY DEF Inv, ReloadVisible
<1> QED BY <1>1, <1>2, <1>3, <1>4 DEF Inv

LEMMA InvReceive ==
  ASSUME Inv, NEW q \in Queries, Receive(q)
  PROVE  Inv'
<1>1. /\ stage[q] = "sent"
      /\ stage' = [stage EXCEPT ![q] = "zones"]
      /\ metrics' \in [Counters -> Nat]
      /\ seen' = [seen EXCEPT ![q] = {Here(q)}]
      /\ UNCHANGED <<trait, now, zones, edition, cache, mode, fetched, answer, pool>>
  BY CountedType DEF Inv, Receive
<1>2. Here(q) \in 0..MaxEdition
  BY PipelineAssumption DEF Inv, TypeOK, Here
<1>3. TypeOK'
  BY <1>1, <1>2 DEF Inv, TypeOK, Stages, pool
<1>4. QueueOK'
  <2>1. \A i \in DOMAIN waiting : waiting[i] # q
    BY <1>1 DEF Inv, QueueOK
  <2> QED BY <1>1, <2>1 DEF Inv, QueueOK, TypeOK, pool
<1>5. SeenOK'
  BY <1>1 DEF Inv, TypeOK, SeenOK, Running, Here
<1>6. ReloadVisible'
  <2>1. answer[q] = Nothing
    BY <1>1 DEF Inv, SeenOK
  <2> QED BY <1>1, <2>1 DEF Inv, TypeOK, ReloadVisible, Nothing, Without, Learned
<1> QED BY <1>3, <1>4, <1>5, <1>6 DEF Inv

-----------------------------------------------------------------------------
(* The recursion pool.                                                      *)

LEMMA InvSubmit ==
  ASSUME Inv, NEW q \in Queries, Submit(q)
  PROVE  Inv'
<1>1. /\ stage[q] = "handoff"
      /\ stage' = [stage EXCEPT ![q] = "pool"]
      /\ verdict' = [verdict EXCEPT ![q] = "accepted"]
      /\ waiting' = Append(waiting, q) /\ Len(waiting) < Capacity
      /\ UNCHANGED <<trait, now, zones, edition, cache, mode, fetched, answer,
                     metrics, seen, active, finished>>
  BY DEF Submit, Pool!Accept
<1>2. waiting \in Seq(Queries)
  BY DEF Inv, TypeOK
<1>3. /\ waiting' \in Seq(Queries)
      /\ Len(waiting') = Len(waiting) + 1 /\ Len(waiting) \in Nat
      /\ DOMAIN waiting' = DOMAIN waiting \cup {Len(waiting) + 1}
      /\ \A i \in DOMAIN waiting : waiting'[i] = waiting[i]
      /\ waiting'[Len(waiting) + 1] = q
  BY <1>1, <1>2
<1>4. TypeOK'
  <2>1. Len(waiting') <= Capacity
    BY <1>1, <1>3, PipelineAssumption
  <2> QED BY <1>1, <1>3, <2>1 DEF Inv, TypeOK, Stages
<1>5. QueueOK'
  <2>1. \A i \in DOMAIN waiting : waiting[i] \in Queries /\ waiting[i] # q
    BY <1>1, <1>2 DEF Inv, QueueOK
  <2>2. \A i \in DOMAIN waiting' : stage'[waiting'[i]] = "pool"
    BY <1>1, <1>3, <2>1 DEF Inv, QueueOK, TypeOK
  <2>3. \A i, k \in DOMAIN waiting' : waiting'[i] = waiting'[k] => i = k
    BY <1>3, <2>1 DEF Inv, QueueOK
  <2> QED BY <2>2, <2>3 DEF QueueOK
<1>6. SeenOK'
  BY <1>1 DEF Inv, TypeOK, SeenOK, Running, Here
<1>7. ReloadVisible'
  BY <1>1 DEF Inv, ReloadVisible
<1> QED BY <1>4, <1>5, <1>6, <1>7 DEF Inv

\* The job that a worker begins has not been answered, so that it may see anew.
LEMMA InvResume ==
  ASSUME Inv, NEW s \in Slots, Resume(s)
  PROVE  Inv'
<1> DEFINE q == Head(waiting)
<1>1. /\ waiting # <<>>
      /\ active' = [active EXCEPT ![s] = q]
      /\ waiting' = Tail(waiting)
      /\ stage' = [stage EXCEPT ![q] = "zones"]
      /\ mode' = [mode EXCEPT ![q] = "resume"]
      /\ seen' = [seen EXCEPT ![q] = {Here(q)}]
      /\ UNCHANGED <<trait, now, zones, edition, cache, fetched, answer, metrics,
                     verdict, finished>>
  BY DEF Resume, Pool!Begin
<1>2. waiting \in Seq(Queries)
  BY DEF Inv, TypeOK
<1>3. /\ q \in Queries /\ q = waiting[1] /\ 1 \in DOMAIN waiting
      /\ waiting' \in Seq(Queries) /\ Len(waiting') <= Len(waiting)
      /\ Len(waiting') \in Nat /\ Len(waiting) \in Nat
      /\ \A i \in DOMAIN waiting' : /\ i \in Nat
                                     /\ i + 1 \in DOMAIN waiting
                                     /\ waiting'[i] = waiting[i + 1]
                                     /\ i + 1 # 1
  BY <1>1, <1>2
<1> HIDE DEF q
<1>4. stage[q] = "pool"
  BY <1>3 DEF Inv, QueueOK
<1>5. Here(q) \in 0..MaxEdition
  BY <1>3, PipelineAssumption DEF Inv, TypeOK, Here
<1>6. TypeOK'
  <2>1. Len(waiting') <= Capacity
    BY <1>3, PipelineAssumption DEF Inv, TypeOK
  <2>2. active' \in [Slots -> Queries \cup {NoQuery}]
    BY <1>1, <1>3 DEF Inv, TypeOK
  <2> QED BY <1>1, <1>3, <1>5, <2>1, <2>2 DEF Inv, TypeOK, Stages
<1>7. QueueOK'
  <2>1. \A i \in DOMAIN waiting' : waiting'[i] # q /\ stage[waiting'[i]] = "pool"
    BY <1>3 DEF Inv, QueueOK
  <2>2. \A i \in DOMAIN waiting' : waiting'[i] \in Queries
    BY <1>3
  <2>3. \A i \in DOMAIN waiting' : stage'[waiting'[i]] = "pool"
    BY <1>1, <2>1, <2>2 DEF Inv, TypeOK
  <2>4. \A i, k \in DOMAIN waiting' : waiting'[i] = waiting'[k] => i = k
    <3> SUFFICES ASSUME NEW i \in DOMAIN waiting', NEW k \in DOMAIN waiting',
                        waiting'[i] = waiting'[k]
                 PROVE  i = k
      OBVIOUS
    <3>1. i + 1 = k + 1
      BY <1>3 DEF Inv, QueueOK
    <3> QED BY <1>3, <3>1
  <2> QED BY <2>3, <2>4 DEF QueueOK
<1>8. SeenOK'
  <2> SUFFICES ASSUME NEW p \in Queries
               PROVE  /\ Running(p)' => Here(p)' \in seen'[p]
                      /\ stage'[p] \in {"cache", "handoff", "fetch", "deliver"}
                           => 0 \in seen'[p]
                      /\ stage'[p] # "done" => answer'[p] = Nothing
    BY DEF SeenOK
  <2>1. CASE p = q
    <3>1. stage'[p] = "zones" /\ seen'[p] = {Here(p)}
      BY <1>1, <1>3, <2>1 DEF Inv, TypeOK
    <3>2. Here(p)' = Here(p) /\ answer'[p] = Nothing
      BY <1>1, <1>3, <1>4, <2>1 DEF Here, Inv, SeenOK
    <3> QED BY <3>1, <3>2
  <2>2. CASE p # q
    <3>1. stage'[p] = stage[p] /\ seen'[p] = seen[p] /\ Here(p)' = Here(p)
      BY <1>1, <1>3, <2>2 DEF Inv, TypeOK, Here
    <3> QED BY <1>1, <3>1 DEF Inv, SeenOK, Running
  <2> QED BY <2>1, <2>2
<1>9. ReloadVisible'
  <2>1. answer[q] = Nothing
    BY <1>3, <1>4 DEF Inv, SeenOK
  <2> QED BY <1>1, <1>3, <2>1 DEF Inv, TypeOK, ReloadVisible, Nothing, Without, Learned
<1> QED BY <1>6, <1>7, <1>8, <1>9 DEF Inv

LEMMA InvEndJob ==
  ASSUME Inv, NEW s \in Slots, EndJob(s)
  PROVE  Inv'
<1>1. /\ active[s] # NoQuery
      /\ finished' = finished \cup {active[s]}
      /\ active' = [active EXCEPT ![s] = NoQuery]
      /\ UNCHANGED <<trait, now, zones, edition, cache, stage, mode, fetched, answer,
                     metrics, seen, verdict, waiting>>
  BY DEF EndJob, Pool!End
<1>2. TypeOK'
  <2>1. active[s] \in Queries
    BY <1>1 DEF Inv, TypeOK
  <2> QED BY <1>1, <2>1 DEF Inv, TypeOK
<1> QED BY <1>1, <1>2 DEF Inv, QueueOK, SeenOK, Running, Here, ReloadVisible

-----------------------------------------------------------------------------
(* The environment.                                                         *)

LEMMA InvTick == Inv /\ Tick => Inv'
<1> SUFFICES ASSUME Inv, Tick PROVE Inv'
  OBVIOUS
<1>1. /\ now' \in 0..MaxTime
      /\ UNCHANGED <<trait, zones, edition, cache, stage, mode, fetched, answer,
                     metrics, verdict, waiting, active, finished, seen>>
  BY PipelineAssumption DEF Tick, Inv, TypeOK, pool
<1> QED BY <1>1 DEF Inv, TypeOK, QueueOK, SeenOK, Running, Here, ReloadVisible

LEMMA InvEvict == Inv /\ Evict => Inv'
<1> SUFFICES ASSUME Inv, Evict PROVE Inv'
  OBVIOUS
<1>1. Absent \in Entry
  BY PipelineAssumption DEF Absent, Entry
<1>2. /\ cache' \in [Questions -> Entry]
      /\ UNCHANGED <<trait, now, zones, edition, stage, mode, fetched, answer,
                     metrics, verdict, waiting, active, finished, seen>>
  BY <1>1 DEF Evict, Inv, TypeOK, pool
<1> QED BY <1>2 DEF Inv, TypeOK, QueueOK, SeenOK, Running, Here, ReloadVisible

LEMMA InvPublish ==
  ASSUME Inv, NEW held \in SUBSET Questions, Publish(held)
  PROVE  Inv'
<1>1. /\ edition' \in 0..MaxEdition /\ edition + 1 \in 0..MaxEdition
      /\ zones' = [n \in Questions |-> IF n \in held THEN edition + 1 ELSE 0]
      /\ seen' = [q \in Queries |->
                   IF Running(q) THEN seen[q] \cup {zones'[Question[q]]} ELSE seen[q]]
      /\ UNCHANGED <<trait, now, cache, stage, mode, fetched, answer, metrics,
                     verdict, waiting, active, finished>>
  BY PipelineAssumption DEF Publish, Inv, TypeOK, pool
<1>2. zones' \in [Questions -> 0..MaxEdition]
  BY <1>1, PipelineAssumption
<1>3. \A q \in Queries : zones'[Question[q]] \in 0..MaxEdition
  BY <1>2, PipelineAssumption
<1>4. \A q \in Queries : seen[q] \subseteq seen'[q]
  BY <1>1
<1>5. seen' \in [Queries -> SUBSET (0..MaxEdition)]
  BY <1>1, <1>3 DEF Inv, TypeOK
<1>6. TypeOK'
  BY <1>1, <1>2, <1>5 DEF Inv, TypeOK
<1>7. QueueOK'
  BY <1>1 DEF Inv, QueueOK
<1>8. SeenOK'
  <2> SUFFICES ASSUME NEW q \in Queries
               PROVE  /\ Running(q)' => Here(q)' \in seen'[q]
                      /\ stage'[q] \in {"cache", "handoff", "fetch", "deliver"}
                           => 0 \in seen'[q]
                      /\ stage'[q] # "done" => answer'[q] = Nothing
    BY DEF SeenOK
  <2>1. Running(q)' => Here(q)' \in seen'[q]
    BY <1>1 DEF Running, Here
  <2>2. stage'[q] \in {"cache", "handoff", "fetch", "deliver"} => 0 \in seen'[q]
    BY <1>1, <1>4 DEF Inv, SeenOK
  <2>3. stage'[q] # "done" => answer'[q] = Nothing
    BY <1>1 DEF Inv, SeenOK
  <2> QED BY <2>1, <2>2, <2>3
<1>9. ReloadVisible'
  BY <1>1, <1>4 DEF Inv, ReloadVisible
<1> QED BY <1>6, <1>7, <1>8, <1>9 DEF Inv

-----------------------------------------------------------------------------
LEMMA InvHandle ==
  ASSUME Inv, NEW q \in Queries, Handle(q)
  PROVE  Inv'
<1> USE PipelineAssumption
<1>1. \A from \in {"error", "iterative", "lost", "failed", "dropped"} :
        Without(from) \in Answer /\ Without(from).from = from
  <2> SUFFICES ASSUME NEW from \in {"error", "iterative", "lost", "failed", "dropped"}
               PROVE  Without(from) \in Answer /\ Without(from).from = from
    OBVIOUS
  <2> QED BY DEF Without, Answer, Sources, Rcodes
<1>3. CASE Reject(q)
  BY <1>1, <1>3, InvFinish DEF Reject, Running, Learned, pool, Inv, TypeOK
<1>4. CASE Panic(q)
  <2>1. PICK from \in {"lost", "failed"} : Finish(q, Without(from), {})
    BY <1>4 DEF Panic
  <2> QED BY <1>1, <1>4, <2>1, InvFinish DEF Panic, Running, Learned, pool, Inv, TypeOK
<1>5. CASE RefuseClient(q)
  BY <1>1, <1>5, InvFinish DEF RefuseClient, Running, Learned, pool, Inv, TypeOK
<1>6. CASE RefuseIterative(q)
  BY <1>1, <1>6, InvFinish DEF RefuseIterative, Running, Learned, pool, Inv, TypeOK
<1>7. CASE Shed(q)
  <2>1. /\ Running(q) /\ Finish(q, Without("dropped"), {"dropped"})
        /\ verdict' = [verdict EXCEPT ![q] = "refused"]
        /\ UNCHANGED <<trait, now, zones, edition, cache, mode, seen, waiting, active,
                       finished>>
    BY <1>7 DEF Shed, Running, Pool!Refuse
  <2>2. /\ verdict' \in [Queries -> {"none", "accepted", "refused"}]
        /\ cache' \in [Questions -> Entry]
    BY <2>1 DEF Inv, TypeOK
  <2> QED BY <1>1, <2>1, <2>2, InvFinish DEF Learned
<1>8. CASE AnswerFromZone(q)
  <2> PICK rcode \in {"success", "nxdomain"} :
             Finish(q, FromZone(Here(q), rcode), {rcode, "timed"})
    BY <1>8 DEF AnswerFromZone
  <2> DEFINE a == FromZone(Here(q), rcode)
  <2>1. Here(q) \in 0..MaxEdition
    BY DEF Inv, TypeOK, Here
  <2>2. a \in Answer /\ a.from = "zone" /\ a.edition = Here(q)
    BY <2>1 DEF FromZone, Answer, Sources, Rcodes
  <2>3. /\ Running(q) /\ Finish(q, a, {rcode, "timed"})
        /\ UNCHANGED <<trait, now, zones, edition, cache, mode, pool, seen>>
    BY <1>8 DEF AnswerFromZone, Running
  <2>4. Here(q) \in seen[q]
    BY <2>3 DEF Inv, SeenOK
  <2> HIDE DEF a
  <2> QED BY <2>2, <2>3, <2>4, InvFinish DEF Learned, pool, Inv, TypeOK
<1>9. CASE AnswerFromCache(q)
  <2> DEFINE e == cache[Question[q]]
             a == Said("cache", e.rcode, e.asked)
  <2>1. e.asked \in 0..MaxTime /\ e.rcode \in Rcodes
    BY DEF Inv, TypeOK, Entry, Rcodes
  <2>2. a \in Answer /\ a.from = "cache"
    BY <2>1 DEF Said, Answer, Sources
  <2>3. /\ Running(q) /\ Finish(q, a, {"hits", e.rcode, "timed"})
        /\ UNCHANGED <<trait, now, zones, edition, cache, mode, pool, seen>>
    BY <1>9 DEF AnswerFromCache, Running
  <2>4. 0 \in seen[q]
    BY <1>9 DEF AnswerFromCache, Inv, SeenOK
  <2> HIDE DEF a
  <2> QED BY <2>2, <2>3, <2>4, InvFinish DEF pool, Inv, TypeOK
<1>10. CASE NotAuthoritative(q)
  <2>1. Running(q) /\ 0 \in seen[q]
    BY <1>10 DEF NotAuthoritative, Running, Inv, SeenOK
  <2> QED BY <1>10, <2>1, InvGoOn DEF NotAuthoritative, Inv, TypeOK
<1>11. CASE Miss(q)
  <2>1. Running(q) /\ 0 \in seen[q]
    BY <1>11 DEF Miss, Running, Inv, SeenOK
  <2>2. metrics' \in [Counters -> Nat]
    BY <1>11, CountedType DEF Miss, Inv
  <2> QED BY <1>11, <2>1, <2>2, InvGoOn DEF Miss, Inv, TypeOK
<1>12. CASE Submit(q)
  BY <1>12, InvSubmit
<1> QED BY <1>3, <1>4, <1>5, <1>6, <1>7, <1>8, <1>9, <1>10, <1>11, <1>12 DEF Handle

LEMMA InvUpstream ==
  ASSUME Inv, NEW q \in Queries,
         Fetch(q) \/ DeliverAnswer(q) \/ DeliverNxDomain(q) \/ DeliverServFail(q)
  PROVE  Inv'
<1> USE PipelineAssumption
<1>1. Running(q) /\ 0 \in seen[q]
  BY DEF Fetch, DeliverAnswer, DeliverNxDomain, DeliverServFail, Running, Inv, SeenOK
<1>2. CASE Fetch(q)
  <2>1. fetched' \in [Queries -> Reply]
    <3>1. PICK kind \in Outcomes :
            fetched' = [fetched EXCEPT ![q] = [kind |-> kind, asked |-> now]]
      BY <1>2 DEF Fetch
    <3>2. [kind |-> kind, asked |-> now] \in Reply
      BY DEF Reply, Inv, TypeOK
    <3> QED BY <3>1, <3>2 DEF Inv, TypeOK
  <2> QED BY <1>1, <1>2, <2>1, InvGoOn DEF Fetch, Inv, TypeOK
<1> DEFINE a(from, rcode) == Said(from, rcode, fetched[q].asked)
<1>3. fetched[q].asked \in 0..MaxTime
  BY DEF Inv, TypeOK, Reply
<1>4. \A from \in {"upstream", "other"}, rcode \in Rcodes :
        a(from, rcode) \in Answer /\ a(from, rcode).from = from
  <2> SUFFICES ASSUME NEW from \in {"upstream", "other"}, NEW rcode \in Rcodes
               PROVE  a(from, rcode) \in Answer /\ a(from, rcode).from = from
    OBVIOUS
  <2> QED BY <1>3 DEF Said, Answer, Sources
<1>5. ASSUME NEW rcode \in {"success", "nxdomain"}, NEW ttl \in 0..MaxTtl,
             Insert(q, rcode, ttl)
      PROVE  cache' \in [Questions -> Entry]
  <2>1. [rcode |-> rcode, asked |-> fetched[q].asked, expires |-> now + ttl] \in Entry
    BY <1>3 DEF Entry, Inv, TypeOK
  <2> QED BY <1>5, <2>1 DEF Insert, Inv, TypeOK
<1>6. ASSUME NEW from \in {"upstream", "other"}, NEW rcode \in Rcodes, NEW set,
             Finish(q, a(from, rcode), set), cache' \in [Questions -> Entry],
             UNCHANGED <<trait, now, zones, edition, mode, pool, seen>>
      PROVE  Inv'
  <2>1. a(from, rcode) \in Answer /\ a(from, rcode).from \in {"upstream", "other"}
    BY <1>4
  <2>2. verdict' \in [Queries -> {"none", "accepted", "refused"}]
    BY <1>6 DEF pool, Inv, TypeOK
  <2> HIDE DEF a
  <2> QED BY <1>1, <1>6, <2>1, <2>2, InvFinish DEF pool
<1>7. CASE DeliverAnswer(q)
  <2>1. cache' \in [Questions -> Entry]
    BY <1>5, <1>7 DEF DeliverAnswer, Inv, TypeOK
  <2>2. PICK from \in {"upstream", "other"}, rcode \in Rcodes, set \in SUBSET Counters :
          Finish(q, a(from, rcode), set)
    BY <1>7 DEF DeliverAnswer, Rcodes, Counters
  <2> QED BY <1>6, <1>7, <2>1, <2>2 DEF DeliverAnswer
<1>8. CASE DeliverNxDomain(q)
  <2>1. cache' \in [Questions -> Entry]
    BY <1>5, <1>8 DEF DeliverNxDomain
  <2> QED BY <1>6, <1>8, <2>1 DEF DeliverNxDomain, Rcodes
<1>9. CASE DeliverServFail(q)
  <2>1. cache' \in [Questions -> Entry]
    BY <1>9 DEF DeliverServFail, Inv, TypeOK
  <2> QED BY <1>6, <1>9, <2>1 DEF DeliverServFail, Rcodes
<1> QED BY <1>2, <1>7, <1>8, <1>9

LEMMA InvNext == Inv /\ [Next]_vars => Inv'
<1> SUFFICES ASSUME Inv, [Next]_vars PROVE Inv'
  OBVIOUS
<1>1. CASE UNCHANGED vars
  BY <1>1 DEF vars, pool, Inv, TypeOK, QueueOK, SeenOK, Running, Here, ReloadVisible
<1> QED BY <1>1, InvTick, InvPublish, InvEvict, InvReceive, InvHandle, InvUpstream,
           InvResume, InvEndJob DEF Next

-----------------------------------------------------------------------------
(* The counters.                                                            *)

CountInv == Inv /\ CountersAddUp

\* Where the answers come from of queries that the cache did not answer.
Beyond == {"upstream", "other", "iterative", "dropped", "failed"}

\* A counter keeps pace with the set of the queries it stands for.
LEMMA KeepsPace ==
  ASSUME Inv, NEW set, metrics' = Counted(set), NEW c \in Counters, NEW q \in Queries,
         NEW P \in SUBSET Queries, NEW P1, metrics[c] = Cardinality(P),
         \/ c \in set /\ q \notin P /\ P1 = P \cup {q}
         \/ c \notin set /\ P1 = P
  PROVE  metrics'[c] = Cardinality(P1)
<1>1. CASE c \in set /\ q \notin P /\ P1 = P \cup {q}
  <2>1. IsFiniteSet(P)
    BY FS_Subset, PipelineAssumption
  <2>2. Cardinality(P1) = Cardinality(P) + 1
    BY <1>1, <2>1, FS_AddElement
  <2> QED BY <1>1, <2>2 DEF Counted
<1>2. CASE c \notin set /\ P1 = P
  BY <1>2 DEF Counted
<1> QED BY <1>1, <1>2

\* A run that ends is counted by its answer, and by no answer before.
LEMMA CountedFinish ==
  ASSUME CountInv, NEW q \in Queries, Running(q), NEW a \in Answer, NEW set,
         Finish(q, a, set), UNCHANGED mode, "queries" \notin set,
         "misses" \in set <=> ~PastCache(q) /\ a.from \in Beyond,
         PastCache(q) => mode[q] = "resume" \/ a.from \in Beyond,
         "hits" \in set <=> a.from = "cache",
         "timed" \in set <=> a.from \in {"zone", "cache", "upstream", "other"},
         "success" \in set <=> a.rcode = "success",
         "nxdomain" \in set <=> a.rcode = "nxdomain",
         "servfail" \in set <=> a.rcode = "servfail" /\ a.from = "upstream",
         "dropped" \in set <=> a.from = "dropped"
  PROVE  CountersAddUp'
<1> USE DEF CountInv
<1>1. metrics' = Counted(set)
  BY DEF Finish
<1>2. /\ answer' = [answer EXCEPT ![q] = a] /\ answer' \in [Queries -> Answer]
      /\ stage' = [stage EXCEPT ![q] = "done"]
  BY DEF Finish, Inv, TypeOK
<1>3. answer[q].from = "none" /\ answer[q].rcode = "none"
  BY DEF Inv, SeenOK, Running, Nothing, Without
<1>4. metrics'["queries"] = Cardinality({p \in Queries : stage'[p] # "sent"})
  <2>1. {p \in Queries : stage'[p] # "sent"} = {p \in Queries : stage[p] # "sent"}
    BY <1>2 DEF Running, Inv, TypeOK
  <2> QED BY <1>1, <2>1 DEF CountersAddUp, Counted, Counters
<1>5. metrics'["misses"] = Cardinality({p \in Queries : PastCache(p)}')
  <2> DEFINE P == {p \in Queries : PastCache(p)}
             P1 == {p \in Queries : PastCache(p)}'
  <2>1. \A p \in Queries : p # q => (PastCache(p)' <=> PastCache(p))
    BY <1>2 DEF PastCache, Inv, TypeOK
  <2>2. PastCache(q)' <=> mode[q] = "resume" \/ a.from \in Beyond
    BY <1>2 DEF PastCache, Beyond, Inv, TypeOK
  <2>3. mode[q] = "resume" => PastCache(q)
    BY DEF PastCache
  <2>4. "misses" \in Counters /\ metrics["misses"] = Cardinality(P)
    BY DEF Counters, CountersAddUp
  <2>5. CASE "misses" \in set
    <3>1. q \notin P /\ P1 = P \cup {q}
      BY <2>1, <2>2, <2>5
    <3> HIDE DEF P, P1
    <3>2. P \in SUBSET Queries
      BY DEF P
    <3> QED BY <1>1, <2>4, <2>5, <3>1, <3>2, KeepsPace DEF P1
  <2>6. CASE "misses" \notin set
    <3>1. P1 = P
      BY <2>1, <2>2, <2>3, <2>6
    <3> HIDE DEF P, P1
    <3>2. P \in SUBSET Queries
      BY DEF P
    <3> QED BY <1>1, <2>4, <2>6, <3>1, <3>2, KeepsPace DEF P1
  <2> QED BY <2>5, <2>6
<1>6. ASSUME NEW c \in Counters, NEW from, "none" \notin from,
             c \in set <=> a.from \in from, metrics[c] = Cardinality(Ended(from))
      PROVE  metrics'[c] = Cardinality(Ended(from)')
  <2>1. Ended(from) \in SUBSET Queries /\ q \notin Ended(from)
    BY <1>3, <1>6 DEF Ended
  <2>2. CASE c \in set
    <3>1. Ended(from)' = Ended(from) \cup {q}
      BY <1>2, <1>6, <2>2 DEF Ended, Inv, TypeOK
    <3> QED BY <1>1, <1>6, <2>1, <2>2, <3>1, KeepsPace
  <2>3. CASE c \notin set
    <3>1. Ended(from)' = Ended(from)
      BY <1>2, <1>3, <1>6, <2>3 DEF Ended, Inv, TypeOK
    <3> QED BY <1>1, <1>6, <2>1, <2>3, <3>1, KeepsPace
  <2> QED BY <2>2, <2>3
<1>7. ASSUME NEW c \in Counters, NEW rcode, rcode # "none", NEW from,
             c \in set <=> a.rcode = rcode /\ a.from \in from,
             metrics[c] = Cardinality(Given(rcode, from))
      PROVE  metrics'[c] = Cardinality(Given(rcode, from)')
  <2>1. Given(rcode, from) \in SUBSET Queries /\ q \notin Given(rcode, from)
    BY <1>3, <1>7 DEF Given
  <2>2. CASE c \in set
    <3>1. Given(rcode, from)' = Given(rcode, from) \cup {q}
      BY <1>2, <1>7, <2>2 DEF Given, Inv, TypeOK
    <3> QED BY <1>1, <1>7, <2>1, <2>2, <3>1, KeepsPace
  <2>3. CASE c \notin set
    <3>1. Given(rcode, from)' = Given(rcode, from)
      BY <1>2, <1>3, <1>7, <2>3 DEF Given, Inv, TypeOK
    <3> QED BY <1>1, <1>7, <2>1, <2>3, <3>1, KeepsPace
  <2> QED BY <2>2, <2>3
<1>8. {"hits", "timed", "success", "nxdomain", "servfail", "dropped"} \subseteq Counters
  BY DEF Counters
<1>9. metrics'["hits"] = Cardinality(Ended({"cache"})')
  BY <1>6, <1>8 DEF CountersAddUp
<1>10. metrics'["timed"] = Cardinality(Ended({"zone", "cache", "upstream", "other"})')
  BY <1>6, <1>8 DEF CountersAddUp
<1>11. metrics'["dropped"] = Cardinality(Ended({"dropped"})')
  BY <1>6, <1>8 DEF CountersAddUp
<1>12. a.from \in Sources
  BY DEF Answer
<1>13. metrics'["success"] = Cardinality(Given("success", Sources)')
  BY <1>7, <1>8, <1>12 DEF CountersAddUp
<1>14. metrics'["nxdomain"] = Cardinality(Given("nxdomain", Sources)')
  BY <1>7, <1>8, <1>12 DEF CountersAddUp
<1>15. metrics'["servfail"] = Cardinality(Given("servfail", {"upstream"})')
  BY <1>7, <1>8 DEF CountersAddUp
<1> QED BY <1>4, <1>5, <1>9, <1>10, <1>11, <1>13, <1>14, <1>15
        DEF CountersAddUp, Ended, Given

\* A step that answers no query, sends none, and takes none past the cache.
LEMMA CountedStill ==
  ASSUME CountInv, UNCHANGED <<answer, metrics>>,
         \A p \in Queries : stage'[p] = "sent" <=> stage[p] = "sent",
         \A p \in Queries : PastCache(p)' <=> PastCache(p)
  PROVE  CountersAddUp'
<1>1. {p \in Queries : stage'[p] # "sent"} = {p \in Queries : stage[p] # "sent"}
  OBVIOUS
<1>2. {p \in Queries : PastCache(p)}' = {p \in Queries : PastCache(p)}
  OBVIOUS
<1> QED BY <1>1, <1>2 DEF CountInv, CountersAddUp, Ended, Given

LEMMA CountedReceive ==
  ASSUME CountInv, NEW q \in Queries, Receive(q)
  PROVE  CountersAddUp'
<1> USE DEF CountInv
<1> DEFINE arrived == {p \in Queries : stage[p] # "sent"}
<1>1. {p \in Queries : stage'[p] # "sent"} = arrived \cup {q}
  BY DEF Receive, Inv, TypeOK
<1>2. q \notin arrived
  BY DEF Receive
<1>3. metrics["queries"] = Cardinality(arrived) /\ metrics' = Counted({"queries"})
  BY DEF Receive, CountersAddUp
<1>4. "queries" \in Counters
  BY DEF Counters
<1> HIDE DEF arrived
<1>5. metrics'["queries"] = Cardinality({p \in Queries : stage'[p] # "sent"})
  <2>1. arrived \in SUBSET Queries
    BY DEF arrived
  <2> QED BY <1>1, <1>2, <1>3, <1>4, <2>1, KeepsPace
<1>6. \A c \in Counters \ {"queries"} : metrics'[c] = metrics[c]
  BY <1>3 DEF Counted
<1>7. {p \in Queries : PastCache(p)}' = {p \in Queries : PastCache(p)}
  BY DEF Receive, PastCache, Inv, TypeOK
<1>8. UNCHANGED answer
  BY DEF Receive
<1> QED BY <1>5, <1>6, <1>7, <1>8 DEF CountersAddUp, Ended, Given, Counters

\* A query goes past the cache, and is counted unless it did so before.
LEMMA CountedMiss ==
  ASSUME CountInv, NEW q \in Queries, Miss(q)
  PROVE  CountersAddUp'
<1> USE DEF CountInv
<1> DEFINE P == {p \in Queries : PastCache(p)}
           P1 == {p \in Queries : PastCache(p)}'
<1>1. /\ stage[q] = "cache" /\ metrics' = Counted(Missed(q))
      /\ \E st \in {"handoff", "fetch"} : stage' = [stage EXCEPT ![q] = st]
      /\ UNCHANGED <<mode, answer>>
  BY DEF Miss
<1>2. answer[q].from = "none"
  BY <1>1 DEF Inv, SeenOK, Nothing, Without
<1>3. PastCache(q) <=> mode[q] = "resume"
  BY <1>1, <1>2 DEF PastCache
<1>4. P1 = P \cup {q}
  <2>1. PastCache(q)'
    BY <1>1 DEF PastCache, Inv, TypeOK
  <2>2. \A p \in Queries : p # q => (PastCache(p)' <=> PastCache(p))
    BY <1>1 DEF PastCache, Inv, TypeOK
  <2> QED BY <2>1, <2>2
<1>5. metrics["misses"] = Cardinality(P)
  BY DEF CountersAddUp
<1>6. P \in SUBSET Queries /\ "misses" \in Counters
  BY DEF Counters
<1>7. \/ "misses" \in Missed(q) /\ q \notin P
      \/ "misses" \notin Missed(q) /\ q \in P
  BY <1>3 DEF Missed
<1>8. metrics'["misses"] = Cardinality({p \in Queries : PastCache(p)}')
  <2> HIDE DEF P, P1
  <2>1. \/ "misses" \in Missed(q) /\ q \notin P /\ P1 = P \cup {q}
        \/ "misses" \notin Missed(q) /\ P1 = P
    BY <1>4, <1>7
  <2>2. metrics'["misses"] = Cardinality(P1)
    BY <1>1, <1>5, <1>6, <2>1, KeepsPace
  <2> QED BY <2>2 DEF P1
<1>9. \A c \in Counters \ {"misses"} : metrics'[c] = metrics[c]
  BY <1>1 DEF Counted, Missed
<1>10. {p \in Queries : stage'[p] # "sent"} = {p \in Queries : stage[p] # "sent"}
  BY <1>1 DEF Inv, TypeOK
<1> QED BY <1>1, <1>8, <1>9, <1>10 DEF CountersAddUp, Ended, Given, Counters

LEMMA CountedHandle ==
  ASSUME CountInv, NEW q \in Queries, Handle(q)
  PROVE  CountersAddUp'
<1> USE DEF CountInv
<1>1. ASSUME NEW from \in {"error", "iterative", "lost", "failed", "dropped"}
      PROVE  /\ Without(from) \in Answer /\ Without(from).from = from
             /\ Without(from).rcode = "none"
  BY PipelineAssumption DEF Without, Answer, Sources, Rcodes
<1>2. /\ stage[q] \in {"zones", "cache"} => (PastCache(q) <=> mode[q] = "resume")
      /\ stage[q] \in {"handoff", "deliver"} => PastCache(q)
  BY DEF PastCache, Inv, SeenOK, Nothing, Without
<1>3. CASE Reject(q) \/ RefuseClient(q)
  <2>1. /\ Running(q) /\ stage[q] = "zones" /\ UNCHANGED mode
        /\ Finish(q, Without("error"), {})
    BY <1>3 DEF Reject, RefuseClient, Running
  <2> QED BY <1>1, <1>2, <2>1, CountedFinish DEF Beyond
<1>4. CASE Panic(q)
  <2>1. Running(q) /\ UNCHANGED mode
    BY <1>4 DEF Panic, Running
  <2>2. CASE stage[q] = "zones"
    <3>1. Finish(q, Without("lost"), {})
      BY <1>4, <2>2 DEF Panic
    <3> QED BY <1>1, <1>2, <2>1, <2>2, <3>1, CountedFinish DEF Beyond
  <2>3. CASE stage[q] = "deliver"
    <3>1. Finish(q, Without("failed"), {})
      BY <1>4, <2>3 DEF Panic
    <3> QED BY <1>1, <1>2, <2>1, <2>3, <3>1, CountedFinish DEF Beyond
  <2> QED BY <1>4, <2>2, <2>3 DEF Panic
<1>5. CASE RefuseIterative(q)
  <2>1. /\ Running(q) /\ stage[q] = "cache" /\ UNCHANGED mode
        /\ Finish(q, Without("iterative"), Missed(q))
    BY <1>5 DEF RefuseIterative, Running
  <2>2. Missed(q) \subseteq {"misses"} /\ ("misses" \in Missed(q) <=> ~PastCache(q))
    BY <1>2, <2>1 DEF Missed
  <2> QED BY <1>1, <2>1, <2>2, CountedFinish DEF Beyond
<1>6. CASE Shed(q)
  <2>1. /\ Running(q) /\ stage[q] = "handoff" /\ UNCHANGED mode
        /\ Finish(q, Without("dropped"), {"dropped"})
    BY <1>6 DEF Shed, Running
  <2> QED BY <1>1, <1>2, <2>1, CountedFinish DEF Beyond
<1>7. CASE AnswerFromZone(q)
  <2> PICK rcode \in {"success", "nxdomain"} :
             Finish(q, FromZone(Here(q), rcode), {rcode, "timed"})
    BY <1>7 DEF AnswerFromZone
  <2> DEFINE a == FromZone(Here(q), rcode)
  <2>1. Here(q) \in 0..MaxEdition
    BY PipelineAssumption DEF Inv, TypeOK, Here
  <2>2. a \in Answer /\ a.from = "zone" /\ a.rcode = rcode
    BY <2>1, PipelineAssumption DEF FromZone, Answer, Sources, Rcodes
  <2>3. /\ Running(q) /\ stage[q] = "zones" /\ UNCHANGED mode
        /\ Finish(q, a, {rcode, "timed"})
    BY <1>7 DEF AnswerFromZone, Running
  <2> HIDE DEF a
  <2> QED BY <1>2, <2>2, <2>3, CountedFinish DEF Beyond
<1>8. CASE AnswerFromCache(q)
  <2> DEFINE e == cache[Question[q]]
             a == Said("cache", e.rcode, e.asked)
  <2>1. e.asked \in 0..MaxTime /\ e.rcode \in {"none", "success", "nxdomain"}
    BY PipelineAssumption DEF Inv, TypeOK, Entry
  <2>2. a \in Answer /\ a.from = "cache" /\ a.rcode = e.rcode
    BY <2>1, PipelineAssumption DEF Said, Answer, Sources, Rcodes
  <2>3. /\ Running(q) /\ stage[q] = "cache" /\ UNCHANGED mode
        /\ Finish(q, a, {"hits", e.rcode, "timed"})
    BY <1>8 DEF AnswerFromCache, Running
  <2> HIDE DEF a, e
  <2> QED BY <1>2, <2>1, <2>2, <2>3, CountedFinish DEF Beyond
<1>9. CASE NotAuthoritative(q) \/ Submit(q)
  <2>1. \/ stage[q] = "zones" /\ stage' = [stage EXCEPT ![q] = "cache"]
        \/ stage[q] = "handoff" /\ stage' = [stage EXCEPT ![q] = "pool"]
    BY <1>9 DEF NotAuthoritative, Submit
  <2>2. UNCHANGED <<mode, answer, metrics>>
    BY <1>9 DEF NotAuthoritative, Submit
  <2>3. \A p \in Queries : stage'[p] = "sent" <=> stage[p] = "sent"
    BY <2>1 DEF Inv, TypeOK
  <2>4. \A p \in Queries : PastCache(p)' <=> PastCache(p)
    BY <2>1, <2>2 DEF PastCache, Inv, TypeOK
  <2> QED BY <2>2, <2>3, <2>4, CountedStill
<1> QED BY <1>3, <1>4, <1>5, <1>6, <1>7, <1>8, <1>9, CountedMiss DEF Handle

LEMMA CountedUpstream ==
  ASSUME CountInv, NEW q \in Queries,
         Fetch(q) \/ DeliverAnswer(q) \/ DeliverNxDomain(q) \/ DeliverServFail(q)
  PROVE  CountersAddUp'
<1> USE DEF CountInv
<1>1. CASE Fetch(q)
  <2>1. /\ stage[q] = "fetch" /\ stage' = [stage EXCEPT ![q] = "deliver"]
        /\ UNCHANGED <<mode, answer, metrics>>
    BY <1>1 DEF Fetch
  <2>2. \A p \in Queries : stage'[p] = "sent" <=> stage[p] = "sent"
    BY <2>1 DEF Inv, TypeOK
  <2>3. \A p \in Queries : PastCache(p)' <=> PastCache(p)
    BY <2>1 DEF PastCache, Inv, TypeOK
  <2> QED BY <2>1, <2>2, <2>3, CountedStill
<1>2. CASE DeliverAnswer(q) \/ DeliverNxDomain(q) \/ DeliverServFail(q)
  <2> DEFINE a(from, rcode) == Said(from, rcode, fetched[q].asked)
  <2>1. fetched[q].asked \in 0..MaxTime
    BY DEF Inv, TypeOK, Reply
  <2>2. ASSUME NEW from \in {"upstream", "other"}, NEW rcode \in Rcodes
        PROVE  /\ a(from, rcode) \in Answer /\ a(from, rcode).from = from
               /\ a(from, rcode).rcode = rcode
    BY <2>1, PipelineAssumption DEF Said, Answer, Sources
  <2>3. Running(q) /\ PastCache(q) /\ UNCHANGED mode
    BY <1>2 DEF DeliverAnswer, DeliverNxDomain, DeliverServFail, Running, PastCache
  <2>4. \/ \E rcode \in {"success", "nxdomain", "servfail"} :
             Finish(q, a("upstream", rcode), {rcode, "timed"})
        \/ \E rcode \in {"servfail", "other"} : Finish(q, a("other", rcode), {"timed"})
    BY <1>2 DEF DeliverAnswer, DeliverNxDomain, DeliverServFail
  <2> HIDE DEF a
  <2>5. CASE \E rcode \in {"success", "nxdomain", "servfail"} :
               Finish(q, a("upstream", rcode), {rcode, "timed"})
    <3>1. PICK rcode \in {"success", "nxdomain", "servfail"} :
            Finish(q, a("upstream", rcode), {rcode, "timed"})
      BY <2>5
    <3> QED BY <2>2, <2>3, <3>1, CountedFinish DEF Beyond, Rcodes
  <2>6. CASE \E rcode \in {"servfail", "other"} : Finish(q, a("other", rcode), {"timed"})
    <3>1. PICK rcode \in {"servfail", "other"} : Finish(q, a("other", rcode), {"timed"})
      BY <2>6
    <3> QED BY <2>2, <2>3, <3>1, CountedFinish DEF Beyond, Rcodes
  <2> QED BY <2>4, <2>5, <2>6
<1> QED BY <1>1, <1>2

LEMMA CountedNext == CountInv /\ [Next]_vars => CountersAddUp'
<1> SUFFICES ASSUME CountInv, [Next]_vars PROVE CountersAddUp'
  OBVIOUS
<1>1. CASE UNCHANGED <<stage, mode, answer, metrics>>
  BY <1>1, CountedStill DEF PastCache
<1>2. CASE UNCHANGED vars \/ Tick \/ Evict \/ \E held \in SUBSET Questions : Publish(held)
  BY <1>1, <1>2 DEF vars, Tick, Evict, Publish
<1>3. ASSUME NEW s \in Slots, Resume(s) PROVE CountersAddUp'
  <2> DEFINE q == Head(waiting)
  <2>1. q \in Queries /\ stage[q] = "pool"
    BY <1>3 DEF Resume, Pool!Begin, CountInv, Inv, TypeOK, QueueOK
  <2>2. /\ stage' = [stage EXCEPT ![q] = "zones"]
        /\ mode' = [mode EXCEPT ![q] = "resume"]
        /\ UNCHANGED <<answer, metrics>>
    BY <1>3 DEF Resume
  <2> HIDE DEF q
  <2>3. \A p \in Queries : stage'[p] = "sent" <=> stage[p] = "sent"
    BY <2>1, <2>2 DEF CountInv, Inv, TypeOK
  <2>4. \A p \in Queries : PastCache(p)' <=> PastCache(p)
    BY <2>1, <2>2 DEF PastCache, CountInv, Inv, TypeOK
  <2> QED BY <2>2, <2>3, <2>4, CountedStill
<1>4. ASSUME NEW s \in Slots, EndJob(s) PROVE CountersAddUp'
  BY <1>1, <1>4 DEF EndJob
<1> QED BY <1>2, <1>3, <1>4, CountedReceive, CountedHandle, CountedUpstream DEF Next

LEMMA CountInit == Init => CountersAddUp
<1> SUFFICES ASSUME Init PROVE CountersAddUp
  OBVIOUS
<1>1. \A from \in SUBSET (Sources \ {"none"}) : Ended(from) = {}
  BY DEF Init, Ended, Nothing, Without
<1>2. \A rcode \in Rcodes \ {"none"}, from \in SUBSET Sources : Given(rcode, from) = {}
  BY DEF Init, Given, Nothing, Without
<1>3. {q \in Queries : stage[q] # "sent"} = {} /\ {q \in Queries : PastCache(q)} = {}
  BY DEF Init, PastCache, Nothing, Without
<1>4. \A c \in Counters : metrics[c] = 0
  BY DEF Init
<1> QED BY <1>1, <1>2, <1>3, <1>4, FS_EmptySet
        DEF CountersAddUp, Counters, Sources, Rcodes

-----------------------------------------------------------------------------
(* The age of answers.                                                      *)

\* An entry expires before what it repeats is too old, and what upstream said is
\* delivered in time.
AgeOK ==
  /\ \A n \in Questions : cache[n].expires <= cache[n].asked + MaxTtl + MaxValidation
  /\ \A q \in Queries : stage[q] = "deliver" =>
       fetched[q].asked <= now /\ now - fetched[q].asked <= MaxValidation

\* What AnswersFresh says of a step.
AgeStep ==
  \A q \in Queries :
    (stage[q] # "done" /\ answer'[q].from \in Learned)
      => now - answer'[q].asked <= MaxTtl + MaxValidation

LEMMA AgeInit == Init => AgeOK
BY PipelineAssumption DEF Init, AgeOK, Absent

\* A run that ends puts nothing into the cache that is too old.
LEMMA AgeFinish ==
  ASSUME Inv, AgeOK, NEW q \in Queries, Running(q), NEW a \in Answer, NEW set,
         Finish(q, a, set), UNCHANGED now,
         a.from \in Learned => now - a.asked <= MaxTtl + MaxValidation,
         \/ UNCHANGED cache
         \/ /\ stage[q] = "deliver"
            /\ \E rcode \in Rcodes, ttl \in 0..MaxTtl : Insert(q, rcode, ttl)
  PROVE  AgeOK' /\ AgeStep
<1>1. AgeStep
  <2> SUFFICES ASSUME NEW p \in Queries, stage[p] # "done",
                      answer'[p].from \in Learned
               PROVE  now - answer'[p].asked <= MaxTtl + MaxValidation
    BY DEF AgeStep
  <2>1. answer[p] = Nothing /\ Nothing.from \notin Learned
    BY DEF Inv, SeenOK, Nothing, Without, Learned
  <2>2. p = q /\ answer'[p] = a
    BY <2>1 DEF Finish, Inv, TypeOK
  <2> QED BY <2>2
<1>2. \A p \in Queries : stage'[p] = "deliver" =>
        stage[p] = "deliver" /\ fetched'[p] = fetched[p]
  BY DEF Finish, Inv, TypeOK
<1>3. \A n \in Questions :
        cache'[n].expires <= cache'[n].asked + MaxTtl + MaxValidation
  <2>1. CASE UNCHANGED cache
    BY <2>1 DEF AgeOK
  <2>2. CASE /\ stage[q] = "deliver"
             /\ \E rcode \in Rcodes, ttl \in 0..MaxTtl : Insert(q, rcode, ttl)
    <3>1. PICK rcode \in Rcodes, ttl \in 0..MaxTtl : Insert(q, rcode, ttl)
      BY <2>2
    <3> DEFINE e == [rcode |-> rcode, asked |-> fetched[q].asked, expires |-> now + ttl]
    <3>2. now \in Nat /\ fetched[q].asked \in Nat
      BY PipelineAssumption DEF Inv, TypeOK, Reply
    <3>3. e.expires <= e.asked + MaxTtl + MaxValidation
      BY <2>2, <3>2, PipelineAssumption DEF AgeOK
    <3>4. cache' = [cache EXCEPT ![Question[q]] = e]
      BY <3>1 DEF Insert
    <3> HIDE DEF e
    <3> QED BY <3>3, <3>4 DEF AgeOK, Inv, TypeOK
  <2> QED BY <2>1, <2>2
<1> QED BY <1>1, <1>2, <1>3 DEF AgeOK

\* A step that answers no query.
LEMMA AgeStill ==
  ASSUME Inv, UNCHANGED answer
  PROVE  AgeStep
BY DEF AgeStep, Inv, SeenOK, Nothing, Without, Learned

LEMMA AgeHandle ==
  ASSUME Inv, AgeOK, NEW q \in Queries, Handle(q)
  PROVE  AgeOK' /\ AgeStep
<1>1. \A from \in {"error", "iterative", "lost", "failed", "dropped"} :
        Without(from) \in Answer /\ Without(from).from = from
  <2> SUFFICES ASSUME NEW from \in {"error", "iterative", "lost", "failed", "dropped"}
               PROVE  Without(from) \in Answer /\ Without(from).from = from
    OBVIOUS
  <2> QED BY PipelineAssumption DEF Without, Answer, Sources, Rcodes
<1>2. CASE Reject(q) \/ Panic(q) \/ RefuseClient(q) \/ RefuseIterative(q) \/ Shed(q)
  <2>1. PICK from \in {"error", "iterative", "lost", "failed", "dropped"},
             set \in SUBSET Counters : Finish(q, Without(from), set)
    <3>1. Missed(q) \subseteq Counters
      BY DEF Missed, Counters
    <3> QED BY <1>2, <3>1
            DEF Reject, Panic, RefuseClient, RefuseIterative, Shed, Counters
  <2>2. Running(q) /\ UNCHANGED <<now, cache>>
    BY <1>2 DEF Reject, Panic, RefuseClient, RefuseIterative, Shed, Running
  <2> QED BY <1>1, <2>1, <2>2, AgeFinish DEF Learned
<1>3. CASE AnswerFromZone(q)
  <2> PICK rcode \in {"success", "nxdomain"} :
             Finish(q, FromZone(Here(q), rcode), {rcode, "timed"})
    BY <1>3 DEF AnswerFromZone
  <2> DEFINE a == FromZone(Here(q), rcode)
  <2>1. Here(q) \in 0..MaxEdition
    BY PipelineAssumption DEF Inv, TypeOK, Here
  <2>2. a \in Answer /\ a.from \notin Learned
    BY <2>1, PipelineAssumption DEF FromZone, Answer, Sources, Rcodes, Learned
  <2>3. Running(q) /\ Finish(q, a, {rcode, "timed"}) /\ UNCHANGED <<now, cache>>
    BY <1>3 DEF AnswerFromZone, Running
  <2> HIDE DEF a
  <2> QED BY <2>2, <2>3, AgeFinish
<1>4. CASE AnswerFromCache(q)
  <2> DEFINE e == cache[Question[q]]
             a == Said("cache", e.rcode, e.asked)
  <2>1. /\ e.asked \in 0..MaxTime /\ e.expires \in Nat /\ now \in 0..MaxTime
        /\ e.rcode \in Rcodes
    BY PipelineAssumption DEF Inv, TypeOK, Entry, Rcodes
  <2>2. now < e.expires /\ e.expires <= e.asked + MaxTtl + MaxValidation
    BY <1>4, PipelineAssumption DEF AnswerFromCache, Fresh, AgeOK
  <2>3. a \in Answer /\ a.asked = e.asked
    BY <2>1, PipelineAssumption DEF Said, Answer, Sources
  <2>4. now - a.asked <= MaxTtl + MaxValidation
    BY <2>1, <2>2, <2>3, PipelineAssumption
  <2>5. /\ Running(q) /\ Finish(q, a, {"hits", e.rcode, "timed"})
        /\ UNCHANGED <<now, cache>>
    BY <1>4 DEF AnswerFromCache, Running
  <2> HIDE DEF a
  <2> QED BY <2>3, <2>4, <2>5, AgeFinish
<1>5. CASE NotAuthoritative(q) \/ Miss(q) \/ Submit(q)
  <2>1. UNCHANGED <<now, cache, fetched, answer>>
    BY <1>5 DEF NotAuthoritative, Miss, Submit
  <2>2. \A p \in Queries : stage'[p] = "deliver" => stage[p] = "deliver"
    BY <1>5 DEF NotAuthoritative, Miss, Submit, Inv, TypeOK
  <2> QED BY <2>1, <2>2, AgeStill DEF AgeOK
<1> QED BY <1>2, <1>3, <1>4, <1>5 DEF Handle

LEMMA AgeUpstream ==
  ASSUME Inv, AgeOK, NEW q \in Queries,
         Fetch(q) \/ DeliverAnswer(q) \/ DeliverNxDomain(q) \/ DeliverServFail(q)
  PROVE  AgeOK' /\ AgeStep
<1>1. now \in Nat /\ fetched[q].asked \in 0..MaxTime
  BY PipelineAssumption DEF Inv, TypeOK, Reply
<1>2. CASE Fetch(q)
  <2>1. PICK kind \in Outcomes :
          fetched' = [fetched EXCEPT ![q] = [kind |-> kind, asked |-> now]]
    BY <1>2 DEF Fetch
  <2>2. fetched'[q].asked = now
    BY <2>1 DEF Inv, TypeOK
  <2>3. UNCHANGED <<now, cache, answer>> /\ stage' = [stage EXCEPT ![q] = "deliver"]
    BY <1>2 DEF Fetch
  <2>4. ASSUME NEW p \in Queries, stage'[p] = "deliver"
        PROVE  fetched'[p].asked <= now' /\ now' - fetched'[p].asked <= MaxValidation
    <3>1. CASE p = q
      BY <1>1, <2>2, <2>3, <3>1, PipelineAssumption
    <3>2. CASE p # q
      BY <2>1, <2>3, <2>4, <3>2 DEF AgeOK, Inv, TypeOK
    <3> QED BY <3>1, <3>2
  <2> QED BY <2>3, <2>4, AgeStill DEF AgeOK
<1>3. CASE DeliverAnswer(q) \/ DeliverNxDomain(q) \/ DeliverServFail(q)
  <2> DEFINE a(from, rcode) == Said(from, rcode, fetched[q].asked)
  <2>1. \A from \in {"upstream", "other"}, rcode \in Rcodes :
          a(from, rcode) \in Answer /\ a(from, rcode).asked = fetched[q].asked
    <3> SUFFICES ASSUME NEW from \in {"upstream", "other"}, NEW rcode \in Rcodes
                 PROVE  /\ a(from, rcode) \in Answer
                        /\ a(from, rcode).asked = fetched[q].asked
      OBVIOUS
    <3> QED BY <1>1, PipelineAssumption DEF Said, Answer, Sources
  <2>2. stage[q] = "deliver" /\ Running(q) /\ UNCHANGED now
    BY <1>3 DEF DeliverAnswer, DeliverNxDomain, DeliverServFail, Running
  <2>3. PICK from \in {"upstream", "other"}, rcode \in Rcodes, set \in SUBSET Counters :
          Finish(q, a(from, rcode), set)
    BY <1>3 DEF DeliverAnswer, DeliverNxDomain, DeliverServFail, Counters, Rcodes
  <2>4. UNCHANGED cache \/ \E rcode1 \in Rcodes, ttl \in 0..MaxTtl : Insert(q, rcode1, ttl)
    BY <1>3, PipelineAssumption
       DEF DeliverAnswer, DeliverNxDomain, DeliverServFail, Rcodes
  <2>5. now - a(from, rcode).asked <= MaxTtl + MaxValidation
    BY <1>1, <2>1, <2>2, PipelineAssumption DEF AgeOK
  <2> HIDE DEF a
  <2> QED BY <2>1, <2>2, <2>3, <2>4, <2>5, AgeFinish
<1> QED BY <1>2, <1>3

LEMMA AgeNext == Inv /\ AgeOK /\ [Next]_vars => AgeOK' /\ AgeStep
<1> SUFFICES ASSUME Inv, AgeOK, [Next]_vars PROVE AgeOK' /\ AgeStep
  OBVIOUS
<1>1. CASE UNCHANGED vars
  BY <1>1, AgeStill DEF vars, AgeOK
<1>2. CASE Tick
  <2>1. UNCHANGED <<cache, stage, fetched, answer>> /\ now' = now + 1
    BY <1>2 DEF Tick
  <2>2. ASSUME NEW q \in Queries, stage[q] = "deliver"
        PROVE  fetched[q].asked <= now' /\ now' - fetched[q].asked <= MaxValidation
    <3>1. now \in Nat /\ fetched[q].asked \in Nat
      BY PipelineAssumption DEF Inv, TypeOK, Reply
    <3>2. fetched[q].asked <= now /\ now - fetched[q].asked < MaxValidation
      BY <1>2, <2>2 DEF Tick, AgeOK
    <3> QED BY <2>1, <3>1, <3>2, PipelineAssumption
  <2> QED BY <2>1, <2>2, AgeStill DEF AgeOK
<1>3. CASE Evict
  <2>1. Absent.expires <= Absent.asked + MaxTtl + MaxValidation
    BY PipelineAssumption DEF Absent
  <2> QED BY <1>3, <2>1, AgeStill DEF Evict, AgeOK
<1>4. CASE \E held \in SUBSET Questions : Publish(held)
  BY <1>4, AgeStill DEF Publish, AgeOK
<1>5. ASSUME NEW q \in Queries, Receive(q) PROVE AgeOK' /\ AgeStep
  BY <1>5, AgeStill DEF Receive, AgeOK, Inv, TypeOK
<1>6. ASSUME NEW s \in Slots, Resume(s) PROVE AgeOK' /\ AgeStep
  BY <1>6, AgeStill DEF Resume, AgeOK, Inv, TypeOK
<1>7. ASSUME NEW s \in Slots, EndJob(s) PROVE AgeOK' /\ AgeStep
  BY <1>7, AgeStill DEF EndJob, AgeOK
<1> QED BY <1>1, <1>2, <1>3, <1>4, <1>5, <1>6, <1>7, AgeHandle, AgeUpstream DEF Next

-----------------------------------------------------------------------------
\* Every reachable state is well-typed, and no more than Capacity queries wait for
\* a recursion worker (udp_receiver).
THEOREM QueueBounded == Spec => []TypeOK
<1>1. Inv => TypeOK
  BY DEF Inv
<1> QED BY InvInit, InvNext, <1>1, PTL DEF Spec

\* Every answer is by zones published while handle_query ran, also when a reload
\* is published between the deferral of a query and its resumption.
THEOREM ReloadsAreVisible == Spec => []ReloadVisible
<1>1. Inv => ReloadVisible
  BY DEF Inv
<1> QED BY InvInit, InvNext, <1>1, PTL DEF Spec

\* Whether a query is deferred, resumed, shed or lost, each counter is the number of
\* the queries it stands for: received, missed by the cache when first looked up,
\* answered by it, timed, answered with NOERROR or NXDOMAIN, failed by this server, and
\* dropped.  A SERVFAIL that another server said is in none of them (metrics.rs,
\* handle_query).
THEOREM CountersAgree == Spec => []CountersAddUp
<1>1. Inv /\ CountersAddUp /\ [Next]_vars => (Inv /\ CountersAddUp)'
  BY InvNext, CountedNext DEF CountInv
<1> QED BY InvInit, CountInit, <1>1, PTL DEF Spec

\* No answer is older than the caps on caching and on validation allow together
\* (Cache::get, insert_positive).
THEOREM AnswersStayFresh == Spec => AnswersFresh
<1>1. Inv /\ AgeOK /\ [Next]_vars => (Inv /\ AgeOK)'
  BY InvNext, AgeNext
<1>2. Inv /\ AgeOK /\ [Next]_vars => [AgeStep]_vars
  BY AgeNext
<1>3. Spec => [][AgeStep]_vars
  BY InvInit, AgeInit, <1>1, <1>2, PTL DEF Spec
<1> QED BY <1>3 DEF AnswersFresh, AgeStep
=============================================================================
