----------------------------- MODULE ThreadPool -----------------------------
(***************************************************************************)
(* threadpool.rs: workers that share the receiving end of a bounded channel *)
(* behind a mutex.  A worker holds the mutex while it waits for a job, so   *)
(* one worker waits at the channel and the other idle ones at the mutex.    *)
(* The connection pool and the recursion pool are two instances.            *)
(***************************************************************************)
EXTENDS Integers, Sequences, FiniteSets

CONSTANTS
  Workers,
  Jobs,
  Capacity,   \* queue_capacity
  Endless,    \* jobs that never end: connections that are kept busy for ever
  NoWorker,
  NoJob

ASSUME PoolAssumption ==
  /\ IsFiniteSet(Workers)
  /\ Workers # {}
  /\ Capacity \in Nat \ {0}
  /\ Endless \subseteq Jobs
  /\ NoWorker \notin Workers
  /\ NoJob \notin Jobs

VARIABLES
  queue,      \* the channel
  mutex,      \* the worker that holds the receiver's lock
  pc,         \* pc[w]: where worker w is in its loop
  job,        \* job[w]: the job that worker w has received
  verdict,    \* verdict[j]: what submit returned for job j last
  finished    \* jobs that have returned or panicked

vars == <<queue, mutex, pc, job, verdict, finished>>

Held == {job[w] : w \in {v \in Workers : job[v] # NoJob}}

TypeOK ==
  /\ queue \in Seq(Jobs)
  /\ Len(queue) <= Capacity
  /\ mutex \in Workers \cup {NoWorker}
  /\ pc \in [Workers -> {"idle", "receiving", "received", "running"}]
  /\ job \in [Workers -> Jobs \cup {NoJob}]
  /\ verdict \in [Jobs -> {"none", "accepted", "refused"}]
  /\ finished \subseteq Jobs

Init ==
  /\ queue = <<>>
  /\ mutex = NoWorker
  /\ pc = [w \in Workers |-> "idle"]
  /\ job = [w \in Workers |-> NoJob]
  /\ verdict = [j \in Jobs |-> "none"]
  /\ finished = {}

\* MUTANT of SubmitAccepted: one job too many fits in.
SubmitPastCapacity(j) ==
  /\ verdict[j] # "accepted"
  /\ Len(queue) <= Capacity
  /\ queue' = Append(queue, j)
  /\ verdict' = [verdict EXCEPT ![j] = "accepted"]
  /\ UNCHANGED <<mutex, pc, job, finished>>

\* submit: the queue has room.  A caller may offer a refused job again.
SubmitAccepted(j) ==
  /\ verdict[j] # "accepted"
  /\ Len(queue) < Capacity
  /\ queue' = Append(queue, j)
  /\ verdict' = [verdict EXCEPT ![j] = "accepted"]
  /\ UNCHANGED <<mutex, pc, job, finished>>

\* submit: the queue is full and the job is dropped.
SubmitRefused(j) ==
  /\ verdict[j] # "accepted"
  /\ Len(queue) >= Capacity
  /\ verdict' = [verdict EXCEPT ![j] = "refused"]
  /\ UNCHANGED <<queue, mutex, pc, job, finished>>

Lock(w) ==
  /\ pc[w] = "idle"
  /\ mutex = NoWorker
  /\ mutex' = w
  /\ pc' = [pc EXCEPT ![w] = "receiving"]
  /\ UNCHANGED <<queue, job, verdict, finished>>

\* MUTANT of Receive: the job stays in the channel.
ReceiveCopy(w) ==
  /\ pc[w] = "receiving"
  /\ queue # <<>>
  /\ job' = [job EXCEPT ![w] = Head(queue)]
  /\ pc' = [pc EXCEPT ![w] = "received"]
  /\ UNCHANGED <<queue, mutex, verdict, finished>>

\* MUTANT of Receive: the newest job is taken first.
ReceiveNewest(w) ==
  /\ pc[w] = "receiving"
  /\ queue # <<>>
  /\ job' = [job EXCEPT ![w] = queue[Len(queue)]]
  /\ queue' = SubSeq(queue, 1, Len(queue) - 1)
  /\ pc' = [pc EXCEPT ![w] = "received"]
  /\ UNCHANGED <<mutex, verdict, finished>>

\* recv() blocks with the mutex held until there is a job.
Receive(w) ==
  /\ pc[w] = "receiving"
  /\ queue # <<>>
  /\ job' = [job EXCEPT ![w] = Head(queue)]
  /\ queue' = Tail(queue)
  /\ pc' = [pc EXCEPT ![w] = "received"]
  /\ UNCHANGED <<mutex, verdict, finished>>

\* The guard is dropped at the end of the block, before the job runs.
Unlock(w) ==
  /\ pc[w] = "received"
  /\ mutex' = NoWorker
  /\ pc' = [pc EXCEPT ![w] = "running"]
  /\ UNCHANGED <<queue, job, verdict, finished>>

\* The job returns, or panics and is caught: the worker goes on either way.
Finish(w) ==
  /\ pc[w] = "running"
  /\ job[w] \notin Endless
  /\ finished' = finished \cup {job[w]}
  /\ job' = [job EXCEPT ![w] = NoJob]
  /\ pc' = [pc EXCEPT ![w] = "idle"]
  /\ UNCHANGED <<queue, mutex, verdict>>

Next ==
  \/ \E j \in Jobs : SubmitAccepted(j) \/ SubmitRefused(j)
  \/ \E w \in Workers : Lock(w) \/ Receive(w) \/ Unlock(w) \/ Finish(w)

Spec == Init /\ [][Next]_vars

\* Some worker gets a free mutex, and a worker that can go on does.  A job
\* outside Endless ends: lookups and socket reads have timeouts.
Fairness ==
  /\ WF_vars(\E w \in Workers : Lock(w))
  /\ \A w \in Workers :
       WF_vars(Receive(w)) /\ WF_vars(Unlock(w)) /\ WF_vars(Finish(w))

FairSpec == Spec /\ Fairness

-----------------------------------------------------------------------------
(* Properties.                                                              *)

Queued == {queue[i] : i \in DOMAIN queue}

\* Every job that submit accepted is in one place only: the queue, the hands
\* of one worker, or done.  None is lost between the channel, the mutex and
\* the loop of a worker, and none is run twice (submit, ThreadPool::new).
AcceptedInOnePlace ==
  /\ {j \in Jobs : verdict[j] = "accepted"} = Queued \cup Held \cup finished
  /\ Queued \cap Held = {}
  /\ (Queued \cup Held) \cap finished = {}
  /\ \A i, k \in DOMAIN queue : queue[i] = queue[k] => i = k
  /\ \A v, w \in Workers : job[v] # NoJob /\ job[v] = job[w] => v = w

\* The pool is the bounded service its callers rely on: a job is refused only
\* while the queue is full, jobs begin in the order accepted, each once.
Service == INSTANCE JobService WITH
  Slots <- Workers, waiting <- queue, active <- job
ServiceSpec == Service!Spec

\* As long as one worker is left that no endless job holds, every other
\* accepted job is run to its end, also when the one before it panicked.
AcceptedJobsEnd ==
  Cardinality(Endless) < Cardinality(Workers) =>
    \A j \in Jobs \ Endless : verdict[j] = "accepted" ~> j \in finished
=============================================================================
