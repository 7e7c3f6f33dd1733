--------------------------- MODULE ThreadPoolProofs ---------------------------
(***************************************************************************)
(* For any number of workers, jobs and any capacity: every accepted job is  *)
(* in one place only, and the pool implements the bounded service.          *)
(***************************************************************************)
EXTENDS Connections, TLAPS

\* A worker has a job exactly while it is past recv(), and the mutex while it
\* is inside the block that locks it.
Loop ==
  /\ \A w \in Workers : job[w] # NoJob <=> pc[w] \in {"received", "running"}
  /\ \A w \in Workers : pc[w] \in {"receiving", "received"} => mutex = w

Inv == TypeOK /\ Loop /\ AcceptedInOnePlace

\* What the head and the rest of a queue without duplicates hold.
LEMMA HeadTail ==
  ASSUME NEW S, NEW q \in Seq(S), q # <<>>,
         \A i, k \in DOMAIN q : q[i] = q[k] => i = k
  PROVE  /\ Head(q) \in S
         /\ Tail(q) \in Seq(S)
         /\ Len(Tail(q)) = Len(q) - 1
         /\ {q[i] : i \in DOMAIN q} =
              {Head(q)} \cup {Tail(q)[i] : i \in DOMAIN Tail(q)}
         /\ Head(q) \notin {Tail(q)[i] : i \in DOMAIN Tail(q)}
         /\ \A i, k \in DOMAIN Tail(q) : Tail(q)[i] = Tail(q)[k] => i = k
<1> DEFINE t == Tail(q)
<1>1. /\ Len(q) \in Nat \ {0}
      /\ DOMAIN q = 1..Len(q)
      /\ Head(q) = q[1]
      /\ t \in Seq(S)
      /\ Len(t) = Len(q) - 1
      /\ DOMAIN t = 1..(Len(q) - 1)
      /\ \A i \in DOMAIN t : t[i] = q[i + 1]
  OBVIOUS
<1> HIDE DEF t
<1>2. \A i \in DOMAIN q : i = 1 \/ (i - 1 \in DOMAIN t /\ t[i - 1] = q[i])
  BY <1>1
<1>3. {q[i] : i \in DOMAIN q} = {Head(q)} \cup {t[i] : i \in DOMAIN t}
  <2>1. \A i \in DOMAIN q : q[i] \in {Head(q)} \cup {t[k] : k \in DOMAIN t}
    BY <1>1, <1>2
  <2>2. \A i \in DOMAIN t : i + 1 \in DOMAIN q /\ t[i] = q[i + 1]
    BY <1>1
  <2>3. 1 \in DOMAIN q
    BY <1>1
  <2> QED BY <1>1, <2>1, <2>2, <2>3
<1>4. Head(q) \notin {t[i] : i \in DOMAIN t}
  <2> SUFFICES ASSUME NEW i \in DOMAIN t, t[i] = Head(q)
               PROVE  FALSE
    OBVIOUS
  <2>1. i + 1 \in DOMAIN q /\ 1 \in DOMAIN q /\ q[i + 1] = q[1] /\ i + 1 # 1
    BY <1>1
  <2> QED BY <2>1
<1>5. \A i, k \in DOMAIN t : t[i] = t[k] => i = k
  <2> SUFFICES ASSUME NEW i \in DOMAIN t, NEW k \in DOMAIN t, t[i] = t[k]
               PROVE  i = k
    OBVIOUS
  <2>1. i + 1 \in DOMAIN q /\ k + 1 \in DOMAIN q /\ q[i + 1] = q[k + 1]
    BY <1>1
  <2>2. i + 1 = k + 1
    BY <2>1
  <2> QED BY <1>1, <2>2
<1>6. Head(q) \in S
  BY <1>1
<1> QED BY <1>1, <1>3, <1>4, <1>5, <1>6 DEF t

\* What a queue holds after a job was put at its end.
LEMMA AppendHolds ==
  ASSUME NEW S, NEW q \in Seq(S), NEW e \in S
  PROVE  /\ Append(q, e) \in Seq(S)
         /\ Len(Append(q, e)) = Len(q) + 1
         /\ {Append(q, e)[i] : i \in DOMAIN Append(q, e)} =
              {q[i] : i \in DOMAIN q} \cup {e}
         /\ e \notin {q[i] : i \in DOMAIN q}
              /\ (\A i, k \in DOMAIN q : q[i] = q[k] => i = k)
            => \A i, k \in DOMAIN Append(q, e) :
                 Append(q, e)[i] = Append(q, e)[k] => i = k
<1> DEFINE a == Append(q, e)
<1>1. /\ a \in Seq(S)
      /\ Len(q) \in Nat
      /\ Len(a) = Len(q) + 1
      /\ DOMAIN q = 1..Len(q)
      /\ DOMAIN a = 1..(Len(q) + 1)
      /\ \A i \in DOMAIN q : a[i] = q[i]
      /\ a[Len(q) + 1] = e
  OBVIOUS
<1> HIDE DEF a
<1>2. \A i \in DOMAIN a : i \in DOMAIN q \/ i = Len(q) + 1
  BY <1>1
<1>3. \A i \in DOMAIN q : i \in DOMAIN a
  BY <1>1
<1>4. Len(q) + 1 \in DOMAIN a
  BY <1>1
<1>5. {a[i] : i \in DOMAIN a} = {q[i] : i \in DOMAIN q} \cup {e}
  BY <1>1, <1>2, <1>3, <1>4
<1>6. ASSUME e \notin {q[i] : i \in DOMAIN q},
             \A i, k \in DOMAIN q : q[i] = q[k] => i = k,
             NEW i \in DOMAIN a, NEW k \in DOMAIN a, a[i] = a[k]
      PROVE  i = k
  <2>1. CASE i \in DOMAIN q /\ k \in DOMAIN q
    BY <1>1, <1>6, <2>1
  <2>2. CASE i = Len(q) + 1 /\ k = Len(q) + 1
    BY <2>2
  <2>3. CASE i \in DOMAIN q /\ k = Len(q) + 1
    BY <1>1, <1>6, <2>3
  <2>4. CASE i = Len(q) + 1 /\ k \in DOMAIN q
    BY <1>1, <1>6, <2>4
  <2> QED BY <1>2, <2>1, <2>2, <2>3, <2>4
<1> QED BY <1>1, <1>5, <1>6 DEF a

-----------------------------------------------------------------------------
LEMMA InvInit == Init => Inv
<1> SUFFICES ASSUME Init
             PROVE  Inv
  OBVIOUS
<1>1. <<>> \in Seq(Jobs) /\ Len(<<>>) = 0 /\ DOMAIN <<>> = {}
  OBVIOUS
<1>2. TypeOK
  BY <1>1, PoolAssumption DEF Init, TypeOK
<1>3. Loop
  BY DEF Init, Loop
<1>4. Queued = {} /\ Held = {} /\ finished = {}
  BY <1>1 DEF Init, Queued, Held
<1>5. AcceptedInOnePlace
  <2>1. {j \in Jobs : verdict[j] = "accepted"} = {}
    BY DEF Init
  <2>2. \A v \in Workers : job[v] = NoJob
    BY DEF Init
  <2>3. DOMAIN queue = {}
    BY <1>1 DEF Init
  <2> QED BY <1>4, <2>1, <2>2, <2>3 DEF AcceptedInOnePlace
<1> QED BY <1>2, <1>3, <1>5 DEF Inv

LEMMA SubmitAcceptedKeepsInv ==
  ASSUME Inv, NEW j \in Jobs, SubmitAccepted(j)
  PROVE  Inv'
<1> USE DEF Inv
<1>1. /\ queue \in Seq(Jobs)
      /\ queue' = Append(queue, j)
      /\ UNCHANGED <<mutex, pc, job, finished>>
  BY DEF TypeOK, SubmitAccepted
<1>2. j \notin Queued \cup Held \cup finished
  BY DEF SubmitAccepted, AcceptedInOnePlace
<1>3. /\ queue' \in Seq(Jobs)
      /\ Len(queue') = Len(queue) + 1
      /\ Queued' = Queued \cup {j}
      /\ \A i, k \in DOMAIN queue' : queue'[i] = queue'[k] => i = k
  <2>1. /\ j \notin {queue[i] : i \in DOMAIN queue}
        /\ \A i, k \in DOMAIN queue : queue[i] = queue[k] => i = k
    BY <1>2 DEF AcceptedInOnePlace, Queued
  <2> QED BY <1>1, <2>1, AppendHolds DEF Queued
<1>4. Held' = Held
  BY <1>1 DEF Held
<1>5. TypeOK'
  BY <1>1, <1>3, PoolAssumption DEF TypeOK, SubmitAccepted
<1>6. Loop'
  BY <1>1 DEF Loop
<1>7. {i \in Jobs : verdict'[i] = "accepted"}
        = {i \in Jobs : verdict[i] = "accepted"} \cup {j}
  BY DEF SubmitAccepted, TypeOK
<1>8. AcceptedInOnePlace'
  BY <1>1, <1>2, <1>3, <1>4, <1>7 DEF AcceptedInOnePlace
<1> QED BY <1>5, <1>6, <1>8

LEMMA SubmitRefusedKeepsInv ==
  ASSUME Inv, NEW j \in Jobs, SubmitRefused(j)
  PROVE  Inv'
<1> USE DEF Inv
<1>1. UNCHANGED <<queue, mutex, pc, job, finished>>
  BY DEF SubmitRefused
<1>2. Queued' = Queued /\ Held' = Held
  BY <1>1 DEF Queued, Held
<1>3. {i \in Jobs : verdict'[i] = "accepted"}
        = {i \in Jobs : verdict[i] = "accepted"}
  BY DEF SubmitRefused, TypeOK
<1>4. TypeOK'
  BY <1>1 DEF TypeOK, SubmitRefused
<1> QED BY <1>1, <1>2, <1>3, <1>4 DEF Loop, AcceptedInOnePlace

LEMMA LockKeepsInv ==
  ASSUME Inv, NEW w \in Workers, Lock(w)
  PROVE  Inv'
<1> USE DEF Inv
<1>1. UNCHANGED <<queue, job, verdict, finished>>
  BY DEF Lock
<1>2. Queued' = Queued /\ Held' = Held
  BY <1>1 DEF Queued, Held
<1>3. TypeOK'
  BY <1>1 DEF TypeOK, Lock
<1>4. Loop'
  BY PoolAssumption DEF Loop, Lock, TypeOK
<1> QED BY <1>1, <1>2, <1>3, <1>4 DEF AcceptedInOnePlace

LEMMA UnlockKeepsInv ==
  ASSUME Inv, NEW w \in Workers, Unlock(w)
  PROVE  Inv'
<1> USE DEF Inv
<1>1. UNCHANGED <<queue, job, verdict, finished>>
  BY DEF Unlock
<1>2. Queued' = Queued /\ Held' = Held
  BY <1>1 DEF Queued, Held
<1>3. TypeOK'
  BY <1>1 DEF TypeOK, Unlock
<1>4. Loop'
  BY PoolAssumption DEF Loop, Unlock, TypeOK
<1> QED BY <1>1, <1>2, <1>3, <1>4 DEF AcceptedInOnePlace

\* What a worker that receives a job takes from where.
LEMMA ReceiveFacts ==
  ASSUME Inv, NEW w \in Workers, Receive(w)
  PROVE  /\ Head(queue) \in Jobs
         /\ queue' \in Seq(Jobs)
         /\ Len(queue') = Len(queue) - 1
         /\ Queued = {Head(queue)} \cup Queued'
         /\ Head(queue) \notin Queued'
         /\ \A i, k \in DOMAIN queue' : queue'[i] = queue'[k] => i = k
         /\ Head(queue) \notin Held \cup finished
         /\ Held' = Held \cup {Head(queue)}
<1> USE DEF Inv
<1>1. queue \in Seq(Jobs) /\ queue # <<>> /\ queue' = Tail(queue)
  BY DEF TypeOK, Receive
<1>2. \A i, k \in DOMAIN queue : queue[i] = queue[k] => i = k
  BY DEF AcceptedInOnePlace
<1>3. /\ Head(queue) \in Jobs
      /\ queue' \in Seq(Jobs)
      /\ Len(queue') = Len(queue) - 1
      /\ Queued = {Head(queue)} \cup Queued'
      /\ Head(queue) \notin Queued'
      /\ \A i, k \in DOMAIN queue' : queue'[i] = queue'[k] => i = k
  <2> DEFINE q == queue
             t == Tail(q)
  <2>1. /\ Head(q) \in Jobs
        /\ t \in Seq(Jobs)
        /\ Len(t) = Len(q) - 1
        /\ {q[i] : i \in DOMAIN q} =
             {Head(q)} \cup {t[i] : i \in DOMAIN t}
        /\ Head(q) \notin {t[i] : i \in DOMAIN t}
        /\ \A i, k \in DOMAIN t : t[i] = t[k] => i = k
    BY <1>1, <1>2, HeadTail
  <2>2. queue' = t
    BY <1>1
  <2> HIDE DEF t
  <2>3. Queued' = {t[i] : i \in DOMAIN t}
    BY <2>2 DEF Queued
  <2> QED BY <2>1, <2>2, <2>3 DEF Queued
<1>4. Head(queue) \notin Held \cup finished
  BY <1>3 DEF AcceptedInOnePlace
<1>5. job[w] = NoJob
  BY DEF Loop, Receive
<1>6. job' = [job EXCEPT ![w] = Head(queue)] /\ job \in [Workers -> Jobs \cup {NoJob}]
  BY DEF Receive, TypeOK
<1>7. Held' = Held \cup {Head(queue)}
  BY <1>3, <1>5, <1>6, PoolAssumption DEF Held
<1> QED BY <1>3, <1>4, <1>7

LEMMA ReceiveKeepsInv ==
  ASSUME Inv, NEW w \in Workers, Receive(w)
  PROVE  Inv'
<1> USE DEF Inv
<1> DEFINE h == Head(queue)
<1>1. /\ h \in Jobs
      /\ queue' \in Seq(Jobs)
      /\ Len(queue') = Len(queue) - 1
      /\ Queued = {h} \cup Queued'
      /\ h \notin Queued'
      /\ \A i, k \in DOMAIN queue' : queue'[i] = queue'[k] => i = k
      /\ h \notin Held \cup finished
      /\ Held' = Held \cup {h}
  BY ReceiveFacts
<1>2. /\ job' = [job EXCEPT ![w] = h]
      /\ pc' = [pc EXCEPT ![w] = "received"]
      /\ pc[w] = "receiving"
      /\ UNCHANGED <<mutex, verdict, finished>>
  BY DEF Receive
<1> HIDE DEF h
<1>3. TypeOK'
  <2>1. queue \in Seq(Jobs) /\ Len(queue) <= Capacity /\ Len(queue) \in Nat
    BY DEF TypeOK
  <2>2. Len(queue') <= Capacity
    BY <1>1, <2>1, PoolAssumption
  <2> QED BY <1>1, <1>2, <2>2 DEF TypeOK
<1>4. Loop'
  BY <1>1, <1>2, PoolAssumption DEF Loop, TypeOK
<1>5. \A u, v \in Workers : job'[u] # NoJob /\ job'[u] = job'[v] => u = v
  <2>1. \A v \in Workers : job[v] # NoJob => job[v] \in Held
    BY DEF Held
  <2>2. \A u, v \in Workers : job[u] # NoJob /\ job[u] = job[v] => u = v
    BY DEF AcceptedInOnePlace
  <2>3. \A v \in Workers : job'[v] = IF v = w THEN h ELSE job[v]
    BY <1>2 DEF TypeOK
  <2>4. h # NoJob
    BY <1>1, PoolAssumption
  <2> QED BY <1>1, <2>1, <2>2, <2>3, <2>4
<1>6. AcceptedInOnePlace'
  <2>1. {j \in Jobs : verdict'[j] = "accepted"} = Queued' \cup Held' \cup finished'
    BY <1>1, <1>2 DEF AcceptedInOnePlace
  <2>2. Queued' \cap Held' = {} /\ (Queued' \cup Held') \cap finished' = {}
    BY <1>1, <1>2 DEF AcceptedInOnePlace
  <2> QED BY <1>1, <1>5, <2>1, <2>2 DEF AcceptedInOnePlace
<1> QED BY <1>3, <1>4, <1>6

LEMMA FinishFacts ==
  ASSUME Inv, NEW w \in Workers, Finish(w)
  PROVE  /\ job[w] \in Held
         /\ job[w] \in Jobs
         /\ Held' = Held \ {job[w]}
<1> USE DEF Inv
<1>1. job[w] # NoJob /\ job[w] \in Jobs
  BY DEF Loop, Finish, TypeOK
<1>2. \A v \in Workers : job'[v] = IF v = w THEN NoJob ELSE job[v]
  BY DEF Finish, TypeOK
<1>3. \A u, v \in Workers : job[u] # NoJob /\ job[u] = job[v] => u = v
  BY DEF AcceptedInOnePlace
<1>4. Held' = Held \ {job[w]}
  BY <1>1, <1>2, <1>3 DEF Held
<1>5. job[w] \in Held
  BY <1>1 DEF Held
<1> QED BY <1>1, <1>4, <1>5

LEMMA FinishKeepsInv ==
  ASSUME Inv, NEW w \in Workers, Finish(w)
  PROVE  Inv'
<1> USE DEF Inv
<1>1. job[w] \in Held /\ job[w] \in Jobs /\ Held' = Held \ {job[w]}
  BY FinishFacts
<1>2. /\ finished' = finished \cup {job[w]}
      /\ job' = [job EXCEPT ![w] = NoJob]
      /\ pc' = [pc EXCEPT ![w] = "idle"]
      /\ pc[w] = "running"
      /\ UNCHANGED <<queue, mutex, verdict>>
  BY DEF Finish
<1>3. Queued' = Queued
  BY <1>2 DEF Queued
<1>4. TypeOK'
  BY <1>1, <1>2 DEF TypeOK
<1>5. Loop'
  BY <1>2 DEF Loop, TypeOK
<1>6. \A u, v \in Workers : job'[u] # NoJob /\ job'[u] = job'[v] => u = v
  BY <1>2 DEF AcceptedInOnePlace, TypeOK
<1>7. AcceptedInOnePlace'
  BY <1>1, <1>2, <1>3, <1>6 DEF AcceptedInOnePlace
<1> QED BY <1>4, <1>5, <1>7

LEMMA InvNext == Inv /\ [Next]_vars => Inv'
<1> SUFFICES ASSUME Inv, [Next]_vars
             PROVE  Inv'
  OBVIOUS
<1>1. ASSUME NEW j \in Jobs, SubmitAccepted(j)
      PROVE  Inv'
  BY <1>1, SubmitAcceptedKeepsInv
<1>2. ASSUME NEW j \in Jobs, SubmitRefused(j)
      PROVE  Inv'
  BY <1>2, SubmitRefusedKeepsInv
<1>3. ASSUME NEW w \in Workers, Lock(w) \/ Receive(w) \/ Unlock(w) \/ Finish(w)
      PROVE  Inv'
  BY <1>3, LockKeepsInv, ReceiveKeepsInv, UnlockKeepsInv, FinishKeepsInv
<1>4. CASE UNCHANGED vars
  <2>1. UNCHANGED <<queue, mutex, pc, job, verdict, finished>>
    BY <1>4 DEF vars
  <2>2. Queued' = Queued /\ Held' = Held
    BY <2>1 DEF Queued, Held
  <2> QED BY <2>1, <2>2 DEF Inv, TypeOK, Loop, AcceptedInOnePlace
<1> QED BY <1>1, <1>2, <1>3, <1>4 DEF Next

LEMMA InvHolds == Spec => []Inv
BY InvInit, InvNext, PTL DEF Spec

\* No accepted job is ever lost or held twice, whatever the interleaving of
\* callers and workers (ThreadPool::submit and the worker loop).
THEOREM NoJobLost == Spec => []AcceptedInOnePlace
<1>1. Inv => AcceptedInOnePlace
  BY DEF Inv
<1> QED BY <1>1, InvHolds, PTL

-----------------------------------------------------------------------------
LEMMA ServiceInit == Init => Service!Init
BY DEF Init, Service!Init

LEMMA ServiceNext ==
  Inv /\ [Next]_vars => [Service!Next]_(Service!vars)
<1> SUFFICES ASSUME Inv, [Next]_vars
             PROVE  [Service!Next]_(Service!vars)
  OBVIOUS
<1> USE DEF Service!vars
<1>1. queue \in Seq(Jobs) /\ Len(queue) \in Nat /\ Len(queue) <= Capacity
  BY DEF Inv, TypeOK
<1>2. ASSUME NEW j \in Jobs, SubmitAccepted(j)
      PROVE  Service!Accept(j)
  BY <1>2 DEF SubmitAccepted, Service!Accept
<1>3. ASSUME NEW j \in Jobs, SubmitRefused(j)
      PROVE  Service!Refuse(j)
  BY <1>1, <1>3, PoolAssumption DEF SubmitRefused, Service!Refuse
<1>4. ASSUME NEW w \in Workers, Lock(w) \/ Unlock(w)
      PROVE  UNCHANGED Service!vars
  BY <1>4 DEF Lock, Unlock
<1>5. ASSUME NEW w \in Workers, Receive(w)
      PROVE  Service!Begin(w)
  <2>1. job[w] = NoJob
    BY <1>5 DEF Inv, Loop, Receive
  <2> QED BY <1>5, <2>1 DEF Receive, Service!Begin
<1>6. ASSUME NEW w \in Workers, Finish(w)
      PROVE  Service!End(w)
  <2>1. job[w] # NoJob
    BY <1>6 DEF Inv, Loop, Finish
  <2> QED BY <1>6, <2>1 DEF Finish, Service!End
<1>7. CASE UNCHANGED vars
  BY <1>7 DEF vars
<1> QED BY <1>2, <1>3, <1>4, <1>5, <1>6, <1>7 DEF Next, Service!Next

\* The pool implements the bounded service: first in, first begun, each job
\* once, refusals only while the queue is full (threadpool.rs).
THEOREM PoolImplementsService == Spec => ServiceSpec
<1>1. Init => Service!Init
  BY ServiceInit
<1>2. Inv /\ [Next]_vars => [Service!Next]_(Service!vars)
  BY ServiceNext
<1> QED BY <1>1, <1>2, InvHolds, PTL DEF Spec, ServiceSpec, Service!Spec

-----------------------------------------------------------------------------
(* The connection pool.                                                     *)

\* Whatever listeners, clients and handlers do, the pool sees a submission, a
\* step of a worker or nothing.
LEMMA ConnectionStep == [ConnNext]_connVars => [Next]_vars
<1> SUFFICES ASSUME [ConnNext]_connVars PROVE Next \/ UNCHANGED vars
  OBVIOUS
<1>1. ASSUME NEW l \in Loops,
             StartListener(l) \/ FailToStart(l) \/ StopListener(l) \/ Wake(l)
      PROVE  UNCHANGED vars
  BY <1>1 DEF StartListener, FailToStart, StopListener, Wake
<1>2. ASSUME StartReceivers \/ LoseReceiver \/ JoinReceivers PROVE UNCHANGED vars
  BY <1>2 DEF StartReceivers, LoseReceiver, JoinReceivers
<1>3. ASSUME NEW j \in Jobs, Send(j) PROVE UNCHANGED vars
  BY <1>3 DEF Send
<1>4. ASSUME NEW j \in Jobs, Accept(j) PROVE Next
  BY <1>4 DEF Accept, Next
<1>5. ASSUME NEW w \in Workers, Take(w) PROVE Next
  BY <1>5 DEF Take, Next
<1>6. ASSUME NEW w \in Workers, Answer(w) PROVE UNCHANGED vars
  BY <1>6 DEF Answer
<1>7. ASSUME NEW w \in Workers, EndOfQueries(w) \/ BreakOff(w) \/ AnswerOnce(w)
      PROVE  Next
  BY <1>7 DEF EndOfQueries, BreakOff, AnswerOnce, Close, Next
<1>8. CASE UNCHANGED connVars
  BY <1>8 DEF connVars
<1> HIDE DEF Loops
<1> QED BY <1>1, <1>2, <1>3, <1>4, <1>5, <1>6, <1>7, <1>8 DEF ConnNext

\* The connection pool under its listeners, clients and handlers is the bounded
\* service: a connection is refused only while the queue is full, connections are
\* begun in the order in which they were accepted, each once (server.rs).
THEOREM ConnectionsAreServed == ConnSpec => ServiceSpec
<1>1. ConnInit => Init
  BY DEF ConnInit
<1>2. ConnSpec => Spec
  BY <1>1, ConnectionStep, PTL DEF ConnSpec, Spec
<1> QED BY <1>2, PoolImplementsService
LEMMA ConnectionInvariant == ConnSpec => []Inv
<1>1. ConnInit => Init
  BY DEF ConnInit
<1> QED BY <1>1, ConnectionStep, InvHolds, PTL DEF ConnSpec, Spec

\* What ConnectionsOK says beyond the pool itself: supervised loops, receivers and
\* the queries on the wire.
Around ==
  /\ loop \in [Loops -> {"starting", "up", "sleeping"}]
  /\ delay \in [Loops -> 1..MaxDelay]
  /\ alive \subseteq Receivers
  /\ inbox \in [Jobs -> 0..MaxPipelined]
  /\ budget \in [Jobs -> 0..MaxQueries]
  /\ faults \in 0..MaxFaults
  /\ QueriesOK

LEMMA AroundInit == ConnInit => Around
BY ConnectionAssumption DEF ConnInit, Around, QueriesOK

LEMMA LoopsKeepAround ==
  ASSUME Around, NEW l \in Loops,
         StartListener(l) \/ FailToStart(l) \/ StopListener(l) \/ Wake(l)
  PROVE  Around'
<1>1. MaxDelay \in Nat \ {0} /\ MaxFaults \in Nat /\ faults \in 0..MaxFaults
  BY ConnectionAssumption DEF Around
<1>2. CASE StartListener(l)
  BY <1>2 DEF StartListener, Around, QueriesOK, wire, vars
<1>3. CASE FailToStart(l)
  BY <1>1, <1>3 DEF FailToStart, Fault, Around, QueriesOK, wire, vars
<1>4. CASE StopListener(l)
  <2>1. PICK long \in BOOLEAN : delay' = [delay EXCEPT ![l] = Delayed(l, long)]
    BY <1>4 DEF StopListener
  <2>2. Delayed(l, long) \in 1..MaxDelay
    BY <1>1 DEF Around, Delayed
  <2> QED BY <1>1, <1>4, <2>1, <2>2 DEF StopListener, Fault, Around, QueriesOK, wire, vars
<1>5. CASE Wake(l)
  <2>1. Least(2 * delay[l], MaxDelay) \in 1..MaxDelay
    <3>1. delay[l] \in 1..MaxDelay
      BY DEF Around
    <3> QED BY <1>1, <3>1 DEF Least
  <2> QED BY <1>5, <2>1 DEF Wake, Around, QueriesOK, wire, vars
<1> QED BY <1>2, <1>3, <1>4, <1>5

LEMMA ReceiversKeepAround ==
  ASSUME Around, StartReceivers \/ LoseReceiver \/ JoinReceivers
  PROVE  Around'
<1>1. MaxDelay \in Nat \ {0} /\ MaxFaults \in Nat /\ faults \in 0..MaxFaults
      /\ Udp \in Loops
  BY ConnectionAssumption DEF Around, Loops
<1>2. CASE StartReceivers
  BY <1>1, <1>2 DEF StartReceivers, Fault, Around, QueriesOK, wire, vars
<1>3. CASE LoseReceiver
  BY <1>1, <1>3 DEF LoseReceiver, Fault, Around, QueriesOK, wire, vars
<1>4. CASE JoinReceivers
  <2>1. PICK long \in BOOLEAN : delay' = [delay EXCEPT ![Udp] = Delayed(Udp, long)]
    BY <1>4 DEF JoinReceivers
  <2>2. Delayed(Udp, long) \in 1..MaxDelay
    BY <1>1 DEF Around, Delayed
  <2> QED BY <1>1, <1>4, <2>1, <2>2 DEF JoinReceivers, Around, QueriesOK, wire, vars
<1> QED BY <1>2, <1>3, <1>4

\* A query that is sent takes the place of one that may still be sent, and a closed
\* connection has none left.
LEMMA QueriesKeepAround ==
  ASSUME Inv, Around,
         \/ \E j \in Jobs : Send(j) \/ Accept(j)
         \/ \E w \in Workers :
              Take(w) \/ Answer(w) \/ EndOfQueries(w) \/ BreakOff(w) \/ AnswerOnce(w)
  PROVE  Around'
<1>1. MaxPipelined \in Nat /\ MaxQueries \in Nat
  BY ConnectionAssumption
<1>2. ASSUME NEW j \in Jobs, Send(j) PROVE Around'
  <2>1. inbox[j] \in 0..MaxPipelined /\ budget[j] \in 0..MaxQueries
    BY DEF Around
  <2>2. inbox[j] + 1 \in 0..MaxPipelined
    BY <1>1, <1>2, <2>1 DEF Send
  <2>3. budget' \in [Jobs -> 0..MaxQueries]
    BY <1>1, <1>2, <2>1 DEF Send, Around
  <2>4. /\ inbox' = [inbox EXCEPT ![j] = @ + 1]
        /\ verdict[j] = "accepted" /\ j \notin finished
        /\ UNCHANGED <<verdict, finished>>
    BY <1>2 DEF Send, vars
  <2>5. \A i \in Jobs : verdict'[i] # "accepted" \/ i \in finished' => inbox'[i] = 0
    BY <2>4 DEF Around, QueriesOK
  <2>6. ASSUME NEW i \in Jobs \ Endless PROVE inbox'[i] + budget'[i] <= MaxQueries
    <3>1. CASE i = j
      <4>1. budget' = [budget EXCEPT ![j] = @ - 1]
        BY <1>2, <2>6, <3>1 DEF Send
      <4>2. inbox'[i] = inbox[i] + 1 /\ budget'[i] = budget[i] - 1
        BY <2>4, <3>1, <4>1 DEF Around
      <4> QED BY <1>1, <2>1, <3>1, <4>2 DEF Around, QueriesOK
    <3>2. CASE i # j
      <4>1. inbox'[i] = inbox[i] /\ budget'[i] = budget[i]
        BY <1>2, <2>4, <3>2 DEF Send, Around
      <4> QED BY <4>1 DEF Around, QueriesOK
    <3> QED BY <3>1, <3>2
  <2> QED BY <1>2, <2>2, <2>3, <2>5, <2>6 DEF Send, Around, QueriesOK, loops
<1>3. ASSUME NEW j \in Jobs, Accept(j) PROVE Around'
  <2>1. /\ UNCHANGED <<loops, wire, faults, finished>> /\ verdict[j] # "accepted"
        /\ \E v \in {"accepted", "refused"} : verdict' = [verdict EXCEPT ![j] = v]
    BY <1>3 DEF Accept, SubmitAccepted, SubmitRefused
  <2>2. \A i \in Jobs : i # j => verdict'[i] = verdict[i]
    BY <2>1 DEF Inv, TypeOK
  <2>3. inbox[j] = 0
    BY <2>1 DEF Around, QueriesOK
  <2> QED BY <2>1, <2>2, <2>3 DEF Around, QueriesOK, loops, wire
<1>4. ASSUME NEW w \in Workers, Take(w) PROVE Around'
  <2>1. UNCHANGED <<loops, wire, faults, verdict, finished>>
    BY <1>4 DEF Take, Lock, Receive, Unlock
  <2> QED BY <2>1 DEF Around, QueriesOK, loops, wire
<1>5. ASSUME NEW w \in Workers, pc[w] = "running" PROVE job[w] \in Jobs
  BY <1>5 DEF Inv, Loop, TypeOK
<1>6. ASSUME NEW w \in Workers, Answer(w) PROVE Around'
  <2>1. job[w] \in Jobs /\ inbox[job[w]] > 0
    BY <1>5, <1>6 DEF Answer
  <2>2. inbox[job[w]] - 1 \in 0..MaxPipelined
    BY <1>1, <2>1 DEF Around
  <2>3. /\ inbox' = [inbox EXCEPT ![job[w]] = @ - 1]
        /\ UNCHANGED <<loops, budget, faults, verdict, finished>>
    BY <1>6 DEF Answer, vars
  <2>4. inbox' \in [Jobs -> 0..MaxPipelined]
    BY <2>2, <2>3 DEF Around
  <2>5. \A j \in Jobs : inbox'[j] <= inbox[j] /\ (inbox[j] = 0 => inbox'[j] = 0)
    BY <1>1, <2>1, <2>3 DEF Around
  <2>6. QueriesOK'
    BY <1>1, <2>3, <2>4, <2>5 DEF Around, QueriesOK
  <2> QED BY <2>3, <2>4, <2>6 DEF Around, loops
<1>7. ASSUME NEW w \in Workers, Close(w) PROVE Around'
  <2>1. /\ inbox' = [inbox EXCEPT ![job[w]] = 0] /\ 0 \in 0..MaxPipelined
        /\ finished' = finished \cup {job[w]}
        /\ UNCHANGED <<loops, budget, faults, verdict>>
    BY <1>1, <1>7 DEF Close, Finish
  <2>2. inbox' \in [Jobs -> 0..MaxPipelined]
    BY <2>1 DEF Around
  <2>3. \A j \in Jobs : /\ inbox'[j] <= inbox[j]
                        /\ inbox[j] = 0 \/ j = job[w] => inbox'[j] = 0
    BY <1>1, <2>1 DEF Around
  <2>4. QueriesOK'
    BY <1>1, <2>1, <2>2, <2>3 DEF Around, QueriesOK
  <2> QED BY <2>1, <2>2, <2>4 DEF Around, loops
<1>8. ASSUME NEW w \in Workers, EndOfQueries(w) \/ BreakOff(w) \/ AnswerOnce(w)
      PROVE  Close(w)
  BY <1>8 DEF EndOfQueries, BreakOff, AnswerOnce
<1> QED BY <1>2, <1>3, <1>4, <1>6, <1>7, <1>8

LEMMA AroundNext == Inv /\ Around /\ [ConnNext]_connVars => Around'
<1> SUFFICES ASSUME Inv, Around, [ConnNext]_connVars PROVE Around'
  OBVIOUS
<1>1. CASE UNCHANGED connVars
  BY <1>1 DEF connVars, Around, QueriesOK, loops, wire, vars
<1>2. ASSUME NEW l \in Loops,
             StartListener(l) \/ FailToStart(l) \/ StopListener(l) \/ Wake(l)
      PROVE  Around'
  BY <1>2, LoopsKeepAround
<1>3. CASE StartReceivers \/ LoseReceiver \/ JoinReceivers
  BY <1>3, ReceiversKeepAround
<1>4. CASE \/ \E j \in Jobs : Send(j) \/ Accept(j)
           \/ \E w \in Workers :
                Take(w) \/ Answer(w) \/ EndOfQueries(w) \/ BreakOff(w) \/ AnswerOnce(w)
  BY <1>4, QueriesKeepAround
<1> QED BY <1>1, <1>2, <1>3, <1>4 DEF ConnNext

\* Whatever listeners, receivers, clients and handlers do: a supervised loop starts,
\* is up or waits, its backoff stays within a second and the cap; only connections
\* that were accepted and not closed have queries waiting, no more than may be
\* pipelined; and what a client outside Endless has on the wire and may still send is
\* together within its budget (run_supervised, handle_tcp, handle_tls_stream,
\* handle_http).  Nothing is said of how many queries are answered, and clients in
\* Endless have no budget.
THEOREM ConnectionsStayTyped == ConnSpec => []ConnectionsOK
<1>1. Inv /\ Around => ConnectionsOK
  BY DEF Inv, Around, ConnectionsOK
<1> QED BY <1>1, ConnectionInvariant, AroundInit, AroundNext, PTL DEF ConnSpec

=============================================================================
