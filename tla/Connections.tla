---------------------------- MODULE Connections ----------------------------
(***************************************************************************)
(* What runs on the connection pool, and what feeds it: the supervised      *)
(* listeners for TCP, DoT and DoH, the connections they accept, and the     *)
(* loop in which a worker answers the queries of one connection.  A job of  *)
(* the pool is a connection.  The UDP receivers are supervised too.         *)
(*                                                                         *)
(* A read that times out is a step that may happen whenever nothing was     *)
(* sent.  What a query is answered with is left out (QueryPipeline), and so *)
(* are TLS, the HTTP syntax and the counters, which nothing here reads.     *)
(***************************************************************************)
EXTENDS ThreadPool

CONSTANTS
  Listeners,    \* the supervised loops that accept connections
  Web,          \* those of them for DoH: a connection carries one query
  Receivers,    \* threads of udp_loop
  Udp,          \* the supervised loop around udp_loop
  Via,          \* Via[j]: the listener that connection j is made to
  MaxDelay,     \* the longest backoff, in seconds
  MaxPipelined, \* bound: unanswered queries of a connection
  MaxQueries,   \* bound: queries on a connection outside Endless
  MaxFaults     \* bound: failed binds, panics and lost receivers

ASSUME ConnectionAssumption ==
  /\ Web \subseteq Listeners
  /\ Udp \notin Listeners
  /\ Receivers # {}
  /\ Via \in [Jobs -> Listeners]
  /\ MaxDelay \in Nat \ {0}
  /\ MaxPipelined \in Nat \ {0}
  /\ MaxQueries \in Nat
  /\ MaxFaults \in Nat

VARIABLES
  loop,      \* loop[l]: what the supervised loop l is doing
  delay,     \* delay[l]: its next backoff
  alive,     \* receivers that run
  inbox,     \* inbox[j]: queries sent on connection j and not yet read
  budget,    \* budget[j]: queries that the client of j may still send
  faults     \* faults so far

loops == <<loop, delay, alive>>
wire == <<inbox, budget>>
connVars == <<vars, loops, wire, faults>>

Loops == Listeners \cup {Udp}

\* Queries are on the wire of open connections only, and a client that stops sends no
\* more than MaxQueries of them.
QueriesOK ==
  /\ \A j \in Jobs : verdict[j] # "accepted" \/ j \in finished => inbox[j] = 0
  /\ \A j \in Jobs \ Endless : inbox[j] + budget[j] <= MaxQueries

ConnectionsOK ==
  /\ TypeOK
  /\ loop \in [Loops -> {"starting", "up", "sleeping"}]
  /\ delay \in [Loops -> 1..MaxDelay]
  /\ alive \subseteq Receivers
  /\ inbox \in [Jobs -> 0..MaxPipelined]
  /\ budget \in [Jobs -> 0..MaxQueries]
  /\ faults \in 0..MaxFaults
  /\ QueriesOK

ConnInit ==
  /\ Init
  /\ loop = [l \in Loops |-> "starting"]
  /\ delay = [l \in Loops |-> 1]
  /\ alive = {}
  /\ inbox = [j \in Jobs |-> 0]
  /\ budget = [j \in Jobs |-> MaxQueries]
  /\ faults = 0

Fault == faults < MaxFaults /\ faults' = faults + 1

-----------------------------------------------------------------------------
(* run_supervised and the loops under it.                                   *)

\* The socket is bound (and the TLS configuration loaded).
StartListener(l) ==
  /\ l \in Listeners
  /\ loop[l] = "starting"
  /\ loop' = [loop EXCEPT ![l] = "up"]
  /\ UNCHANGED <<vars, delay, alive, wire, faults>>

\* MUTANT of FailToStart: a loop that returns is not started again.
FailForGood(l) ==
  /\ loop[l] = "starting"
  /\ Fault
  /\ loop' = [loop EXCEPT ![l] = "stopped"]
  /\ UNCHANGED <<vars, delay, alive, wire>>

\* Binding fails: the loop returns at once.
FailToStart(l) ==
  /\ loop[l] = "starting"
  /\ Fault
  /\ loop' = [loop EXCEPT ![l] = "sleeping"]
  /\ UNCHANGED <<vars, delay, alive, wire>>

\* udp_loop starts the receivers; one that cannot be spawned is left out.
StartReceivers ==
  /\ loop[Udp] = "starting"
  /\ \/ alive' = Receivers /\ UNCHANGED faults
     \/ Fault /\ alive' \in SUBSET Receivers
  /\ loop' = [loop EXCEPT ![Udp] = "up"]
  /\ UNCHANGED <<vars, delay, wire>>

\* A receiver panics outside the query it answers.
LoseReceiver ==
  /\ Fault
  /\ \E r \in alive : alive' = alive \ {r}
  /\ UNCHANGED <<vars, loop, delay, wire>>

\* The backoff of a loop that stops: one second again if it was up for long.
Delayed(l, long) == IF long THEN 1 ELSE delay[l]

\* udp_loop returns when the last receiver has stopped.
JoinReceivers ==
  /\ loop[Udp] = "up"
  /\ alive = {}
  /\ \E long \in BOOLEAN : delay' = [delay EXCEPT ![Udp] = Delayed(Udp, long)]
  /\ loop' = [loop EXCEPT ![Udp] = "sleeping"]
  /\ UNCHANGED <<vars, alive, wire, faults>>

\* A listener panics; its socket is closed with it.
StopListener(l) ==
  /\ l \in Listeners
  /\ loop[l] = "up"
  /\ Fault
  /\ \E long \in BOOLEAN : delay' = [delay EXCEPT ![l] = Delayed(l, long)]
  /\ loop' = [loop EXCEPT ![l] = "sleeping"]
  /\ UNCHANGED <<vars, alive, wire>>

Least(a, b) == IF a < b THEN a ELSE b

\* The backoff has passed; the next one is twice as long.
Wake(l) ==
  /\ loop[l] = "sleeping"
  /\ loop' = [loop EXCEPT ![l] = "starting"]
  /\ delay' = [delay EXCEPT ![l] = Least(2 * @, MaxDelay)]
  /\ UNCHANGED <<vars, alive, wire, faults>>

-----------------------------------------------------------------------------
(* Clients (external).                                                      *)

\* A client that closes its side, or is lost, just sends no more.
Send(j) ==
  /\ verdict[j] = "accepted"
  /\ j \notin finished
  /\ inbox[j] < MaxPipelined
  /\ IF j \in Endless THEN UNCHANGED budget
     ELSE budget[j] > 0 /\ budget' = [budget EXCEPT ![j] = @ - 1]
  /\ inbox' = [inbox EXCEPT ![j] = @ + 1]
  /\ UNCHANGED <<vars, loops, faults>>

-----------------------------------------------------------------------------
(* The accept loops.                                                        *)

\* The listener accepts the connection and submits it to the pool.  It is closed
\* when the pool refuses it, and the client may try again.
Accept(j) ==
  /\ loop[Via[j]] = "up"
  /\ SubmitAccepted(j) \/ SubmitRefused(j)
  /\ UNCHANGED <<loops, wire, faults>>

-----------------------------------------------------------------------------
(* handle_tcp, handle_tls_stream and handle_http on a worker.               *)

Take(w) ==
  /\ Lock(w) \/ Receive(w) \/ Unlock(w)
  /\ UNCHANGED <<loops, wire, faults>>

\* The next query is read and answered, or not at all if it is dropped; the
\* worker then waits for another one.
Answer(w) ==
  /\ pc[w] = "running"
  /\ Via[job[w]] \notin Web
  /\ inbox[job[w]] > 0
  /\ inbox' = [inbox EXCEPT ![job[w]] = @ - 1]
  /\ UNCHANGED <<vars, loops, budget, faults>>

\* The server's end of a connection is dropped with the job.
Close(w) ==
  /\ Finish(w)
  /\ inbox' = [inbox EXCEPT ![job[w]] = 0]
  /\ UNCHANGED <<loops, budget, faults>>

\* MUTANT of EndOfQueries: reads have no time limit, and a client that still has
\* queries to send keeps the connection open.
EndWhenClosed(w) ==
  /\ pc[w] = "running"
  /\ inbox[job[w]] = 0
  /\ budget[job[w]] = 0
  /\ Close(w)

\* Nothing more to read: the client has closed, or the read times out.
EndOfQueries(w) ==
  /\ pc[w] = "running"
  /\ inbox[job[w]] = 0
  /\ Close(w)

\* The response cannot be written, the framing is wrong, or the handler panics:
\* what was sent after this query is not read.
BreakOff(w) ==
  /\ pc[w] = "running"
  /\ Via[job[w]] \notin Web
  /\ inbox[job[w]] > 0
  /\ Close(w)

\* handle_http reads one request and answers it, with a response, an HTTP error
\* or not at all.
AnswerOnce(w) ==
  /\ pc[w] = "running"
  /\ Via[job[w]] \in Web
  /\ inbox[job[w]] > 0
  /\ Close(w)

ConnNext ==
  \/ \E l \in Loops : StartListener(l) \/ FailToStart(l) \/ StopListener(l) \/ Wake(l)
  \/ StartReceivers \/ LoseReceiver \/ JoinReceivers
  \/ \E j \in Jobs : Send(j) \/ Accept(j)
  \/ \E w \in Workers :
       Take(w) \/ Answer(w) \/ EndOfQueries(w) \/ BreakOff(w) \/ AnswerOnce(w)

ConnSpec == ConnInit /\ [][ConnNext]_connVars

\* Threads that can go on do, a read ends by its timeout, and a bind that can
\* succeed does so in the end.  Nothing is assumed of clients.
ConnFairness ==
  /\ \A l \in Loops : WF_connVars(StartListener(l)) /\ WF_connVars(Wake(l))
  /\ WF_connVars(StartReceivers) /\ WF_connVars(JoinReceivers)
  /\ WF_connVars(\E w \in Workers : Lock(w) /\ Take(w))
  /\ \A w \in Workers :
       /\ WF_connVars((Receive(w) \/ Unlock(w)) /\ Take(w))
       /\ WF_connVars(Answer(w) \/ AnswerOnce(w) \/ EndOfQueries(w))

FairConnSpec == ConnSpec /\ ConnFairness

-----------------------------------------------------------------------------
(* Properties, besides those of the pool: AcceptedJobsEnd is here about      *)
(* connections that may be idle, abandoned or broken off.                   *)

\* The service comes back: whatever fails to bind, panics or stops, each loop is
\* started again and UDP is read (run_supervised, udp_loop).
LoopsComeBack ==
  /\ \A l \in Listeners : []<>(loop[l] = "up")
  /\ []<>(alive # {})
=============================================================================
