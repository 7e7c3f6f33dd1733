----------------------------- MODULE JobService -----------------------------
(***************************************************************************)
(* What a bounded thread pool promises its callers: a job is refused only   *)
(* while Capacity jobs wait, accepted jobs are begun in the order in which  *)
(* they were accepted, each once, and no more run at a time than there are    *)
(* slots.                                                                  *)
(***************************************************************************)
EXTENDS Integers, Sequences

CONSTANTS Jobs, Capacity, Slots, NoJob

VARIABLES
  verdict,   \* verdict[j]: what the last submission of j returned
  waiting,   \* accepted jobs that have not begun, in order
  active,    \* active[s]: the job that slot s runs
  finished   \* jobs that have ended

vars == <<verdict, waiting, active, finished>>

Init ==
  /\ verdict = [j \in Jobs |-> "none"]
  /\ waiting = <<>>
  /\ active = [s \in Slots |-> NoJob]
  /\ finished = {}

Accept(j) ==
  /\ verdict[j] # "accepted"
  /\ Len(waiting) < Capacity
  /\ verdict' = [verdict EXCEPT ![j] = "accepted"]
  /\ waiting' = Append(waiting, j)
  /\ UNCHANGED <<active, finished>>

Refuse(j) ==
  /\ verdict[j] # "accepted"
  /\ Len(waiting) = Capacity
  /\ verdict' = [verdict EXCEPT ![j] = "refused"]
  /\ UNCHANGED <<waiting, active, finished>>

Begin(s) ==
  /\ waiting # <<>>
  /\ active[s] = NoJob
  /\ active' = [active EXCEPT ![s] = Head(waiting)]
  /\ waiting' = Tail(waiting)
  /\ UNCHANGED <<verdict, finished>>

End(s) ==
  /\ active[s] # NoJob
  /\ finished' = finished \cup {active[s]}
  /\ active' = [active EXCEPT ![s] = NoJob]
  /\ UNCHANGED <<verdict, waiting>>

Next ==
  \/ \E j \in Jobs : Accept(j) \/ Refuse(j)
  \/ \E s \in Slots : Begin(s) \/ End(s)

Spec == Init /\ [][Next]_vars
=============================================================================
