------------------------------ MODULE Delivery ------------------------------
(***************************************************************************)
(* What a zone transfer promises a secondary, messages and signatures left  *)
(* aside: a request is answered at most once and by something that answers   *)
(* a request of its kind; the secondary takes that as it was given, or      *)
(* nothing; and it is left without what was given only by a loss.          *)
(***************************************************************************)
CONSTANT
  Replies    \* Replies[kind]: the answers to requests of that kind

VARIABLES
  kind,      \* the kind of the request, or "none"
  answer,    \* what the server has answered, or <<>>
  lost,      \* whether some of the exchange has been lost
  taken      \* what the secondary has taken for the answer, or <<>>

vars == <<kind, answer, lost, taken>>

Init ==
  /\ kind = "none"
  /\ answer = <<>>
  /\ lost = FALSE
  /\ taken = <<>>

Request ==
  /\ kind = "none"
  /\ kind' \in DOMAIN Replies
  /\ UNCHANGED <<answer, lost, taken>>

Answer ==
  /\ kind # "none"
  /\ ~lost
  /\ answer = <<>>
  /\ answer' \in Replies[kind]
  /\ UNCHANGED <<kind, lost, taken>>

Lose ==
  /\ kind # "none"
  /\ ~lost
  /\ lost' = TRUE
  /\ UNCHANGED <<kind, answer, taken>>

Take ==
  /\ answer # <<>>
  /\ taken = <<>>
  /\ taken' = answer
  /\ UNCHANGED <<kind, answer, lost>>

\* The secondary is through with an answer, or there will be none.
End ==
  /\ kind # "none"
  /\ taken = answer \/ lost
  /\ kind' = "none"
  /\ answer' = <<>>
  /\ lost' = FALSE
  /\ taken' = <<>>

Next == Request \/ Answer \/ Lose \/ Take \/ End

Spec == Init /\ [][Next]_vars
=============================================================================
