------------------------------ MODULE NameOrder ------------------------------
(* Domain names as sequences of labels from the apex of a zone down, and the  *)
(* canonical order of DNSSEC on them.  Labels are numbers in the order of     *)
(* their bytes.                                                              *)
EXTENDS Integers, Sequences

\* n is m or below it.
IsUnder(n, m) == Len(m) <= Len(n) /\ SubSeq(n, 1, Len(m)) = m

\* Label by label, a missing label first (canonical_order).
canonical_order(m, n) ==
  \E i \in 0..Len(m) :
    /\ i <= Len(n)
    /\ \A k \in 1..i : m[k] = n[k]
    /\ \/ i = Len(m) /\ i < Len(n)
       \/ i < Len(m) /\ i < Len(n) /\ m[i + 1] < n[i + 1]
=============================================================================
