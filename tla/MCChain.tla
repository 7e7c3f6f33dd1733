------------------------------ MODULE MCChain ------------------------------
(* A name of two labels.  Every key has a tag of its own, and all are of a    *)
(* known algorithm but that of the other view of the zone in between.         *)
EXTENDS ChainOfTrust

MCTag == [k \in Key |-> k]
MCKnown == Key \ {<<1, 0>>}
=============================================================================
