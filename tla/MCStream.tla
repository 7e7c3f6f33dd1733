------------------------------ MODULE MCStream ------------------------------
(* Messages of three records and answers around one and two of them.        *)
EXTENDS TransferStream

CONSTANTS theirs
=============================================================================
