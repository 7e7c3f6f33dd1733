----------------------------- MODULE MCTransfer -----------------------------
(* One zone without a signing key, whose file can always be read, and one   *)
(* secondary.                                                               *)
EXTENDS ZoneReload

CONSTANTS a, c1, r1

MCKey == [r \in Rec |-> r]
MCWithin == [z \in Origins |-> {z}]
MCRank == [z \in Origins |-> 1]
MCFailing == [z \in Origins |-> {}]
MCFollows == [c \in Clients |-> a]
=============================================================================
