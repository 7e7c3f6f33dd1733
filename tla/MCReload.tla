------------------------------ MODULE MCReload ------------------------------
(* Two zones that reload together, a parent and a child; the secondaries of  *)
(* the configuration follow the child.                                       *)
EXTENDS ZoneReload

CONSTANTS parent, child, r1, s1, s2, s3, t1, t2

\* t1 and t2 are the same record with two TTLs.
MCKey == [r \in Rec |-> IF r = t2 THEN t1 ELSE r]
MCWithin == [z \in Origins |-> IF z = child THEN Origins ELSE {z}]
MCRank == [z \in Origins |-> IF z = child THEN 2 ELSE 1]
MCFailing == [z \in Origins |-> IF z = child THEN {"unreadable", "malformed"}
                                              ELSE {"unreadable"}]
MCFollows == [c \in Clients |-> IF c = s1 THEN parent ELSE child]
=============================================================================
