---------------------------- MODULE MCConnections ----------------------------
(* Two workers, a queue of two, and three connections: one that is kept busy *)
(* for ever and another one over TCP, and one over DoH.                      *)
EXTENDS Connections

CONSTANTS w1, w2, j1, j2, j3, tcp, doh, udp, r1, r2

MCVia == [j \in Jobs |-> IF j = j3 THEN doh ELSE tcp]
=============================================================================
