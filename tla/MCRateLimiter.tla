---------------------------- MODULE MCRateLimiter ----------------------------
EXTENDS RateLimiter

CONSTANTS t1, t2, a, b, sh

MCShardOf == [s \in Sources |-> sh]
=============================================================================
