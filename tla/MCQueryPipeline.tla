-------------------------- MODULE MCQueryPipeline --------------------------
(* One receiver, one recursion worker with a queue of one, and three queries *)
(* with the same question: either all of them are datagrams that need the    *)
(* resolver, so that one may be shed, or each ends in a way of its own.      *)
EXTENDS QueryPipeline, TLC

CONSTANTS qa, qb, qc, na, s1

MCQuestion == [q \in Queries |-> na]

MCProfiles ==
  {(qa :> {}) @@ (qb :> {}) @@ (qc :> {}),
   (qa :> {"odd"}) @@ (qb :> {"stream", "validated"}) @@ (qc :> {"iterative"}),
   (qa :> {"poison"}) @@ (qb :> {"unusable"}) @@ (qc :> {"stream", "refused"})}
=============================================================================
