---------------------------- MODULE MCZoneAnswer ----------------------------
(* Names of at most two labels below the apex, the label 0 being "*", in the *)
(* order that canonical_order gives them; zones with any of four owners of   *)
(* data and two aliases that may lead to each other, to data, to a name      *)
(* without any or out of the zone.                                           *)
EXTENDS ZoneAnswer, NameOrder, FiniteSets

Labels == 0..2
MCApex == <<>>
MCNames == {<<>>} \cup {<<l>> : l \in Labels} \cup {<<k, l>> : k, l \in Labels}

Ancestors == [n \in MCNames |-> {m \in MCNames : IsUnder(n, m)}]
Positions == [n \in MCNames |-> Cardinality({m \in MCNames : canonical_order(m, n)})]

\* The names of two labels have no name below them, and need no wildcard.
MCWildcard == [n \in MCNames |-> IF Len(n) < 2 THEN Append(n, 0) ELSE n]

\* Defined apart, so that TLC evaluates the definitions above only once.
MCUnder == Ancestors
MCRank == Positions

Elsewhere == <<9>>
None == <<8>>

\* data: the owners of A records; aliases: the targets of <<1>> and <<2, 2>>.
MCZone(data, first, second, signed) ==
  LET alias(n) == IF n = <<1>> THEN first ELSE IF n = <<2, 2>> THEN second ELSE None
  IN  [types |-> [n \in MCNames |->
                    (IF n = <<>> THEN {"SOA"} ELSE {})
                    \cup (IF alias(n) # None THEN {"CNAME"}
                          ELSE IF n \in data THEN {"A"} ELSE {})],
       target |-> [n \in MCNames |-> IF alias(n) = None THEN Elsewhere ELSE alias(n)],
       signed |-> signed]

Loadable ==
  {MCZone(data, first, second, signed) :
     data \in SUBSET {<<0>>, <<1>>, <<1, 1>>, <<2, 1>>},
     first \in {None, Elsewhere, <<2>>, <<2, 2>>},
     second \in {None, <<1>>, <<1, 2>>},
     signed \in BOOLEAN}

MCContents == Loadable
=============================================================================
