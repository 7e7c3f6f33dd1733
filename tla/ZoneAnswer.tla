----------------------------- MODULE ZoneAnswer -----------------------------
(***************************************************************************)
(* Answering from a zone: the CNAMEs that handle_query follows inside the   *)
(* zone, the choice between data, NODATA and NXDOMAIN, and the NSEC records *)
(* of a signed zone that prove the last two.                                *)
(*                                                                         *)
(* A zone is a set of record types per name.  Names are ranked by the       *)
(* canonical order in which build_nsec_chain sorts the owners.  Delegations *)
(* and NSEC3 are left out: no record types of the model stand for them.     *)
(***************************************************************************)
EXTENDS Integers

CONSTANTS
  Names,      \* names at or below the apex
  Apex,       \* Zone.origin
  Under,      \* Under[n]: the names that n is equal to or below
  Rank,       \* Rank[n]: the place of n in canonical order
  Wildcard,   \* Wildcard[n]: the name "*.n"
  Outside,    \* a CNAME target that is not in the zone
  Types,      \* record types
  Contents,   \* the zones that may be loaded
  MaxChain    \* MAX_CNAME_CHAIN

Zones == [types : [Names -> SUBSET Types], target : [Names -> Names \cup {Outside}],
          signed : BOOLEAN]

ASSUME ZoneAssumption ==
  /\ "CNAME" \in Types
  /\ Apex \in Names
  /\ Outside \notin Names
  /\ Wildcard \in [Names -> Names]
  /\ Contents \subseteq Zones
  /\ \A z \in Contents : z.types[Apex] # {}
  /\ MaxChain \in Nat

\* The names form a tree, ranked so that a name stands before what is below it,
\* and all of that before anything else; every set of names has a first and a last.
TreeOrder(names, apex, under, rank) ==
  /\ under \in [names -> SUBSET names]
  /\ rank \in [names -> Nat]
  /\ \A m, n \in names : rank[m] = rank[n] => m = n
  /\ \A n \in names : n \in under[n] /\ apex \in under[n]
  /\ \A n \in names : \A m \in under[n] : rank[m] <= rank[n]
  /\ \A l, n \in names : \A m \in under[n] :
       rank[m] <= rank[l] /\ rank[l] <= rank[n] => m \in under[l]
  /\ \A S \in SUBSET names :
       S # {} => /\ \E m \in S : \A n \in S : rank[n] <= rank[m]
                 /\ \E m \in S : \A n \in S : rank[m] <= rank[n]

ASSUME OrderAssumption == TreeOrder(Names, Apex, Under, Rank)

VARIABLES
  zone,          \* the zone that answers
  question,      \* the question, with the DO bit
  current_name,  \* the name that is looked up
  hops,          \* CNAMEs followed
  result         \* the response

vars == <<zone, question, current_name, hops, result>>

Nsecs == [owner : Names, next : Names, types : SUBSET Types]
Results == [kind : {"none", "answer", "nodata", "nxdomain"}, proof : SUBSET Nsecs]
Result(kind, proof) == [kind |-> kind, proof |-> proof]
Pending == Result("none", {})

TypeOK ==
  /\ zone \in Contents
  /\ question \in [name : Names, type : Types, dnssec_ok : BOOLEAN]
  /\ current_name \in Names
  /\ hops \in 0..MaxChain
  /\ result \in Results

-----------------------------------------------------------------------------
(* zone.rs                                                                  *)

First(S) == CHOOSE m \in S : \A n \in S : Rank[m] <= Rank[n]
Last(S) == CHOOSE m \in S : \A n \in S : Rank[n] <= Rank[m]

lookup(n, t) == t \in zone.types[n]

Owners == {n \in Names : zone.types[n] # {}}

\* Names with records, and empty ones with a name below them that has some.
name_exists(n) == \E m \in Owners : n \in Under[m]

\* The NSEC at owner o: the owner after it, the first one after the last.
Nsec(o) ==
  LET after == {n \in Owners : Rank[o] < Rank[n]}
  IN  [owner |-> o, next |-> First(IF after = {} THEN Owners ELSE after),
       types |-> zone.types[o]]

\* MUTANT of nsec_covering_owner: the owner after the name.
nsec_following_owner(n) ==
  LET after == {o \in Owners : Rank[n] < Rank[o]}
  IN  IF after = {} THEN First(Owners) ELSE First(after)

\* The last owner before n; no owner comes before the apex.
nsec_covering_owner(n) ==
  LET before == {o \in Owners : Rank[o] < Rank[n]}
  IN  Last(IF before = {} THEN Owners ELSE before)

\* The longest name above n that exists.
closest_encloser(n) ==
  Last({m \in Under[n] \ {n} : name_exists(m)} \cup {Apex})

-----------------------------------------------------------------------------
(* server.rs                                                                *)

Proves == question.dnssec_ok /\ zone.signed

\* The NSEC at the name, or at the owner that covers an empty one.
NodataProof ==
  IF ~Proves THEN {}
  ELSE {Nsec(IF current_name \in Owners THEN current_name
             ELSE nsec_covering_owner(current_name))}

\* MUTANT of NxdomainProof: the wildcard is not denied.
NxdomainProofOfNameOnly ==
  IF ~Proves THEN {} ELSE {Nsec(nsec_covering_owner(current_name))}

\* The NSECs that cover the name and the wildcard that could have matched it.
NxdomainProof ==
  IF ~Proves THEN {}
  ELSE {Nsec(nsec_covering_owner(current_name)),
        Nsec(nsec_covering_owner(Wildcard[closest_encloser(current_name)]))}

Init ==
  /\ zone \in Contents
  /\ question \in [name : Names, type : Types, dnssec_ok : BOOLEAN]
  /\ current_name = question.name
  /\ hops = 0
  /\ result = Pending

Found ==
  /\ result = Pending
  /\ hops < MaxChain
  /\ lookup(current_name, question.type)
  /\ result' = Result("answer", {})
  /\ UNCHANGED <<zone, question, current_name, hops>>

\* The name is an alias, and the alias itself was not asked for.
AtAlias ==
  /\ result = Pending
  /\ hops < MaxChain
  /\ ~lookup(current_name, question.type)
  /\ question.type # "CNAME"
  /\ lookup(current_name, "CNAME")

\* MUTANT of FollowAlias: there is no limit.
FollowAliasForever ==
  /\ AtAlias
  /\ zone.target[current_name] # Outside
  /\ current_name' = zone.target[current_name]
  /\ UNCHANGED <<zone, question, hops, result>>

\* MUTANT of FollowAlias: the target is looked up wherever it is.
FollowAliasAnywhere ==
  /\ AtAlias
  /\ current_name' = zone.target[current_name]
  /\ hops' = hops + 1
  /\ UNCHANGED <<zone, question, result>>

FollowAlias ==
  /\ AtAlias
  /\ zone.target[current_name] # Outside
  /\ current_name' = zone.target[current_name]
  /\ hops' = hops + 1
  /\ UNCHANGED <<zone, question, result>>

\* The alias leads out of the zone: the client's resolver goes on.
LeaveZone ==
  /\ AtAlias
  /\ zone.target[current_name] = Outside
  /\ result' = Result("answer", {})
  /\ UNCHANGED <<zone, question, current_name, hops>>

\* Neither data nor an alias, or too many aliases.
Unanswered ==
  /\ result = Pending
  /\ \/ hops = MaxChain
     \/ /\ ~lookup(current_name, question.type)
        /\ question.type = "CNAME" \/ ~lookup(current_name, "CNAME")

NoData ==
  /\ Unanswered
  /\ name_exists(current_name)
  /\ result' = Result("nodata", NodataProof)
  /\ UNCHANGED <<zone, question, current_name, hops>>

NxDomain ==
  /\ Unanswered
  /\ ~name_exists(current_name)
  /\ result' = Result("nxdomain", NxdomainProof)
  /\ UNCHANGED <<zone, question, current_name, hops>>

Next == Found \/ FollowAlias \/ LeaveZone \/ NoData \/ NxDomain

Spec == Init /\ [][Next]_vars

\* The thread that handles the query runs on.
FairSpec == Spec /\ WF_vars(Next)

-----------------------------------------------------------------------------
(* Properties.                                                              *)

\* What a validator accepts (RFC 4035, 5.4): an NSEC denies the names between
\* its owner and the next one, the last NSEC of a zone those after its owner,
\* unless the next owner is below the name, which then exists without data.
Covers(nsec, n) ==
  /\ Rank[nsec.owner] < Rank[n]
  /\ Rank[n] < Rank[nsec.next] \/ Rank[nsec.next] <= Rank[nsec.owner]
Denies(nsec, n) == Covers(nsec, n) /\ n \notin Under[nsec.next]

\* README.md promises that NXDOMAIN "carries the proofs for the name and the
\* wildcard": the records that two searches find, each by the order of names
\* alone, prove that nothing at, below or instead of the name could answer.
\* Excepted are zones with a wildcard there: the code never answers from one, and
\* its proof then shows that it should have.
NxdomainProved ==
  LET wildcard == Wildcard[closest_encloser(current_name)]
  IN  result.kind = "nxdomain" /\ Proves /\ ~name_exists(wildcard) =>
        /\ \E nsec \in result.proof : Denies(nsec, current_name)
        /\ \E nsec \in result.proof : Denies(nsec, wildcard)

\* A NODATA answer proves that the type is not there: by the types at the name,
\* or for an empty name by the next owner, which is below it.  Excepted is the
\* end of a chain of aliases that is too long.
NodataProved ==
  result.kind = "nodata" /\ Proves /\ hops < MaxChain =>
    \E nsec \in result.proof :
      \/ nsec.owner = current_name /\ {question.type, "CNAME"} \cap nsec.types = {}
      \/ Covers(nsec, current_name) /\ current_name \in Under[nsec.next]

\* Every query is answered, also when the aliases of the zone form a loop.
Answered == <>(result # Pending)
=============================================================================
