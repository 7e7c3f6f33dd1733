-------------------------- MODULE ZoneAnswerProofs --------------------------
(***************************************************************************)
(* Theorems about ZoneAnswer: whatever the zone, the records that the two   *)
(* searches of a negative answer find prove it.                             *)
(*                                                                         *)
(* Both searches compare names by the canonical order alone.  What makes    *)
(* their results proofs is that the names below a name stand together in    *)
(* that order (OrderAssumption), which the last part proves of the order    *)
(* that zone.rs sorts by.                                                  *)
(***************************************************************************)
EXTENDS ZoneAnswer, NameOrder, FiniteSetTheorems, SequenceTheorems, TLAPS

USE DEF TreeOrder

\* A loaded zone has records at the apex, and there is a name in every search.
LEMMA ApexOwns ==
  ASSUME TypeOK
  PROVE  Apex \in Owners /\ Owners \subseteq Names
BY ZoneAssumption DEF TypeOK, Owners, Zones

LEMMA FirstIsLeast ==
  ASSUME NEW S \in SUBSET Names, S # {}
  PROVE  First(S) \in S /\ \A m \in S : Rank[First(S)] <= Rank[m]
<1>1. \E n \in S : \A m \in S : Rank[n] <= Rank[m]
  BY OrderAssumption
<1> QED BY <1>1 DEF First

LEMMA LastIsGreatest ==
  ASSUME NEW S \in SUBSET Names, S # {}
  PROVE  Last(S) \in S /\ \A m \in S : Rank[m] <= Rank[Last(S)]
<1>1. \E n \in S : \A m \in S : Rank[m] <= Rank[n]
  BY OrderAssumption
<1> QED BY <1>1 DEF Last

\* The owner that covers a name other than the apex stands before it, and no
\* owner stands between them.
LEMMA CoveringOwner ==
  ASSUME TypeOK, NEW n \in Names, n \notin Owners
  PROVE  /\ nsec_covering_owner(n) \in Owners
         /\ Rank[nsec_covering_owner(n)] < Rank[n]
         /\ \A o \in Owners : Rank[o] < Rank[n] => Rank[o] <= Rank[nsec_covering_owner(n)]
<1> DEFINE before == {o \in Owners : Rank[o] < Rank[n]}
<1>1. Apex \in before
  <2>1. Rank[Apex] <= Rank[n] /\ Rank[Apex] # Rank[n]
    BY ApexOwns, OrderAssumption, ZoneAssumption
  <2> QED BY <2>1, ApexOwns, OrderAssumption, ZoneAssumption
<1>2. before \in SUBSET Names /\ before # {}
  BY <1>1, ApexOwns
<1>3. nsec_covering_owner(n) = Last(before)
  BY <1>2 DEF nsec_covering_owner
<1>4. Last(before) \in before /\ \A m \in before : Rank[m] <= Rank[Last(before)]
  BY <1>2, LastIsGreatest
<1> QED BY <1>3, <1>4

\* Whatever name the search is for, it ends at an owner.
LEMMA SearchFindsOwner ==
  ASSUME TypeOK, NEW n \in Names
  PROVE  nsec_covering_owner(n) \in Owners
<1> DEFINE before == {o \in Owners : Rank[o] < Rank[n]}
           searched == IF before = {} THEN Owners ELSE before
<1>1. searched \in SUBSET Names /\ searched # {} /\ searched \subseteq Owners
  BY ApexOwns
<1>2. Last(searched) \in searched
  BY <1>1, LastIsGreatest
<1> QED BY <1>1, <1>2 DEF nsec_covering_owner

\* The NSEC of an owner leads to the next owner, or from the last to the first.
LEMMA NextOwner ==
  ASSUME TypeOK, NEW o \in Owners
  PROVE  /\ Nsec(o) \in Nsecs
         /\ Nsec(o).owner = o
         /\ Nsec(o).next \in Owners
         /\ \/ Rank[o] < Rank[Nsec(o).next]
            \/ Rank[Nsec(o).next] <= Rank[o] /\ \A n \in Owners : Rank[n] <= Rank[o]
         /\ \A n \in Owners : Rank[o] < Rank[n] => Rank[Nsec(o).next] <= Rank[n]
<1> DEFINE after == {n \in Owners : Rank[o] < Rank[n]}
           next == First(IF after = {} THEN Owners ELSE after)
<1>1. Nsec(o) = [owner |-> o, next |-> next, types |-> zone.types[o]]
  BY DEF Nsec
<1>2. Owners \in SUBSET Names /\ o \in Names /\ zone.types[o] \in SUBSET Types
  BY ApexOwns, ZoneAssumption DEF TypeOK, Zones
<1>3. \A n \in Names : Rank[n] \in Nat
  BY OrderAssumption
<1>4. CASE after = {}
  <2>1. next \in Owners /\ \A n \in Owners : Rank[next] <= Rank[n]
    BY <1>2, <1>4, FirstIsLeast
  <2>2. ASSUME NEW n \in Owners PROVE Rank[n] <= Rank[o]
    <3>1. n \notin after
      BY <1>4
    <3> QED BY <1>2, <1>3, <3>1
  <2> QED BY <1>1, <1>2, <1>3, <2>1, <2>2 DEF Nsecs
<1>5. CASE after # {}
  <2>1. after \in SUBSET Names
    BY <1>2
  <2>2. next \in after /\ \A n \in after : Rank[next] <= Rank[n]
    BY <1>5, <2>1, FirstIsLeast
  <2> QED BY <1>1, <1>2, <1>3, <2>2 DEF Nsecs
<1> QED BY <1>4, <1>5

\* The NSEC at the covering owner covers the name, and if an owner is below the
\* name, it is the next one.
LEMMA CoveringNsec ==
  ASSUME TypeOK, NEW n \in Names, n \notin Owners
  PROVE  LET nsec == Nsec(nsec_covering_owner(n))
         IN  /\ nsec \in Nsecs
             /\ Covers(nsec, n)
             /\ name_exists(n) <=> n \in Under[nsec.next]
<1> DEFINE o == nsec_covering_owner(n)
           nsec == Nsec(o)
<1>1. /\ o \in Owners
      /\ Rank[o] < Rank[n]
      /\ \A m \in Owners : Rank[m] < Rank[n] => Rank[m] <= Rank[o]
  BY CoveringOwner
<1>2. /\ nsec \in Nsecs /\ nsec.owner = o /\ nsec.next \in Owners
      /\ \/ Rank[o] < Rank[nsec.next]
         \/ Rank[nsec.next] <= Rank[o] /\ \A m \in Owners : Rank[m] <= Rank[o]
      /\ \A m \in Owners : Rank[o] < Rank[m] => Rank[nsec.next] <= Rank[m]
  BY <1>1, NextOwner
<1> HIDE DEF o, nsec
<1>3. Owners \in SUBSET Names /\ \A m \in Names : Rank[m] \in Nat
  BY ApexOwns, OrderAssumption
<1>4. Rank[nsec.next] # Rank[n]
  BY <1>2, <1>3, OrderAssumption
<1>5. Covers(nsec, n)
  BY <1>1, <1>2, <1>3, <1>4 DEF Covers
<1>6. ASSUME name_exists(n) PROVE n \in Under[nsec.next]
  <2>1. PICK m \in Owners : n \in Under[m]
    BY <1>6 DEF name_exists
  <2>2. Rank[n] <= Rank[m] /\ Rank[n] # Rank[m]
    BY <2>1, <1>3, OrderAssumption
  <2>3. Rank[o] < Rank[m]
    BY <1>1, <1>3, <2>2
  <2>4. Rank[nsec.next] <= Rank[m] /\ ~(Rank[m] <= Rank[o])
    BY <1>1, <1>2, <1>3, <2>3
  <2>5. Rank[o] < Rank[nsec.next]
    BY <1>2, <2>4
  <2>6. Rank[n] < Rank[nsec.next]
    BY <1>1, <1>2, <1>3, <1>4, <2>5
  <2> QED BY <1>2, <1>3, <2>1, <2>4, <2>6, OrderAssumption
<1>7. ASSUME n \in Under[nsec.next] PROVE name_exists(n)
  BY <1>2, <1>7 DEF name_exists
<1> QED BY <1>2, <1>5, <1>6, <1>7 DEF o, nsec

\* The closest encloser and its wildcard are names.
LEMMA EncloserIsName ==
  ASSUME TypeOK, NEW n \in Names
  PROVE  closest_encloser(n) \in Names /\ Wildcard[closest_encloser(n)] \in Names
<1> DEFINE above == {m \in Under[n] \ {n} : name_exists(m)} \cup {Apex}
<1>1. above \in SUBSET Names /\ above # {}
  BY OrderAssumption, ZoneAssumption
<1>2. Last(above) \in Names
  BY <1>1, LastIsGreatest
<1> QED BY <1>2, ZoneAssumption DEF closest_encloser

\* What the actions put into an answer is made of NSEC records of the zone.
LEMMA ProofsAreNsecs ==
  ASSUME TypeOK
  PROVE  NodataProof \in SUBSET Nsecs /\ NxdomainProof \in SUBSET Nsecs
<1>1. current_name \in Names
  BY DEF TypeOK
<1>2. \A o \in Owners : Nsec(o) \in Nsecs
  BY NextOwner
<1>3. nsec_covering_owner(current_name) \in Owners
  BY <1>1, SearchFindsOwner
<1>4. nsec_covering_owner(Wildcard[closest_encloser(current_name)]) \in Owners
  BY <1>1, EncloserIsName, SearchFindsOwner
<1> QED BY <1>2, <1>3, <1>4 DEF NodataProof, NxdomainProof

\* A response has the fields of one.
LEMMA ResultType ==
  ASSUME NEW kind \in {"none", "answer", "nodata", "nxdomain"},
         NEW proof \in SUBSET Nsecs
  PROVE  Result(kind, proof) \in Results
BY DEF Result, Results

LEMMA TypeInit == Init => TypeOK
<1> SUFFICES ASSUME Init PROVE TypeOK
  OBVIOUS
<1>1. Pending \in Results
  BY ResultType DEF Pending
<1> QED BY <1>1, ZoneAssumption DEF Init, TypeOK

LEMMA TypeStep == TypeOK /\ [Next]_vars => TypeOK'
<1> SUFFICES ASSUME TypeOK, [Next]_vars PROVE TypeOK'
  OBVIOUS
<1>1. CASE Found
  BY <1>1, ResultType DEF Found, TypeOK
<1>2. CASE FollowAlias
  <2>1. zone.target[current_name] \in Names
    BY <1>2, ZoneAssumption DEF FollowAlias, TypeOK, Zones
  <2>2. hops + 1 \in 0..MaxChain
    BY <1>2, ZoneAssumption DEF FollowAlias, AtAlias, TypeOK
  <2> QED BY <1>2, <2>1, <2>2 DEF FollowAlias, TypeOK
<1>3. CASE LeaveZone
  BY <1>3, ResultType DEF LeaveZone, TypeOK
<1>4. CASE NoData
  BY <1>4, ResultType, ProofsAreNsecs DEF NoData, TypeOK
<1>5. CASE NxDomain
  BY <1>5, ResultType, ProofsAreNsecs DEF NxDomain, TypeOK
<1>6. CASE UNCHANGED vars
  BY <1>6 DEF vars, TypeOK
<1> QED BY <1>1, <1>2, <1>3, <1>4, <1>5, <1>6 DEF Next

\* Every state is well-typed; no more aliases are followed than MAX_CNAME_CHAIN.
THEOREM TypeCorrect == Spec => []TypeOK
<1>1. Init => TypeOK
  BY TypeInit
<1>2. TypeOK /\ [Next]_vars => TypeOK'
  BY TypeStep
<1> QED BY <1>1, <1>2, PTL DEF Spec

\* A name that does not exist, and that no owner is below, is denied by the NSEC
\* of the owner that covers it.
LEMMA AbsentIsDenied ==
  ASSUME TypeOK, NEW n \in Names, ~name_exists(n)
  PROVE  Denies(Nsec(nsec_covering_owner(n)), n)
<1>1. n \notin Owners
  BY OrderAssumption DEF name_exists
<1> QED BY <1>1, CoveringNsec DEF Denies

\* The properties are about the response, and read nothing that a later step
\* changes.
LEMMA ProvedUnchanged ==
  ASSUME UNCHANGED vars
  PROVE  (NxdomainProved <=> NxdomainProved') /\ (NodataProved <=> NodataProved')
BY DEF vars, NxdomainProved, NodataProved, Proves, Denies, Covers, name_exists,
       closest_encloser, Owners

LEMMA NxdomainStep ==
  TypeOK /\ NxdomainProved /\ [Next]_vars => NxdomainProved'
<1> SUFFICES ASSUME TypeOK, NxdomainProved, [Next]_vars PROVE NxdomainProved'
  OBVIOUS
<1>1. CASE Found
  BY <1>1 DEF Found, NxdomainProved, Result
<1>2. CASE FollowAlias
  BY <1>2 DEF FollowAlias, AtAlias, NxdomainProved, Pending, Result
<1>3. CASE LeaveZone
  BY <1>3 DEF LeaveZone, NxdomainProved, Result
<1>4. CASE NoData
  BY <1>4 DEF NoData, NxdomainProved, Result
<1>5. CASE NxDomain
  <2> DEFINE wildcard == Wildcard[closest_encloser(current_name)]
  <2>1. /\ current_name \in Names /\ wildcard \in Names
        /\ ~name_exists(current_name)
    BY <1>5, EncloserIsName DEF NxDomain, TypeOK
  <2>2. Denies(Nsec(nsec_covering_owner(current_name)), current_name)
    BY <2>1, AbsentIsDenied
  <2>3. ~name_exists(wildcard) => Denies(Nsec(nsec_covering_owner(wildcard)), wildcard)
    BY <2>1, AbsentIsDenied
  <2>4. Proves /\ ~name_exists(wildcard) =>
          /\ \E nsec \in NxdomainProof : Denies(nsec, current_name)
          /\ \E nsec \in NxdomainProof : Denies(nsec, wildcard)
    BY <2>2, <2>3 DEF NxdomainProof
  <2>5. /\ result'.proof = NxdomainProof
        /\ zone' = zone /\ question' = question /\ current_name' = current_name
    BY <1>5 DEF NxDomain, Result
  <2>6. /\ Proves' <=> Proves
        /\ wildcard' = wildcard
        /\ name_exists(wildcard)' <=> name_exists(wildcard)
    BY <2>5 DEF Proves, name_exists, closest_encloser, Owners
  <2> QED BY <2>4, <2>5, <2>6 DEF NxdomainProved, Denies, Covers
<1>6. CASE UNCHANGED vars
  BY <1>6, ProvedUnchanged
<1> QED BY <1>1, <1>2, <1>3, <1>4, <1>5, <1>6 DEF Next

\* In every zone the records of an NXDOMAIN answer deny the name and the wildcard
\* that could have matched it: both are between an owner and the next one, which
\* is not below them.
THEOREM NxdomainIsProved == Spec => []NxdomainProved
<1>1. Init => TypeOK /\ NxdomainProved
  BY TypeInit DEF Init, NxdomainProved, Pending, Result
<1>2. TypeOK /\ NxdomainProved /\ [Next]_vars => TypeOK' /\ NxdomainProved'
  BY TypeStep, NxdomainStep
<1> QED BY <1>1, <1>2, PTL DEF Spec

LEMMA NodataStep ==
  TypeOK /\ NodataProved /\ [Next]_vars => NodataProved'
<1> SUFFICES ASSUME TypeOK, NodataProved, [Next]_vars PROVE NodataProved'
  OBVIOUS
<1>1. CASE Found
  BY <1>1 DEF Found, NodataProved, Result
<1>2. CASE FollowAlias
  BY <1>2 DEF FollowAlias, AtAlias, NodataProved, Pending, Result
<1>3. CASE LeaveZone
  BY <1>3 DEF LeaveZone, NodataProved, Result
<1>4. CASE NoData
  <2>1. /\ current_name \in Names
        /\ name_exists(current_name)
        /\ result'.proof = NodataProof
        /\ zone' = zone /\ question' = question
        /\ current_name' = current_name /\ hops' = hops
    BY <1>4 DEF NoData, Result, TypeOK
  <2>2. SUFFICES ASSUME Proves, hops < MaxChain
                 PROVE  \E nsec \in NodataProof :
                          \/ /\ nsec.owner = current_name
                             /\ {question.type, "CNAME"} \cap nsec.types = {}
                          \/ /\ Covers(nsec, current_name)
                             /\ current_name \in Under[nsec.next]
    BY <2>1 DEF NodataProved, Proves, Covers
  <2>3. CASE current_name \in Owners
    <3>1. {question.type, "CNAME"} \cap zone.types[current_name] = {}
      BY <1>4, <2>2, ZoneAssumption DEF NoData, Unanswered, lookup, TypeOK
    <3>2. /\ Nsec(current_name) \in NodataProof
          /\ Nsec(current_name).owner = current_name
          /\ Nsec(current_name).types = zone.types[current_name]
      BY <2>2, <2>3 DEF NodataProof, Nsec
    <3> QED BY <3>1, <3>2
  <2>4. CASE current_name \notin Owners
    <3> DEFINE nsec == Nsec(nsec_covering_owner(current_name))
    <3>1. Covers(nsec, current_name) /\ current_name \in Under[nsec.next]
      BY <2>1, <2>4, CoveringNsec
    <3>2. nsec \in NodataProof
      BY <2>2, <2>4 DEF NodataProof
    <3> QED BY <3>1, <3>2
  <2> QED BY <2>3, <2>4
<1>5. CASE NxDomain
  BY <1>5 DEF NxDomain, NodataProved, Result
<1>6. CASE UNCHANGED vars
  BY <1>6, ProvedUnchanged
<1> QED BY <1>1, <1>2, <1>3, <1>4, <1>5, <1>6 DEF Next

\* In every zone the record of a NODATA answer lists the types at the name, or
\* covers a name without records whose next owner is below it.
THEOREM NodataIsProved == Spec => []NodataProved
<1>1. Init => TypeOK /\ NodataProved
  BY TypeInit DEF Init, NodataProved, Pending, Result
<1>2. TypeOK /\ NodataProved /\ [Next]_vars => TypeOK' /\ NodataProved'
  BY TypeStep, NodataStep
<1> QED BY <1>1, <1>2, PTL DEF Spec
-----------------------------------------------------------------------------
(* That the canonical order is what OrderAssumption says.                    *)

\* A non-empty set of naturals has a least element.
LEMMA LeastNat ==
  ASSUME NEW S, S \subseteq Nat, S # {}
  PROVE  \E m \in S : \A n \in S : m <= n
<1> DEFINE Initial == {0..n : n \in S}
           R == StrictSubsetOrdering(Nat)
<1>1. Initial \subseteq FiniteSubsetsOf(Nat)
  <2>1. \A n \in S : IsFiniteSet(0..n)
    BY FS_Interval
  <2> QED BY <2>1 DEF FiniteSubsetsOf
<1>2. IsWellFoundedOn(R, FiniteSubsetsOf(Nat))
  BY FS_StrictSubsetOrderingWellFounded
<1>3. Initial # {}
  OBVIOUS
<1>4. PICK x \in Initial : \A y \in Initial : ~(<<y, x>> \in R)
  <2> HIDE DEF Initial, R
  <2> QED BY <1>1, <1>2, <1>3, WFMin, Zenon
<1>5. PICK m \in S : x = 0..m
  OBVIOUS
<1>6. ASSUME NEW n \in S, n < m
      PROVE  FALSE
  <2>1. 0..n \in Initial /\ 0..n \subseteq 0..m /\ 0..n # 0..m
    BY <1>6
  <2>2. <<0..n, 0..m>> \in R
    BY <2>1, <1>1, <1>5 DEF StrictSubsetOrdering, FiniteSubsetsOf
  <2> QED BY <1>4, <1>5, <2>1, <2>2
<1> QED BY <1>6

LEMMA GreatestNat ==
  ASSUME NEW S, S \subseteq Nat, S # {}, NEW bound \in Nat, \A n \in S : n <= bound
  PROVE  \E m \in S : \A n \in S : n <= m
<1> DEFINE T == {bound - n : n \in S}
<1>1. T \subseteq Nat /\ T # {}
  OBVIOUS
<1>2. PICK t \in T : \A u \in T : t <= u
  <2> HIDE DEF T
  <2> QED BY <1>1, LeastNat
<1>3. PICK m \in S : t = bound - m
  BY <1>2
<1>4. ASSUME NEW n \in S
      PROVE  n <= m
  <2>1. bound - n \in T
    OBVIOUS
  <2>2. bound - m <= bound - n
    BY <1>2, <1>3, <2>1
  <2> QED BY <2>2
<1> QED BY <1>4

-----------------------------------------------------------------------------
(* The order of canonical_order.                                            *)

Label == Int
Paths == Seq(Label)

LEMMA SamePath ==
  ASSUME NEW m \in Paths, NEW n \in Paths, Len(m) = Len(n),
         \A k \in 1..Len(m) : m[k] = n[k]
  PROVE  m = n
BY SeqEqual DEF Paths

LEMMA OrderIrreflexive ==
  ASSUME NEW n \in Paths
  PROVE  ~canonical_order(n, n)
BY DEF canonical_order, Paths, Label

LEMMA OrderTransitive ==
  ASSUME NEW l \in Paths, NEW m \in Paths, NEW n \in Paths,
         canonical_order(l, m), canonical_order(m, n)
  PROVE  canonical_order(l, n)
<1>1. PICK i \in 0..Len(l) :
        /\ i <= Len(m)
        /\ \A k \in 1..i : l[k] = m[k]
        /\ \/ i = Len(l) /\ i < Len(m)
           \/ i < Len(l) /\ i < Len(m) /\ l[i + 1] < m[i + 1]
  BY DEF canonical_order
<1>2. PICK j \in 0..Len(m) :
        /\ j <= Len(n)
        /\ \A k \in 1..j : m[k] = n[k]
        /\ \/ j = Len(m) /\ j < Len(n)
           \/ j < Len(m) /\ j < Len(n) /\ m[j + 1] < n[j + 1]
  BY DEF canonical_order
<1>3. \A p \in Paths : Len(p) \in Nat /\ \A k \in 1..Len(p) : p[k] \in Int
  BY DEF Paths, Label
<1>4. CASE i < j
  <2>1. \A k \in 1..i : l[k] = n[k]
    BY <1>1, <1>2, <1>3, <1>4
  <2>2. m[i + 1] = n[i + 1] /\ i < Len(n)
    BY <1>1, <1>2, <1>3, <1>4
  <2> QED BY <1>1, <1>3, <2>1, <2>2 DEF canonical_order
<1>5. CASE j < i
  <2>1. \A k \in 1..j : l[k] = n[k]
    BY <1>1, <1>2, <1>3, <1>5
  <2>2. l[j + 1] = m[j + 1] /\ j < Len(l) /\ j < Len(m)
    BY <1>1, <1>2, <1>3, <1>5
  <2> QED BY <1>1, <1>2, <1>3, <2>1, <2>2 DEF canonical_order
<1>6. CASE i = j
  <2>1. \A k \in 1..i : l[k] = n[k]
    BY <1>1, <1>2, <1>3, <1>6
  <2>2. i < Len(m) /\ j < Len(m) /\ i < Len(n) /\ m[i + 1] < n[i + 1]
    BY <1>1, <1>2, <1>3, <1>6
  <2>3. CASE i = Len(l)
    BY <1>1, <1>3, <2>1, <2>2, <2>3 DEF canonical_order
  <2>4. CASE i < Len(l)
    <3>1. l[i + 1] < m[i + 1]
      BY <1>1, <1>3, <2>4
    <3>2. l[i + 1] \in Int /\ m[i + 1] \in Int /\ n[i + 1] \in Int
      BY <1>3, <2>2, <2>4
    <3>3. l[i + 1] < n[i + 1]
      BY <2>2, <3>1, <3>2
    <3> QED BY <1>1, <1>3, <2>1, <2>2, <2>4, <3>3 DEF canonical_order
  <2> QED BY <1>3, <2>3, <2>4
<1> QED BY <1>3, <1>4, <1>5, <1>6

\* The labels that two names share from the apex down end somewhere.
LEMMA OrderTotal ==
  ASSUME NEW m \in Paths, NEW n \in Paths, m # n
  PROVE  canonical_order(m, n) \/ canonical_order(n, m)
<1>1. /\ Len(m) \in Nat /\ Len(n) \in Nat
      /\ \A k \in 1..Len(m) : m[k] \in Int
      /\ \A k \in 1..Len(n) : n[k] \in Int
  BY DEF Paths, Label
<1> DEFINE Ends == {i \in Nat : i >= Len(m) \/ i >= Len(n) \/ m[i + 1] # n[i + 1]}
<1>2. Ends \subseteq Nat /\ Len(m) \in Ends
  BY <1>1
<1>3. PICK i \in Ends : \A j \in Ends : i <= j
  <2> HIDE DEF Ends
  <2> QED BY <1>2, LeastNat
<1>4. \A j \in Nat : j < i => j < Len(m) /\ j < Len(n) /\ m[j + 1] = n[j + 1]
  <2> SUFFICES ASSUME NEW j \in Nat, j < i
               PROVE  j < Len(m) /\ j < Len(n) /\ m[j + 1] = n[j + 1]
    OBVIOUS
  <2>1. j \notin Ends
    <3>1. i \in Nat /\ ~(i <= j)
      OBVIOUS
    <3> HIDE DEF Ends
    <3> QED BY <1>3, <3>1
  <2> QED BY <1>1, <2>1
<1>5. i \in Nat /\ i <= Len(m) /\ i <= Len(n)
  <2>1. i <= Len(m)
    BY <1>2, <1>3
  <2>2. Len(n) \in Ends
    BY <1>1
  <2> QED BY <1>2, <1>3, <2>1, <2>2
<1>6. \A k \in 1..i : m[k] = n[k]
  <2> SUFFICES ASSUME NEW k \in 1..i PROVE m[k] = n[k]
    OBVIOUS
  <2>1. k - 1 \in Nat /\ k - 1 < i /\ (k - 1) + 1 = k
    BY <1>5
  <2> QED BY <1>4, <2>1
<1>7. CASE i = Len(m) /\ i = Len(n)
  <2>1. m = n
    BY <1>6, <1>7, SamePath
  <2> QED BY <2>1
<1>8. CASE i = Len(m) /\ i < Len(n)
  BY <1>1, <1>5, <1>6, <1>8 DEF canonical_order
<1>9. CASE i < Len(m) /\ i = Len(n)
  BY <1>1, <1>5, <1>6, <1>9 DEF canonical_order
<1>10. CASE i < Len(m) /\ i < Len(n)
  <2>1. m[i + 1] # n[i + 1]
    BY <1>1, <1>3, <1>10
  <2>2. m[i + 1] \in Int /\ n[i + 1] \in Int
    BY <1>1, <1>5, <1>10
  <2>3. m[i + 1] < n[i + 1] \/ n[i + 1] < m[i + 1]
    BY <2>1, <2>2
  <2> QED BY <1>1, <1>5, <1>6, <1>10, <2>3 DEF canonical_order
<1> QED BY <1>1, <1>5, <1>7, <1>8, <1>9, <1>10

\* n is m or below it, label by label.
LEMMA UnderMeans ==
  ASSUME NEW n \in Paths, NEW m \in Paths
  PROVE  IsUnder(n, m) <=> Len(m) <= Len(n) /\ \A k \in 1..Len(m) : m[k] = n[k]
<1>1. ASSUME Len(m) <= Len(n)
      PROVE  /\ SubSeq(n, 1, Len(m)) \in Paths
             /\ Len(SubSeq(n, 1, Len(m))) = Len(m)
             /\ \A k \in 1..Len(m) : SubSeq(n, 1, Len(m))[k] = n[k]
  BY <1>1 DEF Paths, Label
<1> DEFINE q == SubSeq(n, 1, Len(m))
<1>2. ASSUME Len(m) <= Len(n), \A k \in 1..Len(m) : m[k] = n[k]
      PROVE  q = m
  <2>1. q \in Paths /\ Len(q) = Len(m) /\ \A k \in 1..Len(m) : q[k] = m[k]
    BY <1>1, <1>2
  <2> HIDE DEF q
  <2> QED BY <2>1, SamePath
<1> QED BY <1>1, <1>2 DEF IsUnder

\* A name stands before what is below it.
LEMMA AboveIsBefore ==
  ASSUME NEW n \in Paths, NEW m \in Paths, IsUnder(n, m), m # n
  PROVE  canonical_order(m, n)
<1>1. Len(m) \in Nat /\ Len(n) \in Nat /\ Len(m) <= Len(n) /\ \A k \in 1..Len(m) : m[k] = n[k]
  BY UnderMeans DEF Paths
<1>2. Len(m) # Len(n)
  <2> SUFFICES ASSUME Len(m) = Len(n) PROVE m = n
    OBVIOUS
  <2> QED BY <1>1, SamePath
<1> QED BY <1>1, <1>2 DEF canonical_order

\* The names below a name stand together.
LEMMA BelowIsTogether ==
  ASSUME NEW l \in Paths, NEW m \in Paths, NEW n \in Paths,
         IsUnder(n, m), canonical_order(m, l), canonical_order(l, n)
  PROVE  IsUnder(l, m)
<1>1. Len(m) <= Len(n) /\ \A k \in 1..Len(m) : m[k] = n[k]
  BY UnderMeans
<1>2. PICK i \in 0..Len(m) :
        /\ i <= Len(l)
        /\ \A k \in 1..i : m[k] = l[k]
        /\ \/ i = Len(m) /\ i < Len(l)
           \/ i < Len(m) /\ i < Len(l) /\ m[i + 1] < l[i + 1]
  BY DEF canonical_order
<1>3. PICK j \in 0..Len(l) :
        /\ j <= Len(n)
        /\ \A k \in 1..j : l[k] = n[k]
        /\ \/ j = Len(l) /\ j < Len(n)
           \/ j < Len(l) /\ j < Len(n) /\ l[j + 1] < n[j + 1]
  BY DEF canonical_order
<1>4. \A p \in Paths : Len(p) \in Nat /\ \A k \in 1..Len(p) : p[k] \in Int
  BY DEF Paths, Label
<1>5. CASE i = Len(m)
  BY <1>2, <1>4, <1>5, UnderMeans
<1>6. CASE i < Len(m)
  <2>1. i + 1 \in 1..Len(m) /\ i + 1 \in 1..Len(l) /\ i + 1 \in 1..Len(n)
    BY <1>1, <1>2, <1>4, <1>6
  <2>2. m[i + 1] < l[i + 1] /\ m[i + 1] = n[i + 1]
    BY <1>1, <1>2, <1>4, <1>6, <2>1
  <2>3. m[i + 1] \in Int /\ l[i + 1] \in Int
    BY <1>4, <2>1
  <2>4. CASE j > i
    <3>1. l[i + 1] = n[i + 1]
      BY <1>3, <1>4, <2>1, <2>4
    <3> QED BY <2>2, <2>3, <3>1
  <2>5. CASE j = i
    <3>1. l[i + 1] < n[i + 1]
      BY <1>3, <1>4, <2>1, <2>5
    <3> QED BY <2>2, <2>3, <3>1
  <2>6. CASE j < i
    <3>1. j + 1 \in 1..i /\ j < Len(l) /\ j + 1 \in 1..Len(m)
      BY <1>2, <1>3, <1>4, <2>6
    <3>2. l[j + 1] < n[j + 1] /\ l[j + 1] = m[j + 1] /\ m[j + 1] = n[j + 1] /\ l[j + 1] \in Int
      BY <1>1, <1>2, <1>3, <1>4, <3>1
    <3> QED BY <3>2
  <2> QED BY <1>4, <2>4, <2>5, <2>6
<1> QED BY <1>4, <1>5, <1>6

\* Canonical order, by which build_nsec_chain sorts and by which both searches
\* compare, is what the proofs above assume of it, for every zone and all labels:
\* no two names have one place, and what is below a name stands together behind it.
THEOREM CanonicalOrderFits ==
  ASSUME NEW names \in SUBSET Paths, IsFiniteSet(names), <<>> \in names
  PROVE  TreeOrder(names, <<>>,
           [n \in names |-> {m \in names : IsUnder(n, m)}],
           [n \in names |-> Cardinality({m \in names : canonical_order(m, n)})])
<1> DEFINE Before(n) == {m \in names : canonical_order(m, n)}
           rank == [n \in names |-> Cardinality(Before(n))]
           under == [n \in names |-> {m \in names : IsUnder(n, m)}]
<1>1. \A n \in names : IsFiniteSet(Before(n)) /\ Cardinality(Before(n)) \in Nat
                       /\ Cardinality(Before(n)) <= Cardinality(names)
  <2> SUFFICES ASSUME NEW n \in names
               PROVE  IsFiniteSet(Before(n)) /\ Cardinality(Before(n)) \in Nat
                        /\ Cardinality(Before(n)) <= Cardinality(names)
    OBVIOUS
  <2>1. Before(n) \in SUBSET names
    OBVIOUS
  <2> HIDE DEF Before
  <2> QED BY <2>1, FS_Subset, FS_CardinalityType
<1>2. ASSUME NEW m \in names, NEW n \in names, canonical_order(m, n)
      PROVE  rank[m] < rank[n]
  <2>1. Before(m) \in SUBSET Before(n)
    BY <1>2, OrderTransitive
  <2>2. m \in Before(n) /\ m \notin Before(m)
    BY <1>2, OrderIrreflexive
  <2>3. Before(m) # Before(n)
    BY <2>2
  <2>4. rank[m] = Cardinality(Before(m)) /\ rank[n] = Cardinality(Before(n))
    OBVIOUS
  <2> HIDE DEF Before, rank
  <2>5. Cardinality(Before(m)) <= Cardinality(Before(n))
        /\ Cardinality(Before(m)) # Cardinality(Before(n))
    BY <1>1, <2>1, <2>3, FS_Subset
  <2> QED BY <1>1, <2>4, <2>5
<1>3. rank \in [names -> Nat]
  BY <1>1
<1>4. ASSUME NEW m \in names, NEW n \in names, rank[m] <= rank[n]
      PROVE  m = n \/ canonical_order(m, n)
  <2>1. rank[m] \in Nat /\ rank[n] \in Nat
    BY <1>3
  <2> HIDE DEF rank
  <2> QED BY <1>2, <1>4, <2>1, OrderTotal
<1>5. under \in [names -> SUBSET names]
  OBVIOUS
<1>6. \A m, n \in names : rank[m] = rank[n] => m = n
  <2> SUFFICES ASSUME NEW m \in names, NEW n \in names, rank[m] = rank[n], m # n
               PROVE  FALSE
    OBVIOUS
  <2>1. rank[m] \in Nat /\ rank[n] \in Nat
    BY <1>3
  <2> HIDE DEF rank
  <2>2. canonical_order(m, n) \/ canonical_order(n, m)
    BY OrderTotal
  <2> QED BY <1>2, <2>1, <2>2
<1>7. \A n \in names : n \in under[n] /\ <<>> \in under[n]
  <2> SUFFICES ASSUME NEW n \in names PROVE IsUnder(n, n) /\ IsUnder(n, <<>>)
    OBVIOUS
  <2>1. Len(n) \in Nat /\ <<>> \in Paths
    BY DEF Paths
  <2> QED BY <2>1, UnderMeans
<1>8. \A n \in names : \A m \in under[n] : rank[m] <= rank[n]
  <2> SUFFICES ASSUME NEW n \in names, NEW m \in names, IsUnder(n, m)
               PROVE  rank[m] <= rank[n]
    OBVIOUS
  <2>1. rank[m] \in Nat /\ rank[n] \in Nat
    BY <1>3
  <2> HIDE DEF rank
  <2>2. m # n => rank[m] < rank[n]
    BY <1>2, AboveIsBefore
  <2> QED BY <2>1, <2>2
<1>9. \A l, n \in names : \A m \in under[n] :
        rank[m] <= rank[l] /\ rank[l] <= rank[n] => m \in under[l]
  <2> SUFFICES ASSUME NEW l \in names, NEW n \in names, NEW m \in names, IsUnder(n, m),
                      rank[m] <= rank[l], rank[l] <= rank[n]
               PROVE  IsUnder(l, m)
    OBVIOUS
  <2>1. CASE l = m
    <3>1. Len(m) \in Nat
      BY DEF Paths
    <3> QED BY <2>1, <3>1, UnderMeans
  <2>2. CASE l = n
    BY <2>2
  <2>3. CASE l # m /\ l # n
    <3>1. canonical_order(m, l) /\ canonical_order(l, n)
      <4> HIDE DEF rank
      <4> QED BY <1>4, <2>3
    <3> QED BY <3>1, BelowIsTogether
  <2> QED BY <2>1, <2>2, <2>3
<1>10. ASSUME NEW S \in SUBSET names, S # {}
       PROVE  /\ \E m \in S : \A n \in S : rank[n] <= rank[m]
              /\ \E m \in S : \A n \in S : rank[m] <= rank[n]
  <2> DEFINE R == {rank[n] : n \in S}
  <2>1. R \subseteq Nat /\ R # {}
    BY <1>3, <1>10
  <2>2. \A r \in R : r <= Cardinality(names)
    BY <1>1
  <2>3. Cardinality(names) \in Nat
    BY FS_CardinalityType
  <2>4. /\ \E r \in R : \A q \in R : q <= r
        /\ \E r \in R : \A q \in R : r <= q
    <3> HIDE DEF R, rank
    <3> QED BY <2>1, <2>2, <2>3, LeastNat, GreatestNat
  <2> HIDE DEF rank
  <2> QED BY <2>4
<1> HIDE DEF rank, under
<1>11. TreeOrder(names, <<>>, under, rank)
  BY <1>3, <1>5, <1>6, <1>7, <1>8, <1>9, <1>10
<1> QED BY <1>11 DEF rank, under
=============================================================================
