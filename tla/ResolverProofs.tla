--------------------------- MODULE ResolverProofs ---------------------------
(***************************************************************************)
(* For every tree of zones, every set of broken servers and everything they *)
(* may send: the resolver stays within its limits, and what it returns      *)
(* about a sound name is true, is all of the truth or SERVFAIL, and is the  *)
(* truth when no exchange fails and the name is within the limits.  Every   *)
(* step leaves it less to do, in a well-founded order.                     *)
(*                                                                         *)
(* The argument: a call that may be listening to a broken server has been   *)
(* led into a zone without sound names (Safe), because the servers of a     *)
(* zone come either from a server that works, which tells the truth, or     *)
(* from one that was believed only below such a zone; and the addresses     *)
(* that a nested call returns belong to a working nameserver unless they    *)
(* are for such a zone (Calls).                                            *)
(***************************************************************************)
EXTENDS Resolver, SequenceTheorems, FiniteSetTheorems, TLAPS

\* No sound name is at or below z.
Unsound(z) == \A n \in Sound : z \notin Under[n]

Safe(f) ==
  /\ f.zone \in Under[f.name]
  /\ f.servers \cap Broken = {} \/ Unsound(f.zone)
  /\ f.looking => /\ f.referrals < MaxReferrals
                  /\ f.cut \in Under[f.name]
                  /\ f.pending \subseteq Working \/ Unsound(f.cut)

\* Call f has made call g.
Calls(f, g) == f.looking /\ (g.name \in Working \/ Unsound(f.cut))

StackOK(s) ==
  /\ s \in Seq(Frames)
  /\ Len(s) <= MaxDepth + 1
  /\ \A i \in 1..Len(s) : Safe(s[i])
  /\ \A i \in 1..(Len(s) - 1) : Calls(s[i], s[i + 1])

\* An exchange of the walk is with a server of the innermost call.
Talks(s, a) ==
  a # NoServer /\ s # <<>> =>
    /\ a \in s[Len(s)].servers
    /\ ~s[Len(s)].looking
    /\ s[Len(s)].referrals < MaxReferrals

Rest ==
  /\ asked \in Questions
  /\ forwarders \subseteq Forwarders
  /\ server \in Addrs \cup {NoServer}
  /\ tcp \in BOOLEAN
  /\ faults \in 0..MaxFaults
  /\ result \in Results

IInv == Rest /\ StackOK(stack) /\ Talks(stack, server) /\ BrokenServersContained

-----------------------------------------------------------------------------
(* Frames and stacks.                                                       *)

\* A call begins at the root, which only servers that work serve.
LEMMA FrameFacts ==
  ASSUME NEW n \in Names
  PROVE  Frame(n) \in Frames /\ Safe(Frame(n)) /\ Frame(n).name = n
<1>1. Root \in Names /\ Root \in Under[n] /\ 0 \in 0..MaxReferrals
  BY ResolverAssumption
<1>2. Frame(n) =
        [name |-> n, servers |-> RootServers, zone |-> Root, referrals |-> 0,
         visited |-> {}, chain |-> {}, looking |-> FALSE, pending |-> {}, cut |-> Root]
  BY DEF Frame
<1>3. Frame(n) \in Frames
  BY <1>1, <1>2, ResolverAssumption DEF Frames
<1> QED BY <1>1, <1>2, <1>3, SoundAssumption DEF Safe

LEMMA DescendFacts ==
  ASSUME NEW f \in Frames, f.referrals < MaxReferrals,
         NEW S \in SUBSET Addrs, NEW d \in Under[f.name],
         S \cap Broken = {} \/ Unsound(d)
  PROVE  /\ Descend(f, S, d) \in Frames
         /\ Safe(Descend(f, S, d))
         /\ Descend(f, S, d).name = f.name
<1>1. d \in Names
  BY ResolverAssumption DEF Frames
<1>2. f.referrals + 1 \in 0..MaxReferrals
  BY ResolverAssumption DEF Frames
<1>3. Descend(f, S, d) \in Frames
  BY <1>1, <1>2 DEF Descend, Frames
<1>4. /\ Descend(f, S, d).name = f.name
      /\ Descend(f, S, d).servers = S
      /\ Descend(f, S, d).zone = d
      /\ ~Descend(f, S, d).looking
  BY DEF Descend, Frames
<1> QED BY <1>3, <1>4 DEF Safe

LEMMA TopFacts ==
  ASSUME StackOK(stack), stack # <<>>
  PROVE  Len(stack) \in Nat \ {0} /\ Top \in Frames /\ Safe(Top)
<1>1. stack \in Seq(Frames) /\ Len(stack) \in Nat \ {0}
  BY DEF StackOK
<1>2. Top \in Frames
  BY <1>1 DEF Top
<1>3. Safe(stack[Len(stack)])
  BY <1>1 DEF StackOK
<1> QED BY <1>1, <1>2, <1>3 DEF Top

LEMMA WithoutLast ==
  ASSUME NEW F, NEW s \in Seq(F), Len(s) # 0
  PROVE  /\ SubSeq(s, 1, Len(s) - 1) \in Seq(F)
         /\ Len(SubSeq(s, 1, Len(s) - 1)) = Len(s) - 1
         /\ \A i \in 1..(Len(s) - 1) : SubSeq(s, 1, Len(s) - 1)[i] = s[i]
<1>1. CASE Len(s) > 1
  <2>1. Len(SubSeq(s, 1, Len(s) - 1)) = Len(s) - 1
    BY <1>1
  <2>2. \A i \in 1..(Len(s) - 1) : SubSeq(s, 1, Len(s) - 1)[i] = s[i]
    BY <1>1
  <2>3. SubSeq(s, 1, Len(s) - 1) \in Seq(F)
    BY <1>1
  <2> QED BY <2>1, <2>2, <2>3
<1>2. CASE Len(s) = 1
  <2>1. Len(s) - 1 = 0
    BY <1>2
  <2>2. SubSeq(s, 1, 0) \in Seq(F) /\ Len(SubSeq(s, 1, 0)) = 0
    OBVIOUS
  <2>3. 1..0 = {}
    OBVIOUS
  <2> QED BY <2>1, <2>2, <2>3, Zenon
<1> QED
  <2>1. Len(s) > 1 \/ Len(s) = 1
    <3>1. Len(s) \in Nat /\ Len(s) # 0
      OBVIOUS
    <3>2. \A k \in Nat : k # 0 => k > 1 \/ k = 1
      OBVIOUS
    <3> QED BY <3>1, <3>2, Zenon
  <2> QED BY <1>1, <1>2, <2>1, Zenon

LEMMA PopFacts ==
  ASSUME StackOK(stack), stack # <<>>
  PROVE  /\ StackOK(Pop)
         /\ Len(Pop) = Len(stack) - 1
         /\ \A i \in 1..(Len(stack) - 1) : Pop[i] = stack[i]
<1>1. stack \in Seq(Frames) /\ Len(stack) \in Nat \ {0} /\ MaxDepth \in Nat
  BY ResolverAssumption DEF StackOK
<1>2. /\ Pop \in Seq(Frames)
      /\ Len(Pop) = Len(stack) - 1
      /\ \A i \in 1..(Len(stack) - 1) : Pop[i] = stack[i]
  BY <1>1, WithoutLast DEF Pop
<1>3. \A i \in 1..Len(Pop) : Safe(Pop[i])
  BY <1>1, <1>2 DEF StackOK
<1>4. \A i \in 1..(Len(Pop) - 1) : Calls(Pop[i], Pop[i + 1])
  BY <1>1, <1>2 DEF StackOK
<1> QED BY <1>1, <1>2, <1>3, <1>4 DEF StackOK

\* A frame may be put on a stack that is empty or has made the call.
LEMMA PushFacts ==
  ASSUME NEW s, StackOK(s), Len(s) <= MaxDepth, NEW g \in Frames, Safe(g),
         s # <<>> => Calls(s[Len(s)], g)
  PROVE  /\ StackOK(Append(s, g))
         /\ Append(s, g) # <<>>
         /\ Len(Append(s, g)) = Len(s) + 1
         /\ Append(s, g)[Len(s) + 1] = g
         /\ \A i \in 1..Len(s) : Append(s, g)[i] = s[i]
<1>1. s \in Seq(Frames) /\ Len(s) \in Nat /\ MaxDepth \in Nat
  BY ResolverAssumption DEF StackOK
<1>2. /\ Append(s, g) \in Seq(Frames)
      /\ Len(Append(s, g)) = Len(s) + 1
      /\ Append(s, g)[Len(s) + 1] = g
      /\ \A i \in 1..Len(s) : Append(s, g)[i] = s[i]
  BY <1>1
<1>3. \A i \in 1..(Len(s) + 1) : Safe(Append(s, g)[i])
  BY <1>1, <1>2 DEF StackOK
<1>4. \A i \in 1..Len(s) : Calls(Append(s, g)[i], Append(s, g)[i + 1])
  <2> SUFFICES ASSUME NEW i \in 1..Len(s)
               PROVE  Calls(Append(s, g)[i], Append(s, g)[i + 1])
    OBVIOUS
  <2>1. CASE i = Len(s)
    BY <1>1, <1>2, <2>1
  <2>2. CASE i # Len(s)
    BY <1>1, <1>2, <2>2 DEF StackOK
  <2> QED BY <2>1, <2>2
<1>5. Append(s, g) # <<>>
  BY <1>1, <1>2
<1> QED BY <1>1, <1>2, <1>3, <1>4, <1>5 DEF StackOK

\* The innermost call goes on as frame f; only an alias changes its name.
LEMMA ReplaceFacts ==
  ASSUME StackOK(stack), stack # <<>>, NEW f \in Frames, Safe(f),
         \/ f.name = Top.name
         \/ Len(stack) > 1 => Calls(stack[Len(stack) - 1], f)
  PROVE  /\ StackOK(Replace(f))
         /\ Replace(f) # <<>>
         /\ Len(Replace(f)) = Len(stack)
         /\ Replace(f)[Len(stack)] = f
<1>1. Len(stack) \in Nat \ {0} /\ Len(stack) <= MaxDepth + 1 /\ MaxDepth \in Nat
  BY ResolverAssumption DEF StackOK
<1>2. StackOK(Pop) /\ Len(Pop) = Len(stack) - 1
  BY PopFacts
<1>3. ASSUME Pop # <<>> PROVE Calls(Pop[Len(Pop)], f)
  <2>1. Len(stack) > 1
    BY <1>1, <1>2, <1>3 DEF StackOK
  <2>2. Pop[Len(Pop)] = stack[Len(stack) - 1]
    BY <1>1, <1>2, <2>1, PopFacts
  <2>3. Calls(stack[Len(stack) - 1], stack[Len(stack)])
    <3>1. Len(stack) - 1 \in 1..(Len(stack) - 1) /\ (Len(stack) - 1) + 1 = Len(stack)
      BY <1>1, <2>1
    <3> QED BY <3>1 DEF StackOK
  <2>4. CASE f.name = Top.name
    BY <2>2, <2>3, <2>4 DEF Calls, Top
  <2> QED BY <2>1, <2>2, <2>4
<1>4. Len(Pop) <= MaxDepth
  BY <1>1, <1>2
<1> QED BY <1>1, <1>2, <1>3, <1>4, PushFacts DEF Replace

-----------------------------------------------------------------------------
(* What servers say.                                                        *)

LEMMA RecordFacts ==
  ASSUME NEW n \in Names, NEW t \in {"A", "NS", "CNAME", "SOA"},
         NEW d \in Names \cup Addrs
  PROVE  /\ Rr(n, t, d) \in Records
         /\ Rr(n, t, d).owner = n /\ Rr(n, t, d).type = t /\ Rr(n, t, d).data = d
BY DEF Rr, Records

LEMMA BodyFacts ==
  ASSUME NEW rcode \in {"ok", "nxdomain", "servfail", "refused"},
         NEW R \in SUBSET Records, NEW S \in SUBSET Records, NEW T \in SUBSET Records
  PROVE  /\ Body(rcode, R, S, T) \in Bodies
         /\ Body(rcode, R, S, T).answers = R
         /\ Body(rcode, R, S, T).authority = S
         /\ Body(rcode, R, S, T).additional = T
BY DEF Body, Bodies

LEMMA AddressFacts ==
  ASSUME NEW n \in Names
  PROVE  /\ Addresses(n) \subseteq Records
         /\ \A r \in Addresses(n) : /\ r.owner = n /\ r.type = "A"
                                    /\ r.data \in Address[n]
                                    /\ Genuine(r)
<1>1. Address[n] \subseteq Addrs
  BY ResolverAssumption
<1> SUFFICES ASSUME NEW r \in Addresses(n)
             PROVE  /\ r \in Records /\ r.owner = n /\ r.type = "A"
                    /\ r.data \in Address[n] /\ Genuine(r)
  OBVIOUS
<1>2. PICK a \in Address[n] : r = Rr(n, "A", a)
  BY DEF Addresses
<1>3. r \in Records /\ r.owner = n /\ r.type = "A" /\ r.data = a
  BY <1>1, <1>2, RecordFacts
<1> QED BY <1>3 DEF Genuine

\* A server that works tells the truth about the name, and of a zone cut below
\* the root and above the name.
Truthful(b, n) ==
  /\ b \in Bodies
  /\ \A r \in b.answers : r.owner = n /\ Genuine(r)
  /\ Target[n] = n => b.answers \subseteq Addresses(n)
  /\ \A r \in b.authority :
       r.type = "NS" => /\ r.owner \in (Zones \ {Root}) \cap Under[n]
                        /\ r.data \in NS[r.owner]
  /\ \A r \in b.additional : r \in Addresses(r.owner)

LEMMA DelegationIsTrue ==
  ASSUME NEW n \in Names, NEW d \in (Zones \ {Root}) \cap Under[n]
  PROVE  Truthful(Delegation(d), n)
<1> DEFINE S == {Rr(d, "NS", m) : m \in NS[d]}
           T == UNION {Addresses(m) : m \in Glue[d]}
<1>1. d \in Names /\ NS[d] \subseteq Names /\ Glue[d] \subseteq Names
  BY ResolverAssumption
<1>2. S \subseteq Records
  BY <1>1, RecordFacts
<1>3. T \subseteq Records
  BY <1>1, AddressFacts
<1>4. Delegation(d) = Body("ok", {}, S, T)
  BY DEF Delegation
<1>5. ASSUME NEW r \in S PROVE r.owner = d /\ r.data \in NS[d]
  BY <1>1, RecordFacts
<1>6. ASSUME NEW r \in T PROVE r \in Addresses(r.owner)
  BY <1>1, AddressFacts
<1> HIDE DEF S, T
<1>7. /\ Body("ok", {}, S, T) \in Bodies
      /\ Body("ok", {}, S, T).answers = {}
      /\ Body("ok", {}, S, T).authority = S
      /\ Body("ok", {}, S, T).additional = T
  BY <1>2, <1>3, BodyFacts
<1> QED BY <1>4, <1>5, <1>6, <1>7 DEF Truthful

LEMMA InZoneIsTrue ==
  ASSUME NEW n \in Names, NEW z \in Names, NEW t
  PROVE  Truthful(InZone(z, n, t), n)
<1>1. Target[n] \in Names
  BY ResolverAssumption
<1>2. Data(n, t) \subseteq Addresses(n)
  BY DEF Data
<1> DEFINE A == {Rr(n, "CNAME", Target[n])}
           S == {Rr(z, "SOA", z)}
<1>3. /\ S \subseteq Records
      /\ \A r \in S : r.type = "SOA"
  BY RecordFacts
<1>4. A \subseteq Records /\ \A r \in A : r.owner = n /\ Genuine(r)
  BY <1>1, RecordFacts DEF Genuine
<1>5. Data(n, t) \subseteq Records /\ \A r \in Data(n, t) : r.owner = n /\ Genuine(r)
  BY <1>2, AddressFacts
<1> HIDE DEF A, S
<1>6. Truthful(Body("nxdomain", {}, S, {}), n) /\ Truthful(Body("ok", {}, S, {}), n)
  BY <1>3, BodyFacts DEF Truthful
<1>7. Target[n] # n => Truthful(Body("ok", A, {}, {}), n)
  BY <1>4, BodyFacts DEF Truthful
<1>8. Truthful(Body("ok", Data(n, t), {}, {}), n)
  BY <1>2, <1>5, BodyFacts DEF Truthful
<1> QED BY <1>6, <1>7, <1>8 DEF InZone, A, S

LEMMA ZoneFacts ==
  ASSUME NEW n \in Names, NEW S \in SUBSET (Zones \cap Under[n]), S # {}
  PROVE  /\ (CHOOSE y \in S : \A x \in S : x \in Under[y]) \in S
         /\ \A u \in S : u \in Under[CHOOSE y \in S : \A x \in S : x \in Under[y]]
         /\ (CHOOSE y \in S : \A x \in S : y \in Under[x]) \in S
<1> DEFINE z == CHOOSE y \in S : \A x \in S : x \in Under[y]
           d == CHOOSE y \in S : \A x \in S : y \in Under[x]
<1>1. \E y \in S : \A x \in S : x \in Under[y]
  BY TreeAssumption
<1>2. \E y \in S : \A x \in S : y \in Under[x]
  BY TreeAssumption
<1>3. z \in S /\ \A x \in S : x \in Under[z]
  BY <1>1
<1>4. d \in S
  BY <1>2
<1> HIDE DEF z, d
<1> QED BY <1>3, <1>4 DEF z, d

LEMMA HonestIsTrue ==
  ASSUME NEW a \in Addrs, NEW q, q.name \in Names
  PROVE  Truthful(Honest(a, q), q.name)
<1> DEFINE mine == Hosts[a] \cap Under[q.name]
           z == CHOOSE y \in mine : \A x \in mine : x \in Under[y]
           cuts == Below(q.name, z)
           d == CHOOSE y \in cuts : \A x \in cuts : y \in Under[x]
<1>1. mine \in SUBSET (Zones \cap Under[q.name]) /\ Zones \subseteq Names
  BY ResolverAssumption
<1>2. Honest(a, q) = IF mine = {} THEN Body("refused", {}, {}, {})
                     ELSE IF cuts # {} THEN Delegation(d)
                     ELSE InZone(z, q.name, q.type)
  BY DEF Honest
<1>3. cuts \in SUBSET (Zones \cap Under[q.name])
  BY DEF Below
<1>4. mine # {} => z \in mine
  <2> HIDE DEF mine
  <2> QED BY <1>1, ZoneFacts
<1>5. cuts # {} => d \in cuts
  <2> HIDE DEF cuts
  <2> QED BY <1>3, ZoneFacts
<1>6. cuts # {} => d \in (Zones \ {Root}) \cap Under[q.name]
  <2>1. \A y \in cuts : y # Root
    BY TreeAssumption DEF Below
  <2> QED BY <1>3, <1>5, <2>1
<1> HIDE DEF mine, z, cuts, d
<1>7. CASE mine = {}
  <2>1. Honest(a, q) = Body("refused", {}, {}, {})
    BY <1>2, <1>7
  <2> QED BY <2>1, BodyFacts DEF Truthful
<1>8. CASE mine # {} /\ cuts # {}
  <2>1. Honest(a, q) = Delegation(d)
    BY <1>2, <1>8
  <2> QED BY <1>6, <1>8, <2>1, DelegationIsTrue
<1>9. CASE mine # {} /\ cuts = {}
  <2>1. Honest(a, q) = InZone(z, q.name, q.type) /\ z \in Names
    BY <1>1, <1>2, <1>4, <1>9
  <2> QED BY <2>1, InZoneIsTrue
<1> QED BY <1>7, <1>8, <1>9

\* What the walk is told: the truth about the name of the innermost call, or
\* anything when the zone it asks has no sound names.
LEMMA HeardIsSafe ==
  ASSUME IInv, NEW p \in Arriving, Walking(p)
  PROVE  /\ p.body \in Bodies
         /\ Truthful(p.body, Top.name) \/ Unsound(Top.zone)
<1>1. stack # <<>> /\ server \in Addrs /\ p.question = Query
  BY DEF Walking, Accepted, answers_query, Free, IInv, Rest
<1>2. Top \in Frames /\ Safe(Top) /\ server \in Top.servers
  BY <1>1, TopFacts, ResolverAssumption DEF IInv, Talks, Top
<1>3. p.body \in Content(Query)
  BY <1>1 DEF Arriving
<1>4. CASE server \in Broken
  <2>1. p.body \in Junk
    BY <1>1, <1>3, <1>4 DEF Content
  <2>2. Unsound(Top.zone)
    BY <1>2, <1>4 DEF Safe
  <2> QED BY <2>1, <2>2, ResolverAssumption
<1>5. CASE server \notin Broken
  <2>1. p.body = Honest(server, Query)
    BY <1>1, <1>3, <1>5 DEF Content
  <2>2. Query.name = Top.name
    BY <1>1 DEF Query
  <2>3. Top.name \in Names
    BY <1>2 DEF Frames
  <2>4. Truthful(Honest(server, Query), Query.name)
    BY <1>1, <2>2, <2>3, HonestIsTrue
  <2> QED BY <2>1, <2>2, <2>4 DEF Truthful
<1> QED BY <1>4, <1>5

\* A sound name is never asked for in a zone without sound names.
LEMMA SoundNameIsTold ==
  ASSUME IInv, NEW p \in Arriving, Walking(p), Top.name \in Sound
  PROVE  Truthful(p.body, Top.name)
<1>1. Safe(Top)
  BY TopFacts DEF IInv, Walking
<1>2. ~Unsound(Top.zone)
  BY <1>1 DEF Safe, Unsound
<1> QED BY <1>2, HeardIsSafe

\* A delegation that is followed leads to working servers, or to a zone
\* without sound names.
LEMMA DelegationIsSafe ==
  ASSUME IInv, NEW p \in Arriving, Walking(p), NEW r \in Delegations(p),
         Descends(r.owner)
  PROVE  /\ r.owner \in Under[Top.name]
         /\ r.owner \in Names
         /\ ns_names(p, r.owner) \subseteq Names
         /\ ns_names(p, r.owner) \subseteq Working \/ Unsound(r.owner)
         /\ GlueFor(p, r.owner) \subseteq Addrs
         /\ GlueFor(p, r.owner) \cap Broken = {} \/ Unsound(r.owner)
<1> DEFINE d == r.owner
<1>1. /\ d \in Under[Top.name]
      /\ ns_names(p, d) \subseteq Names
      /\ GlueFor(p, d) \subseteq Addrs
      /\ r \in p.body.authority /\ r.type = "NS" /\ Top.zone \in Under[d]
  BY DEF Descends, in_bailiwick, ns_names, GlueFor, Delegations, Authority, Within
<1>2. p.body \in Bodies /\ (Truthful(p.body, Top.name) \/ Unsound(Top.zone))
  BY HeardIsSafe
<1>3. d \in Names
  BY <1>1, <1>2 DEF Bodies, Records
<1>4. CASE Truthful(p.body, Top.name)
  <2>1. d \in Zones \ {Root} /\ \A x \in Delegations(p) : x.owner = d => x.data \in NS[d]
    BY <1>1, <1>4 DEF Truthful, Delegations, Authority, Within
  <2>2. ns_names(p, d) \subseteq NS[d]
    BY <2>1 DEF ns_names
  <2>3. CASE Unsound(d)
    BY <1>1, <1>3, <2>3
  <2>4. CASE ~Unsound(d)
    <3>1. NS[d] \subseteq Working
      BY <2>1, <2>4, SoundAssumption DEF Unsound
    <3>2. ns_names(p, d) \subseteq Working
      BY <2>2, <3>1
    <3>3. ASSUME NEW a \in GlueFor(p, d) PROVE a \notin Broken
      <4>1. PICK x \in Additional(p) : x.owner \in ns_names(p, d) /\ x.data = a
        BY DEF GlueFor
      <4>2. x \in Addresses(x.owner) /\ x.owner \in Names
        BY <1>1, <1>4, <4>1 DEF Truthful, Additional, Within
      <4>3. a \in Address[x.owner]
        BY <4>1, <4>2, AddressFacts
      <4> QED BY <3>2, <4>1, <4>3 DEF Working
    <3> QED BY <1>1, <1>3, <3>2, <3>3
  <2> QED BY <2>3, <2>4
<1>5. CASE Unsound(Top.zone)
  <2>1. Unsound(d)
    BY <1>1, <1>5, TreeAssumption, SoundAssumption DEF Unsound
  <2> QED BY <1>1, <1>3, <2>1
<1> QED BY <1>2, <1>4, <1>5

-----------------------------------------------------------------------------
(* The end of a call.                                                       *)

LEMMA UpdateLast ==
  ASSUME NEW s, StackOK(s), s # <<>>, NEW f \in Frames, Safe(f),
         f.name = s[Len(s)].name
  PROVE  StackOK([s EXCEPT ![Len(s)] = f])
<1> DEFINE t == [s EXCEPT ![Len(s)] = f]
<1>1. s \in Seq(Frames) /\ Len(s) \in Nat \ {0}
  BY DEF StackOK
<1>2. /\ t \in Seq(Frames)
      /\ Len(t) = Len(s)
      /\ t[Len(s)] = f
      /\ \A i \in 1..(Len(s) - 1) : t[i] = s[i]
  BY <1>1
<1> HIDE DEF t
<1>3. \A i \in 1..Len(s) : Safe(t[i])
  BY <1>1, <1>2 DEF StackOK
<1>4. ASSUME NEW i \in 1..(Len(s) - 1) PROVE Calls(t[i], t[i + 1])
  <2>1. Calls(s[i], s[i + 1]) /\ t[i] = s[i]
    BY <1>1, <1>2 DEF StackOK
  <2>2. t[i + 1].name = s[i + 1].name
    <3>1. CASE i + 1 = Len(s)
      BY <1>2, <3>1
    <3>2. CASE i + 1 # Len(s)
      <4>1. i + 1 \in 1..(Len(s) - 1)
        BY <1>1, <3>2
      <4> QED BY <1>2, <4>1
    <3> QED BY <3>1, <3>2
  <2> QED BY <2>1, <2>2 DEF Calls
<1>5. StackOK(t)
  BY <1>2, <1>3, <1>4 DEF StackOK
<1> QED BY <1>5 DEF t

\* What a call may return: nothing untrue of sound names, and for a working
\* nameserver only the addresses of servers that work.
Fair(r) ==
  /\ r \in Results
  /\ \A x \in r.answers : x.owner \in Sound => Genuine(x)
  /\ Top.name \in Working => Found(r) \cap Broken = {}

LEMMA ReturnIsSafe ==
  ASSUME IInv, stack # <<>>, NEW r, Fair(r), Return(r)
  PROVE  StackOK(stack') /\ result' \in Results /\ BrokenServersContained'
<1>1. Len(stack) \in Nat \ {0} /\ StackOK(stack) /\ StackOK(Pop) /\ Len(Pop) = Len(stack) - 1
  BY TopFacts, PopFacts DEF IInv
<1>2. CASE Len(stack) = 1
  <2>1. stack' = <<>> /\ result' = r
    BY <1>2 DEF Return
  <2>2. StackOK(<<>>)
    <3>1. <<>> \in Seq(Frames) /\ Len(<<>>) = 0 /\ 1..0 = {} /\ 1..(0 - 1) = {}
      OBVIOUS
    <3>2. 0 <= MaxDepth + 1
      BY ResolverAssumption
    <3> QED BY <3>1, <3>2, Zenon DEF StackOK
  <2> QED BY <2>1, <2>2 DEF Fair, BrokenServersContained, Genuine
<1>3. CASE Len(stack) # 1
  <2> DEFINE caller == stack[Len(stack) - 1]
             S == IF r.kind = "answer" THEN Found(r) ELSE {}
             f == Descend(caller, S, caller.cut)
  <2>1. /\ stack' = IF S = {} THEN Pop ELSE [Pop EXCEPT ![Len(stack) - 1] = f]
        /\ result' = result
    BY <1>3 DEF Return
  <2>2. result' \in Results /\ BrokenServersContained'
    BY <2>1 DEF IInv, Rest, BrokenServersContained, Genuine
  <2>3. /\ Len(stack) - 1 \in 1..Len(stack)
        /\ Len(stack) - 1 \in 1..(Len(stack) - 1)
        /\ (Len(stack) - 1) + 1 = Len(stack)
    BY <1>1, <1>3
  <2>4. caller \in Frames /\ Safe(caller) /\ Calls(caller, Top)
    BY <1>1, <2>3 DEF StackOK, Top
  <2>5. S \in SUBSET Addrs
    BY DEF Found
  <2>6. S \cap Broken = {} \/ Unsound(caller.cut)
    BY <2>4 DEF Fair, Calls
  <2>7. caller.cut \in Under[caller.name] /\ caller.referrals < MaxReferrals
    BY <2>4 DEF Calls, Safe
  <2> HIDE DEF S, caller
  <2>8. f \in Frames /\ Safe(f) /\ f.name = caller.name
    BY <2>4, <2>5, <2>6, <2>7, DescendFacts
  <2> HIDE DEF f
  <2>9. Pop[Len(Pop)] = caller /\ Pop # <<>>
    <3>1. Pop[Len(stack) - 1] = stack[Len(stack) - 1]
      BY <1>1, <2>3, PopFacts
    <3>2. Len(Pop) # 0
      BY <1>1, <1>3
    <3> QED BY <1>1, <3>1, <3>2 DEF caller
  <2>10. StackOK([Pop EXCEPT ![Len(Pop)] = f])
    BY <1>1, <2>8, <2>9, UpdateLast
  <2> QED BY <1>1, <2>1, <2>2, <2>10
<1> QED BY <1>2, <1>3

LEMMA EmptyResults ==
  ASSUME NEW kind \in {"answer", "nxdomain", "servfail"},
         NEW rcode \in {"ok", "nxdomain", "servfail", "refused"}
  PROVE  Fair(Result(kind, rcode, {}))
<1>1. Result(kind, rcode, {}) \in Results /\ Result(kind, rcode, {}).answers = {}
  BY DEF Result, Results
<1> QED BY <1>1 DEF Fair, Found

LEMMA ServFailIsFair == Fair(ServFail)
BY EmptyResults DEF ServFail

\* The answers that the walk returns.
LEMMA AnswersAreFair ==
  ASSUME IInv, NEW p \in Arriving, Walking(p)
  PROVE  Fair(Result("answer", p.body.rcode, Answers(p)))
<1> DEFINE r == Result("answer", p.body.rcode, Answers(p))
<1>1. p.body \in Bodies /\ (Truthful(p.body, Top.name) \/ Unsound(Top.zone))
  BY HeardIsSafe
<1>2. Answers(p) \subseteq p.body.answers /\ \A x \in Answers(p) : Top.zone \in Under[x.owner]
  BY DEF Answers, Within, in_bailiwick
<1>3. r \in Results /\ r.answers = Answers(p)
  BY <1>1, <1>2 DEF Result, Results, Bodies
<1>4. \A x \in Answers(p) : x.owner \in Sound => Genuine(x)
  BY <1>1, <1>2 DEF Truthful, Unsound
<1>5. ASSUME Top.name \in Working PROVE Found(r) \cap Broken = {}
  <2>1. Top.name \in Sound /\ Target[Top.name] = Top.name /\ Top.name \in Names
        /\ Address[Top.name] \cap Broken = {}
    BY <1>5, SoundAssumption DEF Working
  <2>2. Answers(p) \subseteq Addresses(Top.name)
    BY <1>2, <2>1, SoundNameIsTold DEF Truthful
  <2>3. \A x \in Answers(p) : x.data \in Address[Top.name]
    BY <2>1, <2>2, AddressFacts
  <2> QED BY <1>3, <2>1, <2>3 DEF Found
<1> QED BY <1>3, <1>4, <1>5 DEF Fair

-----------------------------------------------------------------------------
(* Every step preserves the invariant.                                      *)

LEMMA InitIsSafe == Init => IInv
<1>1. <<>> \in Seq(Frames) /\ Len(<<>>) = 0 /\ 1..0 = {} /\ 1..(0 - 1) = {}
  OBVIOUS
<1>2. 0 <= MaxDepth + 1 /\ 0 \in 0..MaxFaults
  BY ResolverAssumption
<1>3. StackOK(<<>>)
  BY <1>1, <1>2, Zenon DEF StackOK
<1>4. NoResult \in Results /\ NoResult.answers = {}
  BY DEF NoResult, Result, Results
<1> QED BY <1>2, <1>3, <1>4 DEF Init, IInv, Rest, Talks, BrokenServersContained

\* A call that returns with no exchange in progress.
LEMMA ReturnStep ==
  ASSUME IInv, stack # <<>>, NEW r, Fair(r), Return(r),
         asked' = asked, forwarders' = forwarders, faults' = faults,
         server' = NoServer, tcp' \in BOOLEAN
  PROVE  IInv'
<1>1. StackOK(stack') /\ result' \in Results /\ BrokenServersContained'
  BY ReturnIsSafe
<1>2. Rest'
  BY <1>1 DEF IInv, Rest
<1> QED BY <1>1, <1>2 DEF IInv, Talks, StackOK, Safe, Calls

\* A step that changes neither the stack nor the result.
LEMMA ExchangeStep ==
  ASSUME IInv, stack' = stack, result' = result, asked' = asked,
         forwarders' \subseteq forwarders, faults' \in 0..MaxFaults,
         tcp' \in BOOLEAN, server' \in Addrs \cup {NoServer},
         stack # <<>> => server' \in {server, NoServer}
  PROVE  IInv'
<1>1. Rest' /\ BrokenServersContained' /\ StackOK(stack')
  BY DEF IInv, Rest, BrokenServersContained, Genuine
<1>2. Talks(stack', server')
  BY DEF IInv, Talks
<1> QED BY <1>1, <1>2 DEF IInv, StackOK, Safe, Calls

\* A step that changes the stack; an exchange may begin.
LEMMA StackStep ==
  ASSUME IInv, StackOK(stack'), Talks(stack', server'), result' = result,
         asked' = asked, forwarders' = forwarders, faults' = faults,
         tcp' \in BOOLEAN, server' \in Addrs \cup {NoServer}
  PROVE  IInv'
<1>1. Rest' /\ BrokenServersContained'
  BY DEF IInv, Rest, BrokenServersContained, Genuine
<1> QED BY <1>1 DEF IInv, StackOK, Safe, Calls, Talks

LEMMA SendToIsSafe ==
  ASSUME IInv, NEW a \in Addrs, SendTo(a)
  PROVE  IInv'
<1> DEFINE f == Visit(Top, a)
<1>1. stack # <<>> /\ ~Top.looking /\ Top.referrals < MaxReferrals
      /\ a \in Top.servers
  BY DEF SendTo, Asking, Running, Fresh
<1>2. Top \in Frames /\ Safe(Top) /\ StackOK(stack)
  BY <1>1, TopFacts DEF IInv
<1>3. /\ f \in Frames
      /\ f.name = Top.name /\ f.servers = Top.servers /\ f.zone = Top.zone
      /\ f.referrals = Top.referrals /\ f.looking = Top.looking
  BY <1>2 DEF Visit, Frames
<1> HIDE DEF f
<1>4. Safe(f)
  BY <1>1, <1>2, <1>3 DEF Safe
<1>5. StackOK(Replace(f)) /\ Len(Replace(f)) = Len(stack) /\ Replace(f)[Len(stack)] = f
  BY <1>1, <1>2, <1>3, <1>4, ReplaceFacts
<1>6. stack' = Replace(f) /\ server' = a
  BY DEF SendTo, f
<1>7. Talks(stack', server')
  BY <1>1, <1>3, <1>5, <1>6 DEF Talks
<1> QED BY <1>5, <1>6, <1>7, StackStep DEF SendTo, IInv, Rest

LEMMA FollowAliasIsSafe ==
  ASSUME IInv, NEW p \in Arriving, FollowAlias(p)
  PROVE  IInv'
<1>1. PICK r \in Aliases(p) : /\ r.data \in Names
                              /\ stack' = Replace(Restart(Top, r.data))
  BY DEF FollowAlias
<1> DEFINE f == Restart(Top, r.data)
<1>2. Walking(p) /\ stack # <<>> /\ server # NoServer
  BY DEF FollowAlias, Walking, Accepted, Free
<1>3. Top \in Frames /\ Safe(Top) /\ StackOK(stack)
  BY <1>2, TopFacts DEF IInv
<1>4. ~Top.looking /\ Top.referrals < MaxReferrals
  BY <1>2 DEF IInv, Talks, Top
<1>5. Root \in Names /\ Root \in Under[r.data]
  BY <1>1, ResolverAssumption
<1>6. Top.referrals + 1 \in 0..MaxReferrals /\ Top.chain \cup {Top.name} \in SUBSET Names
  BY <1>3, <1>4, ResolverAssumption DEF Frames
<1>7. /\ f \in Frames
      /\ f.name = r.data /\ f.servers = RootServers /\ f.zone = Root
      /\ f.looking = Top.looking
  BY <1>1, <1>3, <1>5, <1>6, ResolverAssumption DEF Restart, Frames
<1> HIDE DEF f
<1>8. Safe(f)
  BY <1>4, <1>5, <1>7, SoundAssumption DEF Safe
<1>9. Top.name \notin Working
  <2> SUFFICES ASSUME Top.name \in Working PROVE FALSE
    OBVIOUS
  <2>1. Top.name \in Sound /\ Target[Top.name] = Top.name /\ Top.name \in Names
    BY SoundAssumption DEF Working
  <2>2. r \in p.body.answers /\ r.type = "CNAME"
    BY DEF Aliases, Answers, Within
  <2>3. r \in Addresses(Top.name)
    BY <1>2, <2>1, <2>2, SoundNameIsTold DEF Truthful
  <2> QED BY <2>1, <2>2, <2>3, AddressFacts
<1>10. ASSUME Len(stack) > 1 PROVE Calls(stack[Len(stack) - 1], f)
  <2>1. Len(stack) \in Nat
    BY <1>3 DEF StackOK
  <2>2. /\ Len(stack) - 1 \in 1..(Len(stack) - 1)
        /\ (Len(stack) - 1) + 1 = Len(stack)
    BY <1>10, <2>1
  <2>3. Calls(stack[Len(stack) - 1], Top)
    BY <1>3, <2>2 DEF StackOK, Top
  <2> QED BY <1>9, <2>3 DEF Calls
<1>11. StackOK(Replace(f))
  BY <1>2, <1>3, <1>7, <1>8, <1>10, ReplaceFacts
<1>12. stack' = Replace(f) /\ server' = NoServer /\ tcp' = FALSE
  BY <1>1 DEF FollowAlias, Done, f
<1> QED BY <1>11, <1>12, StackStep DEF FollowAlias, Talks

LEMMA ReferralIsSafe ==
  ASSUME IInv, NEW p \in Arriving, Referral(p)
  PROVE  IInv'
<1>1. PICK r \in Delegations(p) :
         /\ Descends(r.owner)
         /\ stack' = Replace(Descend(Top, GlueFor(p, r.owner), r.owner))
  BY DEF Referral
<1>2. Walking(p) /\ stack # <<>> /\ server # NoServer
  BY DEF Referral, Delegating, Walking, Accepted, Free
<1>3. Top \in Frames /\ StackOK(stack) /\ Top.referrals < MaxReferrals
  BY <1>2, TopFacts DEF IInv, Talks, Top
<1> DEFINE f == Descend(Top, GlueFor(p, r.owner), r.owner)
<1>4. /\ r.owner \in Under[Top.name]
      /\ GlueFor(p, r.owner) \in SUBSET Addrs
      /\ GlueFor(p, r.owner) \cap Broken = {} \/ Unsound(r.owner)
  BY <1>1, <1>2, DelegationIsSafe
<1>5. f \in Frames /\ Safe(f) /\ f.name = Top.name
  BY <1>3, <1>4, DescendFacts
<1>6. stack' = Replace(f) /\ server' = NoServer /\ tcp' = FALSE
  BY <1>1 DEF Referral, Done
<1> HIDE DEF f
<1>7. StackOK(Replace(f))
  BY <1>2, <1>3, <1>5, ReplaceFacts
<1> QED BY <1>6, <1>7, StackStep DEF Referral, Talks

LEMMA GluelessIsSafe ==
  ASSUME IInv, NEW p \in Arriving, Glueless(p)
  PROVE  IInv'
<1>1. PICK r \in Delegations(p) :
         /\ Descends(r.owner)
         /\ stack' = Replace([Top EXCEPT !.looking = TRUE, !.cut = r.owner,
                                         !.pending = ns_names(p, r.owner)])
  BY DEF Glueless
<1>2. Walking(p) /\ stack # <<>> /\ server # NoServer
  BY DEF Glueless, Delegating, Walking, Accepted, Free
<1>3. Top \in Frames /\ Safe(Top) /\ StackOK(stack) /\ Top.referrals < MaxReferrals
  BY <1>2, TopFacts DEF IInv, Talks, Top
<1> DEFINE f == [Top EXCEPT !.looking = TRUE, !.cut = r.owner,
                            !.pending = ns_names(p, r.owner)]
<1>4. /\ r.owner \in Under[Top.name] /\ r.owner \in Names
      /\ ns_names(p, r.owner) \subseteq Names
      /\ ns_names(p, r.owner) \subseteq Working \/ Unsound(r.owner)
  BY <1>1, <1>2, DelegationIsSafe
<1>5. /\ f \in Frames
      /\ f.name = Top.name /\ f.servers = Top.servers /\ f.zone = Top.zone
      /\ f.referrals = Top.referrals /\ f.cut = r.owner
      /\ f.pending = ns_names(p, r.owner)
  BY <1>3, <1>4 DEF Frames
<1>6. stack' = Replace(f) /\ server' = NoServer /\ tcp' = FALSE
  BY <1>1 DEF Glueless, Done
<1> HIDE DEF f
<1>7. Safe(f)
  BY <1>3, <1>4, <1>5 DEF Safe
<1>8. StackOK(Replace(f))
  BY <1>2, <1>3, <1>5, <1>7, ReplaceFacts
<1> QED BY <1>6, <1>8, StackStep DEF Glueless, Talks

LEMMA LookUpIsSafe ==
  ASSUME IInv, NEW n \in Names, LookUp(n)
  PROVE  IInv'
<1>1. stack # <<>> /\ Top.looking /\ server = NoServer /\ n \in Top.pending
  BY DEF LookUp, Looking, Running, Free
<1>2. /\ Top \in Frames /\ Safe(Top) /\ StackOK(stack)
      /\ Len(stack) \in Nat \ {0} /\ MaxDepth \in Nat
  BY <1>1, TopFacts, ResolverAssumption DEF IInv
<1> DEFINE f == [Top EXCEPT !.pending = @ \ {n}]
<1>3. /\ f \in Frames
      /\ f.name = Top.name /\ f.servers = Top.servers /\ f.zone = Top.zone
      /\ f.referrals = Top.referrals /\ f.cut = Top.cut
      /\ f.looking = Top.looking /\ f.pending = Top.pending \ {n}
  BY <1>2 DEF Frames
<1>4. stack' = IF Len(stack) > MaxDepth THEN Replace(f)
               ELSE Append(Replace(f), Frame(n))
  BY DEF LookUp
<1> HIDE DEF f
<1>5. Safe(f)
  BY <1>2, <1>3 DEF Safe
<1>6. /\ StackOK(Replace(f)) /\ Replace(f) # <<>>
      /\ Len(Replace(f)) = Len(stack) /\ Replace(f)[Len(stack)] = f
  BY <1>1, <1>2, <1>3, <1>5, ReplaceFacts
<1>7. Frame(n) \in Frames /\ Safe(Frame(n)) /\ Frame(n).name = n
  BY FrameFacts
<1>8. Calls(f, Frame(n))
  BY <1>1, <1>2, <1>3, <1>7 DEF Safe, Calls
<1>9. Len(stack) <= MaxDepth => StackOK(Append(Replace(f), Frame(n)))
  BY <1>6, <1>7, <1>8, PushFacts
<1>10. StackOK(stack')
  BY <1>2, <1>4, <1>6, <1>9
<1> QED BY <1>1, <1>10, StackStep DEF LookUp, Talks, IInv, Rest

LEMMA StartIsSafe ==
  ASSUME IInv, StartIterative
  PROVE  IInv'
<1>1. /\ stack' = <<Frame(asked.name)>> /\ server' = NoServer /\ tcp' = tcp
      /\ result' = result /\ asked' = asked /\ forwarders' = forwarders
      /\ faults' = faults
  BY DEF StartIterative, Free
<1>2. asked.name \in Names
  BY ResolverAssumption DEF IInv, Rest, Asked
<1>3. Frame(asked.name) \in Frames /\ Safe(Frame(asked.name))
  BY <1>2, FrameFacts
<1>4. StackOK(<<Frame(asked.name)>>)
  <2>1. MaxDepth + 1 >= 1
    BY ResolverAssumption
  <2> QED BY <1>3, <2>1 DEF StackOK
<1> QED BY <1>1, <1>4, StackStep DEF Talks, IInv, Rest

LEMMA ForwarderAnswerIsSafe ==
  ASSUME IInv, NEW p \in Arriving, ForwarderAnswered(p)
  PROVE  IInv'
<1>1. stack = <<>> /\ p.question = Query /\ server' = NoServer /\ tcp' = FALSE
  BY DEF ForwarderAnswered, Accepted, answers_query, Done
<1>2. p.body \in Content(Query) /\ Query = asked
  BY <1>1 DEF Arriving, Query
<1>3. p.body = Recursive(asked) \/ p.body = FailureBody
  BY <1>1, <1>2 DEF Content
<1> DEFINE n == Canonical[asked.name]
           A == Data(n, asked.type)
<1>4. n \in Names
  BY ResolverAssumption DEF IInv, Rest, Asked
<1>5. A \subseteq Records /\ \A x \in A : Genuine(x)
  BY <1>4, AddressFacts DEF Data
<1> HIDE DEF n
<1>6. /\ p.body.rcode \in {"ok", "nxdomain", "servfail", "refused"}
      /\ p.body.answers \subseteq A
  BY <1>3 DEF Recursive, FailureBody, Body, n
<1> HIDE DEF A
<1>7. /\ result' = IF p.body.rcode = "nxdomain"
                   THEN Result("nxdomain", "nxdomain", {})
                   ELSE Result("answer", p.body.rcode, p.body.answers)
      /\ asked' = asked /\ forwarders' = forwarders /\ faults' = faults
      /\ stack' = stack
  BY DEF ForwarderAnswered
<1>8. result' \in Results /\ result'.answers \subseteq A
  BY <1>5, <1>6, <1>7 DEF Result, Results
<1>9. BrokenServersContained'
  BY <1>5, <1>8 DEF BrokenServersContained, Genuine
<1>10. Rest'
  BY <1>1, <1>7, <1>8 DEF IInv, Rest
<1> QED BY <1>1, <1>7, <1>9, <1>10 DEF IInv, StackOK, Safe, Calls, Talks

\* One of the replies that end the innermost call.
LEMMA LastReplyIsSafe ==
  ASSUME IInv, NEW p \in Arriving,
         \/ NxDomain(p) \/ Answered(p) \/ AliasLoop(p)
         \/ BogusReferral(p) \/ EmptyReply(p)
  PROVE  IInv'
<1>1. /\ Walking(p) /\ stack # <<>> /\ server' = NoServer /\ tcp' \in BOOLEAN
      /\ asked' = asked /\ forwarders' = forwarders /\ faults' = faults
  BY DEF NxDomain, Answered, AliasLoop, BogusReferral, EmptyReply, Delegating,
         Walking, Done
<1>2. p.body.rcode \in {"ok", "nxdomain", "servfail", "refused"}
  BY <1>1, HeardIsSafe DEF Bodies
<1>3. ASSUME NEW r, Fair(r), Return(r) PROVE IInv'
  BY <1>1, <1>3, ReturnStep
<1>4. CASE NxDomain(p)
  BY <1>3, <1>4, EmptyResults DEF NxDomain
<1>5. CASE Answered(p)
  BY <1>1, <1>3, <1>5, AnswersAreFair DEF Answered
<1>6. CASE AliasLoop(p)
  BY <1>3, <1>6, ServFailIsFair DEF AliasLoop
<1>7. CASE BogusReferral(p)
  BY <1>3, <1>7, ServFailIsFair DEF BogusReferral
<1>8. CASE EmptyReply(p)
  BY <1>2, <1>3, <1>8, EmptyResults DEF EmptyReply
<1> QED BY <1>4, <1>5, <1>6, <1>7, <1>8

LEMMA NextIsSafe == IInv /\ [Next]_vars => IInv'
<1> SUFFICES ASSUME IInv, [Next]_vars PROVE IInv'
  OBVIOUS
<1>1. CASE UNCHANGED vars
  BY <1>1, ExchangeStep DEF vars, IInv, Rest
<1>2. CASE Fail
  <2>1. faults + 1 \in 0..MaxFaults
    BY <1>2, ResolverAssumption DEF Fail, IInv, Rest
  <2> QED BY <1>2, <2>1, ExchangeStep DEF Fail
<1>3. CASE Call
  <2>1. ASSUME NEW f \in Forwarders, AskForwarder(f) PROVE IInv'
    <3>1. f \in Addrs
      BY ResolverAssumption
    <3> QED BY <2>1, <3>1, ExchangeStep DEF AskForwarder, IInv, Rest
  <2>2. ASSUME NEW a \in Addrs, SendTo(a) PROVE IInv'
    BY <2>2, SendToIsSafe
  <2>3. ASSUME NEW n \in Names, LookUp(n) PROVE IInv'
    BY <2>3, LookUpIsSafe
  <2>4. ASSUME TooManyReferrals \/ AllServersFailed \/ NoneFound PROVE IInv'
    <3>1. /\ stack # <<>> /\ server' = NoServer /\ tcp' = tcp
          /\ asked' = asked /\ forwarders' = forwarders /\ faults' = faults
          /\ Return(ServFail)
      BY <2>4 DEF TooManyReferrals, AllServersFailed, NoneFound, Asking, Looking,
                  Running, Free
    <3>2. tcp \in BOOLEAN
      BY DEF IInv, Rest
    <3> QED BY <3>1, <3>2, ServFailIsFair, ReturnStep
  <2> QED BY <1>3, <2>1, <2>2, <2>3, <2>4, StartIsSafe DEF Call
<1>4. CASE Arrive
  <2>1. PICK p \in Arriving : Receive(p)
    BY <1>4 DEF Arrive
  <2>2. CASE Ignore(p) \/ Mismatch(p) \/ Truncated(p) \/ ForwarderFailed(p)
    <3>1. /\ asked' = asked /\ forwarders' = forwarders /\ stack' = stack
          /\ result' = result /\ faults' = faults
          /\ server' \in {server, NoServer} /\ tcp' \in {tcp, TRUE, FALSE}
      BY <2>2 DEF Ignore, Mismatch, Truncated, ForwarderFailed, Done, vars
    <3> QED BY <3>1, ExchangeStep DEF IInv, Rest
  <2>3. CASE FollowAlias(p)
    BY <2>3, FollowAliasIsSafe
  <2>4. CASE Referral(p)
    BY <2>4, ReferralIsSafe
  <2>5. CASE Glueless(p)
    BY <2>5, GluelessIsSafe
  <2>6. CASE ForwarderAnswered(p)
    BY <2>6, ForwarderAnswerIsSafe
  <2>7. CASE \/ NxDomain(p) \/ Answered(p) \/ AliasLoop(p)
             \/ BogusReferral(p) \/ EmptyReply(p)
    BY <2>7, LastReplyIsSafe
  <2> QED BY <2>1, <2>2, <2>3, <2>4, <2>5, <2>6, <2>7 DEF Receive
<1> QED BY <1>1, <1>2, <1>3, <1>4 DEF Next

LEMMA Invariance == Spec => []IInv
BY InitIsSafe, NextIsSafe, PTL DEF Spec

\* The limits hold whatever servers say: no call is nested more deeply than
\* MAX_NS_LOOKUP_DEPTH, no call follows more than MAX_REFERRALS referrals and
\* aliases, and what a frame holds are servers and names (resolver.rs:166, 285).
THEOREM TypeCorrect == Spec => []TypeOK
<1>1. IInv => TypeOK
  BY DEF IInv, Rest, StackOK, TypeOK
<1> QED BY <1>1, Invariance, PTL

\* For every tree of zones and whatever its broken servers send, resolve()
\* returns nothing untrue of a name that working servers alone have a say in:
\* the bailiwick checks of iterative_resolve hold along referrals, glue, aliases
\* and nested lookups of nameservers (resolver.rs:206).
THEOREM BrokenServersAreContained == Spec => []BrokenServersContained
<1>1. IInv => BrokenServersContained
  BY DEF IInv
<1> QED BY <1>1, Invariance, PTL
-----------------------------------------------------------------------------
(* What is returned of a sound name is the whole truth, or SERVFAIL.  A      *)
(* server of the zone that is asked is loaded with it (Placed), so that it   *)
(* does not refuse and delegates only towards the name; a nested call is for *)
(* a nameserver of the zone that its caller goes on to (MadeBy); and the     *)
(* outermost call is for the name asked or an alias on the way from it.      *)

Placed(f) ==
  f.name \in Sound =>
    /\ f.zone \in Zones
    /\ \A a \in f.servers : f.zone \in Hosts[a]
    /\ f.looking => f.cut \in Zones \ {Root} /\ f.pending \subseteq NS[f.cut]

MadeBy(f, g) == f.name \in Sound => g.name \in NS[f.cut] /\ g.chain = {}

OnTheWay(n) == asked.name \in Sound => n \in Sound /\ Canonical[n] = Canonical[asked.name]

RightStack(s) ==
  /\ \A i \in 1..Len(s) : Placed(s[i])
  /\ \A i \in 1..(Len(s) - 1) : MadeBy(s[i], s[i + 1])
  /\ s # <<>> => OnTheWay(s[1].name)

Right == RightStack(stack) /\ RightOrServFail

\* Server a has no zone of n at z or below.
Past(a, n, z) == \A h \in Hosts[a] \cap Under[n] : z \notin Under[h]

LEMMA UnderFacts ==
  ASSUME NEW n \in Names, NEW m \in Under[n]
  PROVE  /\ m \in Names /\ m \in Under[m] /\ Under[m] \subseteq Under[n]
         /\ n \in Under[m] => m = n
         /\ Root \in Zones /\ Root \in Under[n]
BY ResolverAssumption, TreeAssumption

\* A server that is loaded with a zone of the name delegates below it, to a zone
\* that it is not loaded with, or answers from that zone or one below.
LEMMA HonestCases ==
  ASSUME NEW a \in Addrs, NEW q, q.name \in Names, NEW y \in Hosts[a] \cap Under[q.name]
  PROVE  \/ \E d \in Below(q.name, y) \ {Root} :
              Honest(a, q) = Delegation(d) /\ Past(a, q.name, d)
         \/ \E z \in Zones \cap Under[q.name] :
              y \in Under[z] /\ Honest(a, q) = InZone(z, q.name, q.type)
<1> DEFINE n == q.name
           mine == Hosts[a] \cap Under[n]
           z == CHOOSE u \in mine : \A x \in mine : x \in Under[u]
           cuts == Below(n, z)
           d == CHOOSE u \in cuts : \A x \in cuts : u \in Under[x]
<1>1. mine \in SUBSET (Zones \cap Under[n]) /\ mine # {}
  BY ResolverAssumption
<1>2. Honest(a, q) = IF cuts # {} THEN Delegation(d) ELSE InZone(z, n, q.type)
  BY DEF Honest
<1>3. z \in mine /\ \A x \in mine : x \in Under[z]
  <2> HIDE DEF mine
  <2> QED BY <1>1, ZoneFacts
<1>4. z \in Zones \cap Under[n] /\ y \in Under[z]
  BY <1>1, <1>3
<1> HIDE DEF z
<1>5. CASE cuts = {}
  BY <1>2, <1>4, <1>5
<1>6. CASE cuts # {}
  <2>1. cuts \in SUBSET (Zones \cap Under[n])
    BY DEF Below
  <2>2. d \in cuts
    <3> HIDE DEF cuts
    <3> QED BY <1>6, <2>1, ZoneFacts
  <2> HIDE DEF d
  <2>3. d \in Zones /\ d \in Under[n] /\ d # z /\ z \in Under[d]
    BY <2>2 DEF Below
  <2>4. d \in Names /\ z \in Names /\ Under[d] \subseteq Under[n]
    BY <1>4, <2>3, UnderFacts
  <2>5. d \notin Under[z] /\ Under[z] \subseteq Under[d]
    BY <2>3, <2>4, UnderFacts
  <2>6. d # y /\ y \in Under[d]
    BY <1>4, <2>5
  <2>7. d # Root
    BY <1>4, <2>3, <2>5, UnderFacts
  <2>8. Past(a, n, d)
    <3> SUFFICES ASSUME NEW h \in mine, d \in Under[h] PROVE FALSE
      BY DEF Past
    <3>1. h \in Under[z]
      BY <1>3
    <3>2. Under[h] \subseteq Under[z]
      BY <2>4, <3>1, UnderFacts
    <3> QED BY <2>5, <3>2
  <2>9. Honest(a, q) = Delegation(d)
    BY <1>2, <1>6
  <2>10. d \in Below(n, y) \ {Root}
    BY <2>3, <2>6, <2>7 DEF Below
  <2> QED BY <2>8, <2>9, <2>10
<1> QED BY <1>5, <1>6

LEMMA TopIsPlaced ==
  ASSUME IInv, RightStack(stack), stack # <<>>, Top.name \in Sound
  PROVE  /\ Top \in Frames /\ Top.name \in Names /\ ~Unsound(Top.zone)
         /\ Top.zone \in Zones \cap Under[Top.name]
         /\ \A a \in Top.servers : Top.zone \in Hosts[a] /\ a \in Addrs \ Broken
<1>1. Len(stack) \in Nat \ {0} /\ Top \in Frames /\ Safe(Top)
  BY TopFacts DEF IInv
<1>2. Placed(Top)
  BY <1>1 DEF RightStack, Top
<1>3. ~Unsound(Top.zone)
  BY <1>1 DEF Safe, Unsound
<1> QED BY <1>1, <1>2, <1>3 DEF Placed, Safe, Frames

\* What the walk is told about a sound name.
LEMMA SoundReply ==
  ASSUME IInv, RightStack(stack), NEW p \in Arriving, Walking(p), Top.name \in Sound
  PROVE  \/ \E d \in Below(Top.name, Top.zone) \ {Root} :
              p.body = Delegation(d) /\ Past(server, Top.name, d)
         \/ \E z \in Zones \cap Under[Top.name] :
              Top.zone \in Under[z] /\ p.body = InZone(z, Top.name, Query.type)
<1>1. stack # <<>> /\ server \in Addrs /\ p.question = Query
  BY DEF Walking, Accepted, answers_query, Free, IInv, Rest
<1>2. server \in Top.servers
  BY <1>1, ResolverAssumption DEF IInv, Talks, Top
<1>3. /\ Top.zone \in Hosts[server] \cap Under[Top.name] /\ server \notin Broken
      /\ Top.name \in Names
  BY <1>1, <1>2, TopIsPlaced
<1>4. p.body \in Content(Query)
  BY <1>1 DEF Arriving
<1>5. p.body = Honest(server, Query)
  BY <1>1, <1>3, <1>4 DEF Content
<1>6. Query.name = Top.name
  BY <1>1 DEF Query
<1> QED BY <1>1, <1>3, <1>5, <1>6, HonestCases

\* A delegation to d as the resolver reads it.
ReadsDelegation(p, d) ==
  /\ p.body.rcode = "ok" /\ Answers(p) = {}
  /\ Delegations(p) # {} /\ Authority(p) # {}
  /\ \A r \in Delegations(p) : r.owner = d
  /\ ns_names(p, d) = NS[d] /\ NS[d] # {} /\ NS[d] \subseteq Working
  /\ \A a \in GlueFor(p, d) : a \in Addrs /\ d \in Hosts[a]
  /\ Glued(d) => GlueFor(p, d) # {}

\* An answer about the records of type t at n as the resolver reads it.
ReadsAnswer(p, n, t) ==
  /\ Delegations(p) = {}
  /\ n \notin Existing => p.body.rcode = "nxdomain"
  /\ n \in Existing => p.body.rcode = "ok"
  /\ n \in Existing /\ Target[n] # n =>
       Answers(p) # {} /\ \A r \in Answers(p) : r.type = "CNAME" /\ r.data = Target[n]
  /\ n \in Existing /\ Target[n] = n => Answers(p) = Data(n, t) /\ Aliases(p) = {}
  /\ n \in Existing /\ Target[n] = n /\ Data(n, t) = {} => Authority(p) # {}

LEMMA DelegationRead ==
  ASSUME NEW n \in Sound, NEW d \in Below(n, Top.zone) \ {Root},
         NEW p, p.body = Delegation(d)
  PROVE  ReadsDelegation(p, d)
<1>1. /\ n \in Names /\ d \in (Zones \ {Root}) \cap Under[n] /\ d \in Names
      /\ Top.zone \in Under[d]
      /\ NS[d] \subseteq Names /\ Glue[d] \subseteq Names
  BY SoundAssumption, ResolverAssumption DEF Below
<1>2. /\ NS[d] # {} /\ NS[d] \subseteq Working
      /\ \A m \in NS[d] : \A a \in Address[m] : d \in Hosts[a]
  BY <1>1, SoundAssumption, ServedAssumption
<1> DEFINE S == {Rr(d, "NS", m) : m \in NS[d]}
           T == UNION {Addresses(m) : m \in Glue[d]}
<1>3. /\ p.body.rcode = "ok" /\ p.body.answers = {} /\ p.body.authority = S
      /\ p.body.additional = T
  BY DEF Delegation, Body
<1>4. \A m \in NS[d] : /\ Rr(d, "NS", m).owner = d /\ Rr(d, "NS", m).type = "NS"
                       /\ Rr(d, "NS", m).data = m
  BY DEF Rr
<1>5. \A x \in S : x.owner = d /\ x.type = "NS" /\ x.data \in NS[d]
  BY <1>4
<1>6. Delegations(p) = S /\ Authority(p) = S
  BY <1>1, <1>3, <1>5 DEF Delegations, Authority, Within, in_bailiwick
<1>7. ns_names(p, d) = NS[d]
  <2>1. \A m \in NS[d] : Rr(d, "NS", m) \in S
    OBVIOUS
  <2> HIDE DEF S
  <2> QED BY <1>1, <1>4, <1>5, <1>6, <2>1 DEF ns_names
<1>8. S # {}
  BY <1>2
<1>9. ASSUME NEW a \in GlueFor(p, d) PROVE a \in Addrs /\ d \in Hosts[a]
  <2>1. PICK x \in T : x.owner \in NS[d] /\ x.data = a /\ a \in Addrs
    BY <1>3, <1>7 DEF GlueFor, Additional, Within
  <2>2. PICK m \in Glue[d] : x \in Addresses(m)
    BY <2>1
  <2>3. x.owner = m /\ a \in Address[m]
    BY <1>1, <2>1, <2>2, AddressFacts
  <2> QED BY <1>2, <2>1, <2>3
<1>10. ASSUME Glued(d) PROVE GlueFor(p, d) # {}
  <2>1. PICK m \in Glue[d] \cap NS[d] : d \in Under[m] /\ Address[m] # {}
    BY <1>10 DEF Glued
  <2>2. PICK a \in Address[m] : TRUE
    BY <2>1
  <2>3. m \in Names /\ a \in Addrs
    BY <1>1, <2>1, <2>2, ResolverAssumption
  <2>4. Top.zone \in Under[m]
    BY <1>1, <2>1, <2>3, UnderFacts
  <2>5. /\ Rr(m, "A", a) \in T /\ Rr(m, "A", a).owner = m
        /\ Rr(m, "A", a).type = "A" /\ Rr(m, "A", a).data = a
    BY <2>1 DEF Addresses, Rr
  <2> HIDE DEF T
  <2>6. Rr(m, "A", a) \in Additional(p)
    BY <1>3, <2>4, <2>5 DEF Additional, Within, in_bailiwick
  <2>7. a \in GlueFor(p, d)
    BY <1>7, <2>1, <2>3, <2>5, <2>6 DEF GlueFor
  <2> QED BY <2>7
<1>11. Answers(p) = {}
  BY <1>3 DEF Answers, Within
<1> HIDE DEF S
<1> QED BY <1>2, <1>3, <1>5, <1>6, <1>7, <1>8, <1>9, <1>10, <1>11 DEF ReadsDelegation

LEMMA AnswerRead ==
  ASSUME NEW n \in Names, NEW z \in Names, Top.zone \in Under[z], Top.zone \in Under[n],
         NEW t, NEW p, p.body = InZone(z, n, t)
  PROVE  ReadsAnswer(p, n, t)
<1> DEFINE A == {Rr(n, "CNAME", Target[n])}
           S == {Rr(z, "SOA", z)}
<1>1. \A x \in S : x.owner = z /\ x.type = "SOA"
  BY DEF Rr
<1>2. \A x \in A : x.owner = n /\ x.type = "CNAME" /\ x.data = Target[n]
  BY DEF Rr
<1>3. A # {} /\ S # {}
  OBVIOUS
<1>4. \A x \in Data(n, t) : x.owner = n /\ x.type = "A"
  BY AddressFacts DEF Data
<1>5. p.body = CASE n \notin Existing -> Body("nxdomain", {}, S, {})
                 [] n \in Existing /\ Target[n] # n -> Body("ok", A, {}, {})
                 [] n \in Existing /\ Target[n] = n /\ Data(n, t) # {} ->
                      Body("ok", Data(n, t), {}, {})
                 [] OTHER -> Body("ok", {}, S, {})
  BY DEF InZone
<1> HIDE DEF A, S
<1> USE DEF Body, Answers, Authority, Aliases, Delegations, Within, in_bailiwick,
            ReadsAnswer
<1>6. CASE n \notin Existing
  <2>1. p.body = Body("nxdomain", {}, S, {})
    BY <1>5, <1>6
  <2> QED BY <1>1, <1>6, <2>1
<1>7. CASE n \in Existing /\ Target[n] # n
  <2>1. p.body = Body("ok", A, {}, {})
    BY <1>5, <1>7
  <2> QED BY <1>2, <1>3, <1>7, <2>1
<1>8. CASE n \in Existing /\ Target[n] = n /\ Data(n, t) # {}
  <2>1. p.body = Body("ok", Data(n, t), {}, {})
    BY <1>5, <1>8
  <2> QED BY <1>4, <1>8, <2>1
<1>9. CASE n \in Existing /\ Target[n] = n /\ Data(n, t) = {}
  <2>1. p.body = Body("ok", {}, S, {})
    BY <1>5, <1>9
  <2> QED BY <1>1, <1>3, <1>9, <2>1
<1> QED BY <1>6, <1>7, <1>8, <1>9

-----------------------------------------------------------------------------
(* Stacks of rightly placed calls.                                          *)

LEMMA ReplaceAt ==
  ASSUME StackOK(stack), stack # <<>>, NEW f \in Frames
  PROVE  /\ Len(stack) \in Nat \ {0}
         /\ Replace(f) \in Seq(Frames) /\ Len(Replace(f)) = Len(stack)
         /\ Replace(f)[Len(stack)] = f
         /\ \A i \in 1..(Len(stack) - 1) : Replace(f)[i] = stack[i]
<1>1. Len(stack) \in Nat \ {0}
  BY DEF StackOK
<1>2. /\ Pop \in Seq(Frames) /\ Len(Pop) = Len(stack) - 1
      /\ \A i \in 1..(Len(stack) - 1) : Pop[i] = stack[i]
  BY PopFacts DEF StackOK
<1>3. Replace(f) = Append(Pop, f)
  BY DEF Replace
<1> HIDE DEF Replace
<1> QED BY <1>1, <1>2, <1>3

\* A nested call for a sound name is for a nameserver that works.
LEMMA CalleeWorks ==
  ASSUME StackOK(stack), RightStack(stack), NEW i \in 1..(Len(stack) - 1),
         stack[i].name \in Sound
  PROVE  stack[i].looking /\ stack[i + 1].name \in Working /\ stack[i + 1].chain = {}
<1>1. Len(stack) \in Nat
  BY DEF StackOK
<1>2. Safe(stack[i]) /\ Calls(stack[i], stack[i + 1])
  BY <1>1 DEF StackOK
<1>3. Placed(stack[i]) /\ MadeBy(stack[i], stack[i + 1])
  BY <1>1 DEF RightStack
<1>4. stack[i].cut \in (Zones \ {Root}) \cap Under[stack[i].name]
  BY <1>2, <1>3 DEF Placed, Safe, Calls
<1>5. NS[stack[i].cut] \subseteq Working
  BY <1>4, SoundAssumption
<1> QED BY <1>2, <1>3, <1>5 DEF MadeBy, Calls

LEMMA PopRight ==
  ASSUME StackOK(stack), RightStack(stack), stack # <<>>
  PROVE  RightStack(Pop)
<1>1. Len(stack) \in Nat \ {0}
  BY DEF StackOK
<1>2. /\ Len(Pop) = Len(stack) - 1
      /\ \A i \in 1..(Len(stack) - 1) : Pop[i] = stack[i]
  BY PopFacts
<1>3. \A i \in 1..Len(Pop) : Placed(Pop[i])
  BY <1>1, <1>2 DEF RightStack
<1>4. \A i \in 1..(Len(Pop) - 1) : MadeBy(Pop[i], Pop[i + 1])
  BY <1>1, <1>2 DEF RightStack
<1>5. Pop # <<>> => Pop[1] = stack[1]
  <2> SUFFICES ASSUME Pop # <<>> PROVE 1 \in 1..(Len(stack) - 1)
    BY <1>2
  <2>1. Pop \in Seq(Frames)
    BY PopFacts DEF StackOK
  <2> QED BY <1>1, <1>2, <2>1
<1> QED BY <1>3, <1>4, <1>5 DEF RightStack

LEMMA PushRight ==
  ASSUME NEW s \in Seq(Frames), RightStack(s), NEW g \in Frames, Placed(g),
         s # <<>> => MadeBy(s[Len(s)], g),
         s = <<>> => OnTheWay(g.name)
  PROVE  RightStack(Append(s, g))
<1> DEFINE t == Append(s, g)
<1>1. /\ Len(s) \in Nat /\ Len(t) = Len(s) + 1 /\ t[Len(s) + 1] = g
      /\ \A i \in 1..Len(s) : t[i] = s[i]
      /\ s = <<>> <=> Len(s) = 0
  OBVIOUS
<1> HIDE DEF t
<1>2. \A i \in 1..Len(t) : Placed(t[i])
  BY <1>1 DEF RightStack
<1>3. ASSUME NEW i \in 1..(Len(t) - 1) PROVE MadeBy(t[i], t[i + 1])
  <2>1. CASE i = Len(s)
    BY <1>1, <2>1
  <2>2. CASE i # Len(s)
    <3>1. i \in 1..(Len(s) - 1) /\ i \in 1..Len(s) /\ i + 1 \in 1..Len(s)
      BY <1>1, <2>2
    <3>2. t[i] = s[i] /\ t[i + 1] = s[i + 1]
      BY <1>1, <3>1
    <3> QED BY <3>1, <3>2 DEF RightStack
  <2> QED BY <2>1, <2>2
<1>4. OnTheWay(t[1].name)
  <2>1. CASE s = <<>>
    BY <1>1, <2>1
  <2>2. CASE s # <<>>
    BY <1>1, <2>2 DEF RightStack
  <2> QED BY <2>1, <2>2
<1> QED BY <1>2, <1>3, <1>4 DEF RightStack, t

\* The innermost call goes on, under its name or, unless a sound name waits for
\* it, under another.
LEMMA ReplaceRight ==
  ASSUME StackOK(stack), RightStack(stack), stack # <<>>, NEW f \in Frames, Placed(f),
         \/ f.name = Top.name /\ f.chain = Top.chain
         \/ /\ Top.name \notin Working
            /\ Len(stack) = 1 => OnTheWay(f.name)
  PROVE  RightStack(Replace(f))
<1>1. /\ Len(stack) \in Nat \ {0}
      /\ Pop \in Seq(Frames) /\ Len(Pop) = Len(stack) - 1
      /\ \A i \in 1..(Len(stack) - 1) : Pop[i] = stack[i]
  BY PopFacts DEF StackOK
<1>2. ASSUME Pop # <<>> PROVE MadeBy(Pop[Len(Pop)], f)
  <2> DEFINE k == Len(stack) - 1
  <2>1. k \in 1..k /\ k + 1 = Len(stack) /\ Pop[Len(Pop)] = stack[k]
    BY <1>1, <1>2
  <2>2. MadeBy(stack[k], stack[k + 1])
    BY <2>1 DEF RightStack
  <2>3. stack[k].name \in Sound => stack[k + 1].name \in Working
    BY <2>1, CalleeWorks
  <2>4. stack[k + 1] = Top
    BY <2>1 DEF Top
  <2> HIDE DEF k
  <2> QED BY <2>1, <2>2, <2>3, <2>4 DEF MadeBy
<1>3. ASSUME Pop = <<>> PROVE OnTheWay(f.name)
  <2>1. Len(stack) = 1
    BY <1>1, <1>3
  <2>2. OnTheWay(Top.name)
    BY <2>1 DEF RightStack, Top
  <2> QED BY <2>1, <2>2
<1>4. RightStack(Pop)
  BY PopRight
<1> QED BY <1>1, <1>2, <1>3, <1>4, PushRight DEF Replace

LEMMA UpdateLastRight ==
  ASSUME NEW s \in Seq(Frames), s # <<>>, RightStack(s), NEW f \in Frames, Placed(f),
         f.name = s[Len(s)].name, f.chain = s[Len(s)].chain
  PROVE  RightStack([s EXCEPT ![Len(s)] = f])
<1> DEFINE t == [s EXCEPT ![Len(s)] = f]
<1>1. /\ Len(s) \in Nat \ {0} /\ Len(t) = Len(s) /\ t # <<>> /\ t[Len(s)] = f
      /\ \A i \in 1..(Len(s) - 1) : t[i] = s[i]
  OBVIOUS
<1> HIDE DEF t
<1>2. \A i \in 1..Len(s) : t[i].name = s[i].name /\ t[i].chain = s[i].chain
  <2> SUFFICES ASSUME NEW i \in 1..Len(s)
               PROVE  t[i].name = s[i].name /\ t[i].chain = s[i].chain
    OBVIOUS
  <2>1. i = Len(s) \/ i \in 1..(Len(s) - 1)
    BY <1>1
  <2> QED BY <1>1, <2>1
<1>3. \A i \in 1..Len(s) : Placed(t[i])
  BY <1>1 DEF RightStack
<1>4. ASSUME NEW i \in 1..(Len(s) - 1) PROVE MadeBy(t[i], t[i + 1])
  <2>1. i \in 1..Len(s) /\ i + 1 \in 1..Len(s) /\ t[i] = s[i] /\ MadeBy(s[i], s[i + 1])
    BY <1>1 DEF RightStack
  <2>2. t[i + 1].name = s[i + 1].name /\ t[i + 1].chain = s[i + 1].chain
    BY <1>2, <2>1
  <2> QED BY <2>1, <2>2 DEF MadeBy
<1>5. OnTheWay(t[1].name)
  BY <1>1, <1>2 DEF RightStack
<1> QED BY <1>1, <1>3, <1>4, <1>5 DEF RightStack, t

\* What a call for n may return of records of type t.
RightFor(r, n, t) ==
  \/ r = ServFail
  \/ n \notin Existing /\ r = Result("nxdomain", "nxdomain", {})
  \/ n \in Existing /\ Target[n] = n /\ r = Result("answer", "ok", Data(n, t))

LEMMA FoundFacts ==
  ASSUME NEW n \in Names, NEW kind, NEW rcode
  PROVE  Found(Result(kind, rcode, Data(n, "A"))) = Address[n]
<1> DEFINE r == Result(kind, rcode, Data(n, "A"))
<1>1. r.answers = Addresses(n) /\ Address[n] \subseteq Addrs
  BY ResolverAssumption DEF Result, Data
<1>2. \A x \in Addresses(n) : x.type = "A" /\ x.data \in Address[n]
  BY AddressFacts
<1>3. ASSUME NEW a \in Address[n] PROVE \E x \in Addresses(n) : x.type = "A" /\ x.data = a
  <2>1. Rr(n, "A", a) \in Addresses(n)
    BY DEF Addresses
  <2>2. Rr(n, "A", a).type = "A" /\ Rr(n, "A", a).data = a
    BY DEF Rr
  <2> QED BY <2>1, <2>2
<1> HIDE DEF r
<1>4. Found(r) = Address[n]
  BY <1>1, <1>2, <1>3 DEF Found
<1> QED BY <1>4 DEF r

\* The call that takes the answer to a nested one.
LEMMA CallerFacts ==
  ASSUME IInv, RightStack(stack), Len(stack) > 1, stack[Len(stack) - 1].name \in Sound
  PROVE  LET c == stack[Len(stack) - 1]
         IN  /\ c \in Frames /\ c.looking /\ c.referrals < MaxReferrals
             /\ c.cut \in (Zones \ {Root}) \cap Under[c.name]
             /\ Top.name \in NS[c.cut] \cap Working /\ Top.chain = {}
             /\ \A a \in Address[Top.name] : c.cut \in Hosts[a]
<1> DEFINE k == Len(stack) - 1
           c == stack[k]
<1>1. Len(stack) \in Nat /\ StackOK(stack)
  BY DEF IInv, StackOK
<1>2. k \in 1..(Len(stack) - 1) /\ k \in 1..Len(stack) /\ k + 1 = Len(stack)
  BY <1>1
<1>3. stack[k + 1] = Top
  BY <1>2 DEF Top
<1>4. c \in Frames /\ Safe(c) /\ Calls(c, Top)
  BY <1>2, <1>3 DEF IInv, StackOK
<1>5. Placed(c) /\ MadeBy(c, Top)
  BY <1>2, <1>3 DEF RightStack
<1>6. c.looking /\ Top.name \in Working /\ Top.chain = {}
  BY <1>1, <1>2, <1>3, CalleeWorks
<1>7. c.cut \in (Zones \ {Root}) \cap Under[c.name]
  BY <1>4, <1>5, <1>6 DEF Safe, Placed
<1>8. \A m \in NS[c.cut] : \A a \in Address[m] : c.cut \in Hosts[a]
  BY <1>7, ServedAssumption
<1>9. Top.name \in NS[c.cut]
  BY <1>5 DEF MadeBy
<1> HIDE DEF c
<1> QED BY <1>4, <1>6, <1>7, <1>8, <1>9 DEF Safe, c

LEMMA ReturnIsRight ==
  ASSUME IInv, Right, stack # <<>>, NEW r, Fair(r), Return(r), asked' = asked,
         Top.name \in Sound => RightFor(r, Top.name, Query.type)
  PROVE  Right'
<1>1. /\ Len(stack) \in Nat \ {0} /\ StackOK(stack) /\ Len(Pop) = Len(stack) - 1
      /\ Pop \in Seq(Frames)
  BY TopFacts, PopFacts DEF IInv, StackOK
<1>2. RightStack(stack)
  BY DEF Right
<1>3. CASE Len(stack) = 1
  <2>1. stack' = <<>> /\ result' = r
    BY <1>3 DEF Return
  <2>2. RightStack(stack)'
    <3>1. Len(<<>>) = 0 /\ 1..0 = {} /\ 1..(0 - 1) = {}
      OBVIOUS
    <3>2. /\ \A i \in 1..0 : Placed(<<>>[i])
          /\ \A i \in 1..(0 - 1) : MadeBy(<<>>[i], <<>>[i + 1])
      BY <3>1
    <3> QED BY <2>1, <3>1, <3>2 DEF RightStack, Placed, MadeBy
  <2>3. Query.type = asked.type /\ Top = stack[1]
    BY <1>3, <1>1 DEF Query, Top
  <2>4. ASSUME asked.name \in Sound PROVE r \in {Truth(asked), ServFail}
    <3> DEFINE n == Top.name
    <3>1. n \in Sound /\ Canonical[n] = Canonical[asked.name]
      BY <1>2, <2>3, <2>4 DEF RightStack, OnTheWay
    <3>2. n \notin Existing \/ Target[n] = n => Canonical[asked.name] = n
      BY <3>1, ServedAssumption
    <3>3. RightFor(r, n, asked.type)
      BY <2>3, <3>1
    <3> HIDE DEF n
    <3> QED BY <3>2, <3>3 DEF RightFor, Truth
  <2> QED BY <2>1, <2>2, <2>4 DEF Right, RightOrServFail, Truth
<1>4. CASE Len(stack) # 1
  <2> DEFINE c == stack[Len(stack) - 1]
             S == IF r.kind = "answer" THEN Found(r) ELSE {}
             f == Descend(c, S, c.cut)
  <2>1. /\ stack' = IF S = {} THEN Pop ELSE [Pop EXCEPT ![Len(stack) - 1] = f]
        /\ result' = result
    BY <1>4 DEF Return
  <2>2. RightStack(Pop)
    BY <1>1, <1>2, PopRight
  <2>3. /\ Len(stack) > 1 /\ Len(stack) - 1 \in 1..(Len(stack) - 1)
        /\ Len(stack) - 1 \in 1..Len(stack)
    BY <1>1, <1>4
  <2>4. Pop # <<>> /\ Pop[Len(Pop)] = c
    BY <1>1, <1>4, <2>3, PopFacts
  <2>5. c \in Frames /\ Safe(c) /\ Calls(c, Top)
    <3>1. (Len(stack) - 1) + 1 = Len(stack)
      BY <1>1
    <3> QED BY <1>1, <2>3, <3>1 DEF StackOK, Top
  <2>6. S \in SUBSET Addrs /\ c.cut \in Names /\ c.referrals < MaxReferrals
    BY <2>5 DEF Found, Frames, Safe, Calls
  <2>7. f \in Frames /\ f.name = c.name /\ f.chain = c.chain /\ f.servers = S
        /\ f.zone = c.cut /\ ~f.looking
    <3> HIDE DEF S, c
    <3>1. c.referrals + 1 \in 0..MaxReferrals
      BY <2>5, <2>6, ResolverAssumption DEF Frames
    <3> QED BY <2>5, <2>6, <3>1 DEF Descend, Frames
  <2>8. Placed(f)
    <3> SUFFICES ASSUME c.name \in Sound
                 PROVE  c.cut \in Zones /\ \A a \in S : c.cut \in Hosts[a]
      BY <2>7 DEF Placed
    <3>1. /\ c.cut \in Zones /\ Top.name \in Working
          /\ \A a \in Address[Top.name] : c.cut \in Hosts[a]
      BY <1>2, <2>3, CallerFacts
    <3>2. Top.name \in Sound /\ Top.name \in Names
      BY <3>1, SoundAssumption DEF Working
    <3>3. Query.type = "A"
      BY <1>4, <2>3 DEF Query
    <3>4. RightFor(r, Top.name, "A")
      BY <3>2, <3>3
    <3>5. ASSUME r.kind = "answer" PROVE Found(r) = Address[Top.name]
      <4>1. r = Result("answer", "ok", Data(Top.name, "A"))
        BY <3>4, <3>5 DEF RightFor, ServFail, Result
      <4> QED BY <3>2, <4>1, FoundFacts
    <3> QED BY <3>1, <3>5
  <2> HIDE DEF f, c, S
  <2>9. RightStack([Pop EXCEPT ![Len(Pop)] = f])
    BY <1>1, <2>2, <2>4, <2>7, <2>8, UpdateLastRight
  <2>10. RightStack(stack')
    BY <1>1, <2>1, <2>2, <2>9
  <2>11. RightStack(stack)'
    BY <2>10 DEF RightStack, OnTheWay, Placed, MadeBy
  <2> QED BY <2>1, <2>11 DEF Right, RightOrServFail, Finished, Truth
<1> QED BY <1>3, <1>4

LEMMA SoundRead ==
  ASSUME IInv, RightStack(stack), NEW p \in Arriving, Walking(p), Top.name \in Sound
  PROVE  \/ \E d \in Below(Top.name, Top.zone) \ {Root} :
              ReadsDelegation(p, d) /\ Past(server, Top.name, d)
         \/ ReadsAnswer(p, Top.name, Query.type)
<1>1. Top.name \in Names /\ Top.zone \in Under[Top.name]
  BY TopIsPlaced DEF Walking
<1>2. ASSUME NEW d \in Below(Top.name, Top.zone) \ {Root}, p.body = Delegation(d)
      PROVE  ReadsDelegation(p, d)
  BY <1>2, DelegationRead
<1>3. ASSUME NEW z \in Zones \cap Under[Top.name], Top.zone \in Under[z],
             p.body = InZone(z, Top.name, Query.type)
      PROVE  ReadsAnswer(p, Top.name, Query.type)
  <2>1. z \in Names
    BY ResolverAssumption
  <2> QED BY <1>1, <1>3, <2>1, AnswerRead
<1> QED BY <1>2, <1>3, SoundReply

-----------------------------------------------------------------------------
(* Every step keeps the calls rightly placed and the result right.          *)

\* A step that leaves the result alone.
LEMMA RightStep ==
  ASSUME Right, RightStack(stack'), result' = result, asked' = asked
  PROVE  Right'
BY DEF Right, RightStack, OnTheWay, Placed, MadeBy, RightOrServFail, Finished, Truth

LEMMA SendToIsRight ==
  ASSUME IInv, Right, NEW a \in Addrs, SendTo(a)
  PROVE  Right'
<1> DEFINE f == Visit(Top, a)
<1>1. stack # <<>> /\ stack' = Replace(f) /\ result' = result /\ asked' = asked
  BY DEF SendTo, Asking, Running
<1>2. Len(stack) \in Nat \ {0} /\ Top \in Frames /\ StackOK(stack) /\ RightStack(stack)
  BY <1>1, TopFacts DEF IInv, Right
<1>3. /\ f \in Frames
      /\ f.name = Top.name /\ f.servers = Top.servers /\ f.zone = Top.zone
      /\ f.chain = Top.chain /\ f.looking = Top.looking /\ f.cut = Top.cut
      /\ f.pending = Top.pending
  BY <1>2 DEF Visit, Frames
<1> HIDE DEF f
<1>4. Placed(Top)
  BY <1>2 DEF RightStack, Top
<1>5. Placed(f)
  BY <1>3, <1>4 DEF Placed
<1> QED BY <1>1, <1>2, <1>3, <1>5, ReplaceRight, RightStep

\* An alias is followed from a sound name to where it leads.
LEMMA AliasOfSound ==
  ASSUME IInv, RightStack(stack), NEW p \in Arriving, Walking(p), Top.name \in Sound,
         p.body.rcode # "nxdomain", NEW r \in Aliases(p)
  PROVE  Top.name \in Existing /\ Target[Top.name] # Top.name /\ r.data = Target[Top.name]
<1>1. r \in Answers(p) /\ r.type = "CNAME"
  BY DEF Aliases
<1>2. ReadsAnswer(p, Top.name, Query.type)
  BY <1>1, SoundRead DEF ReadsDelegation
<1> QED BY <1>1, <1>2 DEF ReadsAnswer

LEMMA FollowAliasIsRight ==
  ASSUME IInv, Right, NEW p \in Arriving, FollowAlias(p)
  PROVE  Right'
<1>1. PICK r \in Aliases(p) : /\ r.data \in Names
                              /\ stack' = Replace(Restart(Top, r.data))
  BY DEF FollowAlias
<1> DEFINE f == Restart(Top, r.data)
<1>2. /\ Walking(p) /\ stack # <<>> /\ server # NoServer /\ p.body.rcode # "nxdomain"
      /\ result' = result /\ asked' = asked
  BY DEF FollowAlias, Walking, Accepted, Free
<1>3. Len(stack) \in Nat \ {0} /\ Top \in Frames /\ StackOK(stack) /\ RightStack(stack)
  BY <1>2, TopFacts DEF IInv, Right
<1>4. ~Top.looking /\ Top.referrals < MaxReferrals
  BY <1>2 DEF IInv, Talks, Top
<1>5. Top.referrals + 1 \in 0..MaxReferrals /\ Top.chain \cup {Top.name} \in SUBSET Names
  BY <1>3, <1>4, ResolverAssumption DEF Frames
<1>6. /\ f \in Frames
      /\ f.name = r.data /\ f.servers = RootServers /\ f.zone = Root
      /\ f.looking = Top.looking
  BY <1>1, <1>3, <1>5, ResolverAssumption DEF Restart, Frames
<1> HIDE DEF f
<1>7. Placed(f)
  BY <1>4, <1>6, ServedAssumption, ResolverAssumption DEF Placed
<1>8. Top.name \in Sound => /\ Top.name \in Existing /\ Target[Top.name] # Top.name
                            /\ f.name = Target[Top.name]
  BY <1>2, <1>3, <1>6, AliasOfSound
<1>9. Top.name \notin Working
  BY <1>8 DEF Working
<1>10. ASSUME Len(stack) = 1 PROVE OnTheWay(f.name)
  <2>1. OnTheWay(Top.name)
    BY <1>2, <1>3, <1>10 DEF RightStack, Top
  <2> QED BY <1>8, <2>1, SoundAssumption, ServedAssumption DEF OnTheWay
<1>11. RightStack(Replace(f))
  BY <1>2, <1>3, <1>6, <1>7, <1>9, <1>10, ReplaceRight
<1>12. stack' = Replace(f)
  BY <1>1 DEF f
<1> QED BY <1>2, <1>11, <1>12, RightStep

\* The zone that a sound name is delegated to.
LEMMA DelegationOfSound ==
  ASSUME IInv, RightStack(stack), NEW p \in Arriving, Walking(p), Top.name \in Sound,
         NEW r \in Delegations(p)
  PROVE  /\ r.owner \in Below(Top.name, Top.zone) \ {Root}
         /\ ReadsDelegation(p, r.owner) /\ Past(server, Top.name, r.owner)
<1>1. ~ReadsAnswer(p, Top.name, Query.type)
  BY DEF ReadsAnswer
<1>2. PICK d \in Below(Top.name, Top.zone) \ {Root} :
             ReadsDelegation(p, d) /\ Past(server, Top.name, d)
  BY <1>1, SoundRead
<1>3. r.owner = d
  BY <1>2 DEF ReadsDelegation
<1> QED BY <1>2, <1>3

LEMMA ReferralIsRight ==
  ASSUME IInv, Right, NEW p \in Arriving, Referral(p)
  PROVE  Right'
<1>1. PICK r \in Delegations(p) :
         /\ Descends(r.owner)
         /\ stack' = Replace(Descend(Top, GlueFor(p, r.owner), r.owner))
  BY DEF Referral
<1>2. /\ Walking(p) /\ stack # <<>> /\ server # NoServer
      /\ result' = result /\ asked' = asked
  BY DEF Referral, Delegating, Walking, Accepted, Free
<1>3. Top \in Frames /\ StackOK(stack) /\ RightStack(stack) /\ Top.referrals < MaxReferrals
  BY <1>2, TopFacts DEF IInv, Talks, Top, Right
<1> DEFINE d == r.owner
           f == Descend(Top, GlueFor(p, d), d)
<1>4. d \in Under[Top.name] /\ d \in Names /\ GlueFor(p, d) \in SUBSET Addrs
  BY <1>1, <1>2, DelegationIsSafe
<1>5. Top.referrals + 1 \in 0..MaxReferrals
  BY <1>3, ResolverAssumption DEF Frames
<1>6. /\ f \in Frames /\ f.name = Top.name /\ f.chain = Top.chain
      /\ f.servers = GlueFor(p, d) /\ f.zone = d /\ ~f.looking
  BY <1>3, <1>4, <1>5 DEF Descend, Frames
<1>7. stack' = Replace(f)
  BY <1>1
<1> HIDE DEF f
<1>8. Placed(f)
  <2> SUFFICES ASSUME Top.name \in Sound
               PROVE  d \in Zones /\ \A a \in GlueFor(p, d) : d \in Hosts[a]
    BY <1>6 DEF Placed
  <2>1. d \in Below(Top.name, Top.zone) /\ ReadsDelegation(p, d)
    BY <1>2, <1>3, DelegationOfSound
  <2> QED BY <2>1 DEF Below, ReadsDelegation
<1> QED BY <1>2, <1>3, <1>6, <1>7, <1>8, ReplaceRight, RightStep

LEMMA GluelessIsRight ==
  ASSUME IInv, Right, NEW p \in Arriving, Glueless(p)
  PROVE  Right'
<1>1. PICK r \in Delegations(p) :
         /\ Descends(r.owner)
         /\ stack' = Replace([Top EXCEPT !.looking = TRUE, !.cut = r.owner,
                                         !.pending = ns_names(p, r.owner)])
  BY DEF Glueless
<1>2. /\ Walking(p) /\ stack # <<>> /\ result' = result /\ asked' = asked
  BY DEF Glueless, Delegating, Walking
<1>3. Len(stack) \in Nat \ {0} /\ Top \in Frames /\ StackOK(stack) /\ RightStack(stack)
  BY <1>2, TopFacts DEF IInv, Right
<1> DEFINE d == r.owner
           f == [Top EXCEPT !.looking = TRUE, !.cut = d, !.pending = ns_names(p, d)]
<1>4. d \in Names /\ ns_names(p, d) \subseteq Names
  BY <1>1, <1>2, DelegationIsSafe
<1>5. /\ f \in Frames /\ f.name = Top.name /\ f.chain = Top.chain
      /\ f.servers = Top.servers /\ f.zone = Top.zone /\ f.cut = d
      /\ f.pending = ns_names(p, d)
  BY <1>3, <1>4 DEF Frames
<1>6. stack' = Replace(f)
  BY <1>1
<1> HIDE DEF f
<1>7. Placed(f)
  <2> SUFFICES ASSUME Top.name \in Sound PROVE Placed(f)
    BY <1>5 DEF Placed
  <2>1. d \in Below(Top.name, Top.zone) \ {Root} /\ ns_names(p, d) = NS[d]
    BY <1>2, <1>3, DelegationOfSound DEF ReadsDelegation
  <2>2. d \in Zones \ {Root}
    BY <2>1 DEF Below
  <2>3. Placed(Top)
    BY <1>3 DEF RightStack, Top
  <2> QED BY <1>5, <2>1, <2>2, <2>3 DEF Placed
<1> QED BY <1>2, <1>3, <1>5, <1>6, <1>7, ReplaceRight, RightStep

LEMMA NewCallIsPlaced ==
  ASSUME NEW n \in Names
  PROVE  Frame(n) \in Frames /\ Placed(Frame(n)) /\ Frame(n).name = n /\ Frame(n).chain = {}
<1>1. /\ Frame(n).name = n /\ Frame(n).chain = {} /\ Frame(n).zone = Root
      /\ Frame(n).servers = RootServers /\ ~Frame(n).looking
  BY DEF Frame
<1> QED BY <1>1, FrameFacts, ServedAssumption, ResolverAssumption DEF Placed

LEMMA LookUpIsRight ==
  ASSUME IInv, Right, NEW n \in Names, LookUp(n)
  PROVE  Right'
<1>1. /\ stack # <<>> /\ Top.looking /\ n \in Top.pending
      /\ result' = result /\ asked' = asked
  BY DEF LookUp, Looking, Running
<1>2. Len(stack) \in Nat \ {0} /\ Top \in Frames /\ StackOK(stack) /\ RightStack(stack)
  BY <1>1, TopFacts DEF IInv, Right
<1> DEFINE f == [Top EXCEPT !.pending = @ \ {n}]
<1>3. /\ f \in Frames
      /\ f.name = Top.name /\ f.servers = Top.servers /\ f.zone = Top.zone
      /\ f.cut = Top.cut /\ f.looking = Top.looking /\ f.pending = Top.pending \ {n}
      /\ f.chain = Top.chain
  BY <1>2 DEF Frames
<1>4. stack' = IF Len(stack) > MaxDepth THEN Replace(f)
               ELSE Append(Replace(f), Frame(n))
  BY DEF LookUp
<1> HIDE DEF f
<1>5. Placed(Top)
  BY <1>2 DEF RightStack, Top
<1>6. Placed(f)
  BY <1>3, <1>5 DEF Placed
<1>7. RightStack(Replace(f))
  BY <1>1, <1>2, <1>3, <1>6, ReplaceRight
<1>8. MadeBy(f, Frame(n))
  BY <1>1, <1>3, <1>5, NewCallIsPlaced DEF MadeBy, Placed
<1>9. /\ Replace(f) \in Seq(Frames) /\ Replace(f) # <<>>
      /\ Replace(f)[Len(Replace(f))] = f
  <2>1. /\ Replace(f) \in Seq(Frames) /\ Len(Replace(f)) = Len(stack)
        /\ Replace(f)[Len(stack)] = f
    BY <1>1, <1>2, <1>3, ReplaceAt
  <2> HIDE DEF Replace
  <2> QED BY <1>2, <2>1
<1>10. RightStack(Append(Replace(f), Frame(n)))
  BY <1>7, <1>8, <1>9, NewCallIsPlaced, PushRight
<1> QED BY <1>1, <1>4, <1>7, <1>10, RightStep

LEMMA StartIsRight ==
  ASSUME IInv, Right, StartIterative
  PROVE  Right'
<1> DEFINE g == Frame(asked.name)
<1>1. stack' = <<g>> /\ result' = result /\ asked' = asked
  BY DEF StartIterative
<1>2. asked.name \in Names
  BY ResolverAssumption DEF IInv, Rest, Asked
<1>3. Placed(g) /\ g.name = asked.name
  BY <1>2, NewCallIsPlaced
<1> HIDE DEF g
<1>4. Len(<<g>>) = 1 /\ <<g>>[1] = g
  OBVIOUS
<1>5. RightStack(<<g>>)
  BY <1>3, <1>4 DEF RightStack, OnTheWay
<1> QED BY <1>1, <1>5, RightStep

\* What a forwarder answers is the truth.
LEMMA ForwarderIsRight ==
  ASSUME IInv, Right, NEW p \in Arriving, ForwarderAnswered(p)
  PROVE  Right'
<1>1. stack = <<>> /\ p.question = Query /\ p.body.rcode # "servfail"
  BY DEF ForwarderAnswered, Accepted, answers_query
<1>2. p.body \in Content(asked)
  BY <1>1 DEF Arriving, Query
<1>3. p.body = Recursive(asked) \/ p.body = FailureBody
  BY <1>1, <1>2 DEF Content
<1>4. p.body = Recursive(asked)
  BY <1>1, <1>3 DEF FailureBody, Body
<1>5. /\ result' = IF p.body.rcode = "nxdomain"
                   THEN Result("nxdomain", "nxdomain", {})
                   ELSE Result("answer", p.body.rcode, p.body.answers)
      /\ asked' = asked /\ stack' = stack
  BY DEF ForwarderAnswered
<1>6. result' = Truth(asked)
  <2> DEFINE n == Canonical[asked.name]
  <2>1. CASE n \in Existing
    <3>1. p.body = Body("ok", Data(n, asked.type), {}, {})
      BY <1>4, <2>1 DEF Recursive
    <3>2. p.body.rcode = "ok" /\ p.body.answers = Data(n, asked.type)
      BY <3>1 DEF Body
    <3> QED BY <1>5, <2>1, <3>2 DEF Truth
  <2>2. CASE n \notin Existing
    <3>1. p.body = Body("nxdomain", {}, {}, {})
      BY <1>4, <2>2 DEF Recursive
    <3>2. p.body.rcode = "nxdomain"
      BY <3>1 DEF Body
    <3> QED BY <1>5, <2>2, <3>2 DEF Truth
  <2> QED BY <2>1, <2>2
<1>7. RightStack(stack)'
  BY <1>5 DEF Right, RightStack, OnTheWay, Placed, MadeBy
<1> QED BY <1>5, <1>6, <1>7 DEF Right, RightOrServFail, Truth

\* Only an answer that is right ends a call for a sound name, or SERVFAIL.
LEMMA LastReplyReturns ==
  ASSUME IInv, Right, NEW p \in Arriving,
         \/ NxDomain(p) \/ Answered(p) \/ AliasLoop(p)
         \/ BogusReferral(p) \/ EmptyReply(p)
  PROVE  /\ stack # <<>> /\ Walking(p)
         /\ \E r :
              /\ Return(r) /\ Fair(r)
              /\ Top.name \in Sound => RightFor(r, Top.name, Query.type)
              /\ r = ServFail => AliasLoop(p) \/ BogusReferral(p)
<1>1. Walking(p) /\ stack # <<>>
  BY DEF NxDomain, Answered, AliasLoop, BogusReferral, EmptyReply, Delegating, Walking
<1>2. p.body.rcode \in {"ok", "nxdomain", "servfail", "refused"}
  BY <1>1, HeardIsSafe DEF Bodies
<1>3. ASSUME Top.name \in Sound
      PROVE  \/ \E d : ReadsDelegation(p, d)
             \/ ReadsAnswer(p, Top.name, Query.type)
  BY <1>1, <1>3, SoundRead DEF Right
<1>4. CASE NxDomain(p)
  <2> DEFINE r == Result("nxdomain", "nxdomain", {})
  <2>1. Return(r) /\ p.body.rcode = "nxdomain"
    BY <1>4 DEF NxDomain
  <2>2. Top.name \in Sound => RightFor(r, Top.name, Query.type)
    BY <1>3, <2>1 DEF ReadsDelegation, ReadsAnswer, RightFor
  <2>3. Fair(r)
    BY EmptyResults
  <2>4. r # ServFail
    BY DEF Result, ServFail
  <2> HIDE DEF r
  <2> QED BY <1>1, <2>1, <2>2, <2>3, <2>4
<1>5. CASE Answered(p)
  <2> DEFINE r == Result("answer", p.body.rcode, Answers(p))
  <2>1. Return(r) /\ p.body.rcode # "nxdomain" /\ Answers(p) # {} /\ Aliases(p) = {}
    BY <1>5 DEF Answered
  <2>2. ASSUME Top.name \in Sound PROVE RightFor(r, Top.name, Query.type)
    <3>1. ReadsAnswer(p, Top.name, Query.type)
      BY <1>3, <2>1, <2>2 DEF ReadsDelegation
    <3>2. Top.name \in Existing /\ p.body.rcode = "ok"
      BY <2>1, <3>1 DEF ReadsAnswer
    <3>3. Target[Top.name] = Top.name
      BY <2>1, <3>1, <3>2 DEF ReadsAnswer, Aliases
    <3> QED BY <3>1, <3>2, <3>3 DEF ReadsAnswer, RightFor
  <2>3. Fair(r)
    BY <1>1, AnswersAreFair
  <2>4. r # ServFail
    BY DEF Result, ServFail
  <2> HIDE DEF r
  <2> QED BY <1>1, <2>1, <2>2, <2>3, <2>4
<1>6. CASE AliasLoop(p) \/ BogusReferral(p)
  <2>1. Return(ServFail)
    BY <1>6 DEF AliasLoop, BogusReferral
  <2> QED BY <1>1, <1>6, <2>1, ServFailIsFair DEF RightFor
<1>7. CASE EmptyReply(p)
  <2> DEFINE r == Result("answer", p.body.rcode, {})
  <2>1. /\ Return(r) /\ p.body.rcode # "nxdomain" /\ Answers(p) = {}
        /\ Authority(p) = {}
    BY <1>7 DEF EmptyReply
  <2>2. Top.name \notin Sound
    <3>1. ~\E d : ReadsDelegation(p, d)
      BY <2>1 DEF ReadsDelegation
    <3>2. ~ReadsAnswer(p, Top.name, Query.type)
      BY <2>1 DEF ReadsAnswer
    <3> QED BY <1>3, <3>1, <3>2
  <2>3. Fair(r)
    BY <1>2, EmptyResults
  <2>4. r # ServFail
    BY DEF Result, ServFail
  <2> HIDE DEF r
  <2> QED BY <1>1, <2>1, <2>2, <2>3, <2>4
<1> QED BY <1>4, <1>5, <1>6, <1>7

LEMMA InitIsRight == Init => Right
<1>1. Len(<<>>) = 0 /\ 1..0 = {} /\ 1..(0 - 1) = {}
  OBVIOUS
<1> SUFFICES ASSUME Init PROVE Right
  OBVIOUS
<1>2. /\ \A i \in 1..Len(stack) : Placed(stack[i])
      /\ \A i \in 1..(Len(stack) - 1) : MadeBy(stack[i], stack[i + 1])
  BY <1>1 DEF Init
<1> QED BY <1>2 DEF Init, Right, RightStack, RightOrServFail, Finished

LEMMA NextIsRight == IInv /\ Right /\ [Next]_vars => Right'
<1> SUFFICES ASSUME IInv, Right, [Next]_vars PROVE Right'
  OBVIOUS
<1>1. ASSUME stack' = stack, result' = result, asked' = asked PROVE Right'
  BY <1>1, RightStep DEF Right
<1>2. CASE UNCHANGED vars
  BY <1>1, <1>2 DEF vars
<1>3. CASE Fail
  BY <1>1, <1>3 DEF Fail
<1>4. CASE Call
  <2>1. ASSUME NEW f \in Forwarders, AskForwarder(f) PROVE Right'
    BY <1>1, <2>1 DEF AskForwarder
  <2>2. ASSUME NEW a \in Addrs, SendTo(a) PROVE Right'
    BY <2>2, SendToIsRight
  <2>3. ASSUME NEW n \in Names, LookUp(n) PROVE Right'
    BY <2>3, LookUpIsRight
  <2>4. ASSUME TooManyReferrals \/ AllServersFailed \/ NoneFound PROVE Right'
    <3>1. stack # <<>> /\ asked' = asked /\ Return(ServFail)
      BY <2>4 DEF TooManyReferrals, AllServersFailed, NoneFound, Asking, Looking,
                  Running
    <3> QED BY <3>1, ServFailIsFair, ReturnIsRight DEF RightFor
  <2> QED BY <1>4, <2>1, <2>2, <2>3, <2>4, StartIsRight DEF Call
<1>5. CASE Arrive
  <2>1. PICK p \in Arriving : Receive(p)
    BY <1>5 DEF Arrive
  <2>2. CASE Ignore(p) \/ Mismatch(p) \/ Truncated(p) \/ ForwarderFailed(p)
    BY <1>1, <2>2 DEF Ignore, Mismatch, Truncated, ForwarderFailed, vars
  <2>3. CASE FollowAlias(p)
    BY <2>3, FollowAliasIsRight
  <2>4. CASE Referral(p)
    BY <2>4, ReferralIsRight
  <2>5. CASE Glueless(p)
    BY <2>5, GluelessIsRight
  <2>6. CASE ForwarderAnswered(p)
    BY <2>6, ForwarderIsRight
  <2>7. CASE \/ NxDomain(p) \/ Answered(p) \/ AliasLoop(p)
             \/ BogusReferral(p) \/ EmptyReply(p)
    <3>1. asked' = asked
      BY <2>7 DEF NxDomain, Answered, AliasLoop, BogusReferral, EmptyReply
    <3>2. PICK r : /\ stack # <<>> /\ Return(r) /\ Fair(r)
                   /\ Top.name \in Sound => RightFor(r, Top.name, Query.type)
      BY <2>7, LastReplyReturns
    <3> QED BY <3>1, <3>2, ReturnIsRight
  <2> QED BY <2>1, <2>2, <2>3, <2>4, <2>5, <2>6, <2>7 DEF Receive
<1> QED BY <1>2, <1>3, <1>4, <1>5 DEF Next

LEMMA RightInvariance == Spec => [](IInv /\ Right)
BY Invariance, InitIsRight, NextIsRight, PTL DEF Spec

\* Whatever fails, is truncated, late or answered by broken servers elsewhere: of a
\* name in working zones the resolver returns the truth, or SERVFAIL.  It follows
\* no referral away from the name, takes no reply to another question, and believes
\* the addresses of no other nameserver (resolver.rs:166, 206, 285).
THEOREM RightOrServFailHolds == Spec => []RightOrServFail
<1>1. Right => RightOrServFail
  BY DEF Right
<1> QED BY <1>1, RightInvariance, PTL

-----------------------------------------------------------------------------
(* Without failed exchanges a healthy name is resolved.  A call is Able when  *)
(* its name and those it had before are healthy and it is not nested too      *)
(* deeply.  Such a call has referrals left for the rest of its way (Near),    *)
(* every server that it has asked for its name lies behind it (Tried), and    *)
(* while it looks for nameservers there is one that can be found (Line).      *)

Able(f, i) ==
  \A n \in f.chain \cup {f.name} : n \in Healthy /\ i + Nesting[n] <= MaxDepth + 1

Near(f) ==
  /\ f.servers # {}
  /\ f.referrals + Cardinality(Below(f.name, f.zone)) + Detour[f.name] < MaxReferrals
  /\ \A c \in f.chain : Detour[c] > Detour[f.name]
  /\ f.looking => f.cut \in Below(f.name, f.zone)

\* The zone that a call goes on to.
Ahead(f) == IF f.looking THEN f.cut ELSE f.zone

\* All but server a of the exchange in progress.
Tried(f, a) ==
  \A v \in f.visited :
    /\ v[1] \in f.chain \cup {f.name}
    /\ v[1] = f.name => (~f.looking /\ v[2] = a) \/ Past(v[2], f.name, Ahead(f))

Line(s, i) ==
  s[i].looking => \E m \in Helpers(s[i].name, s[i].cut) :
                    m \in s[i].pending \/ (i < Len(s) /\ s[i + 1].name = m)

Going(s, a) ==
  \A i \in 1..Len(s) : Able(s[i], i) => Near(s[i]) /\ Tried(s[i], a) /\ Line(s, i)

Reaches ==
  faults = 0 => /\ Going(stack, server)
                /\ stack # <<>> /\ asked.name \in Healthy => Able(stack[1], 1)
                /\ HealthyDataResolved

LEMMA BelowFacts ==
  ASSUME NEW n \in Names, NEW z \in Names
  PROVE  /\ Cardinality(Below(n, z)) \in Nat
         /\ \A d \in Below(n, z) :
              /\ d \in Names
              /\ Cardinality(Below(n, d)) \in Nat
              /\ Cardinality(Below(n, d)) + 1 <= Cardinality(Below(n, z))
<1>1. \A y : Below(n, y) \in SUBSET Zones
  BY DEF Below
<1>2. \A y : IsFiniteSet(Below(n, y)) /\ Cardinality(Below(n, y)) \in Nat
  BY <1>1, HealthyAssumption, FS_Subset, FS_CardinalityType
<1>3. ASSUME NEW d \in Below(n, z)
      PROVE  /\ d \in Names
             /\ Cardinality(Below(n, d)) + 1 <= Cardinality(Below(n, z))
  <2>1. d \in Names /\ d # z /\ z \in Under[d]
    BY ResolverAssumption DEF Below
  <2>2. d \notin Under[z]
    BY <2>1, UnderFacts
  <2>3. ASSUME NEW x \in Below(n, d) PROVE x \in Below(n, z) /\ x # d
    <3>1. x \in Zones \cap Under[n] /\ x # d /\ d \in Under[x] /\ x \in Names
      BY ResolverAssumption DEF Below
    <3>2. z \in Under[x]
      BY <2>1, <3>1, UnderFacts
    <3> QED BY <2>2, <3>1, <3>2 DEF Below
  <2> DEFINE B == Below(n, z)
             D == Below(n, d)
  <2>4. D \in SUBSET (B \ {d})
    BY <2>3
  <2> HIDE DEF B, D
  <2>5. IsFiniteSet(B) /\ Cardinality(B) \in Nat /\ d \in B /\ Cardinality(D) \in Nat
    BY <1>2 DEF B, D
  <2>6. IsFiniteSet(B \ {d}) /\ Cardinality(B \ {d}) = Cardinality(B) - 1
    BY <2>5, FS_RemoveElement
  <2>7. Cardinality(D) <= Cardinality(B \ {d})
    BY <2>4, <2>6, FS_Subset
  <2>8. Cardinality(D) + 1 <= Cardinality(B)
    BY <2>5, <2>6, <2>7
  <2> QED BY <2>1, <2>8 DEF B, D
<1> QED BY <1>2, <1>3

\* What lies behind a call stays behind it further down.
LEMMA PastBelow ==
  ASSUME NEW n \in Names, NEW z \in Names, NEW d \in Below(n, z), NEW a, Past(a, n, z),
         Hosts[a] \subseteq Zones
  PROVE  Past(a, n, d)
<1> SUFFICES ASSUME NEW h \in Hosts[a] \cap Under[n], d \in Under[h] PROVE FALSE
  BY DEF Past
<1>1. z \in Under[d] /\ h \in Names
  BY ResolverAssumption DEF Below
<1>2. z \in Under[h]
  BY <1>1, UnderFacts
<1> QED BY <1>2 DEF Past

LEMMA HealthyFacts ==
  ASSUME NEW n \in Healthy
  PROVE  /\ n \in Sound /\ n \in Names
         /\ Nesting[n] \in Nat /\ Nesting[n] <= MaxDepth
         /\ Detour[n] \in Nat
         /\ Cardinality(Below(n, Root)) \in Nat
         /\ Cardinality(Below(n, Root)) + Detour[n] < MaxReferrals
<1>1. n \in Sound /\ n \in Names /\ Root \in Names
  BY SoundAssumption, ResolverAssumption
<1> QED BY <1>1, HealthyAssumption, BelowFacts

\* The state of an able call that is the innermost one.
LEMMA AbleTop ==
  ASSUME IInv, Right, Going(stack, server), stack # <<>>, Able(Top, Len(stack))
  PROVE  /\ Len(stack) \in Nat \ {0} /\ StackOK(stack) /\ RightStack(stack)
         /\ Top \in Frames /\ Top.referrals \in Nat
         /\ Top.name \in Healthy /\ Top.name \in Sound /\ Top.name \in Names
         /\ Top.zone \in Zones \cap Under[Top.name] /\ Top.zone \in Names
         /\ \A a \in Top.servers : Top.zone \in Hosts[a] /\ a \in Addrs \ Broken
         /\ Near(Top) /\ Tried(Top, server) /\ Line(stack, Len(stack))
<1>1. Len(stack) \in Nat \ {0} /\ Top \in Frames /\ StackOK(stack) /\ RightStack(stack)
  BY TopFacts DEF IInv, Right
<1>2. Top.name \in Healthy
  BY DEF Able
<1>3. Top.name \in Sound /\ Top.name \in Names
  BY <1>2, HealthyFacts
<1>4. /\ Top.zone \in Zones \cap Under[Top.name]
      /\ \A a \in Top.servers : Top.zone \in Hosts[a] /\ a \in Addrs \ Broken
  BY <1>1, <1>3, TopIsPlaced
<1>5. Near(Top) /\ Tried(Top, server) /\ Line(stack, Len(stack))
  BY <1>1 DEF Going, Top
<1>6. Top.zone \in Names /\ Top.referrals \in Nat
  BY <1>1, ResolverAssumption DEF Frames
<1> QED BY <1>1, <1>2, <1>3, <1>4, <1>5, <1>6

\* A stack t whose first k - 1 calls are as before, and whose call k has kept its
\* name unless a sound name waits for it, goes on if its calls from k do.
LEMMA GoingFrom ==
  ASSUME StackOK(stack), RightStack(stack), Going(stack, server),
         NEW t \in Seq(Frames), NEW a, NEW k \in 1..Len(stack), k <= Len(t),
         \A i \in 1..(k - 1) : t[i] = stack[i],
         t[k].name = stack[k].name \/ stack[k].name \notin Working,
         \A i \in k..Len(t) : Able(t[i], i) => Near(t[i]) /\ Tried(t[i], a) /\ Line(t, i)
  PROVE  Going(t, a)
<1> SUFFICES ASSUME NEW i \in 1..Len(t), Able(t[i], i)
             PROVE  Near(t[i]) /\ Tried(t[i], a) /\ Line(t, i)
  BY DEF Going
<1>1. Len(stack) \in Nat /\ Len(t) \in Nat
  BY DEF StackOK
<1>2. CASE i >= k
  BY <1>1, <1>2
<1>3. CASE i < k
  <2>1. i \in 1..(k - 1) /\ i \in 1..Len(stack) /\ i \in 1..(Len(stack) - 1)
    BY <1>1, <1>3
  <2>2. t[i] = stack[i] /\ stack[i].looking
    BY <2>1 DEF StackOK, Calls
  <2>3. Near(t[i]) /\ Tried(t[i], server) /\ Line(stack, i)
    BY <2>1, <2>2 DEF Going
  <2>4. Tried(t[i], a)
    BY <2>2, <2>3 DEF Tried
  <2>5. PICK m \in Helpers(t[i].name, t[i].cut) : m \in t[i].pending \/ stack[i + 1].name = m
    BY <2>2, <2>3 DEF Line
  <2>6. ASSUME m \notin t[i].pending PROVE t[i + 1].name = m
    <3>1. stack[i + 1].name = m
      BY <2>5, <2>6
    <3>2. CASE i + 1 < k
      BY <1>1, <2>1, <3>1, <3>2
    <3>3. CASE i + 1 = k
      <4>1. t[i].name \in Healthy
        BY <2>2 DEF Able
      <4>2. stack[i].name \in Sound
        BY <2>2, <4>1, SoundAssumption
      <4>3. stack[i + 1].name \in Working
        BY <2>1, <4>2, CalleeWorks
      <4> QED BY <3>1, <3>3, <4>3
    <3> QED BY <1>1, <1>3, <3>2, <3>3
  <2>7. i < Len(t)
    BY <1>1, <1>3
  <2>8. Line(t, i)
    BY <2>5, <2>6, <2>7 DEF Line
  <2> QED BY <2>3, <2>4, <2>8
<1> QED BY <1>1, <1>2, <1>3

\* The innermost call goes on as f.
LEMMA ReplaceGoing ==
  ASSUME StackOK(stack), RightStack(stack), Going(stack, server), stack # <<>>,
         NEW f \in Frames, NEW a,
         f.name = Top.name \/ Top.name \notin Working,
         Able(f, Len(stack)) =>
           /\ Near(f) /\ Tried(f, a)
           /\ f.looking => Helpers(f.name, f.cut) \cap f.pending # {}
  PROVE  Going(Replace(f), a)
<1> DEFINE t == Replace(f)
           k == Len(stack)
<1>1. /\ k \in Nat \ {0} /\ t \in Seq(Frames) /\ Len(t) = k /\ t[k] = f
      /\ \A i \in 1..(k - 1) : t[i] = stack[i]
  BY ReplaceAt
<1> HIDE DEF t
<1>2. Able(t[k], k) => Near(t[k]) /\ Tried(t[k], a) /\ Line(t, k)
  BY <1>1 DEF Line
<1>3. \A i \in k..Len(t) : i = k
  BY <1>1
<1>4. \A i \in k..Len(t) : Able(t[i], i) => Near(t[i]) /\ Tried(t[i], a) /\ Line(t, i)
  BY <1>2, <1>3
<1>5. t[k].name = stack[k].name \/ stack[k].name \notin Working
  BY <1>1 DEF Top
<1>6. k \in 1..Len(stack) /\ k <= Len(t)
  BY <1>1
<1> HIDE DEF k
<1>7. Going(t, a)
  BY <1>1, <1>4, <1>5, <1>6, GoingFrom
<1> QED BY <1>7 DEF t

\* The outermost call is able, if it was, while it keeps its name.
LEMMA FirstStaysAble ==
  ASSUME StackOK(stack), stack # <<>>, NEW f \in Frames,
         Able(stack[1], 1),
         Len(stack) = 1 /\ Able(Top, 1) => Able(f, 1)
  PROVE  Able(Replace(f)[1], 1)
<1>1. /\ Len(stack) \in Nat \ {0} /\ Replace(f)[Len(stack)] = f
      /\ \A i \in 1..(Len(stack) - 1) : Replace(f)[i] = stack[i]
  BY ReplaceAt
<1>2. CASE Len(stack) = 1
  <2>1. Replace(f)[1] = f /\ Top = stack[1]
    BY <1>1, <1>2 DEF Top
  <2> QED BY <1>2, <2>1
<1>3. CASE Len(stack) # 1
  <2>1. 1 \in 1..(Len(stack) - 1)
    <3>1. \A k \in Nat \ {0} : k # 1 => 1 \in 1..(k - 1)
      OBVIOUS
    <3> QED BY <1>1, <1>3, <3>1, Zenon
  <2>2. Replace(f)[1] = stack[1]
    BY <1>1, <2>1
  <2> QED BY <2>2
<1> QED BY <1>2, <1>3

\* A step that leaves the result alone.
LEMMA ReachStep ==
  ASSUME Reaches, faults' = faults, asked' = asked, result' = result,
         faults = 0 => Going(stack', server'),
         faults = 0 /\ stack' # <<>> /\ asked.name \in Healthy => Able(stack'[1], 1)
  PROVE  Reaches'
<1>1. Going(stack', server') => Going(stack, server)'
  BY DEF Going, Able, Near, Tried, Line, Past, Ahead, Below, Helpers
<1>2. Able(stack'[1], 1) => Able(stack[1], 1)'
  BY DEF Able
<1> QED BY <1>1, <1>2 DEF Reaches, HealthyDataResolved, Finished, Truth

LEMMA SendToReaches ==
  ASSUME IInv, Right, Reaches, NEW a \in Addrs, SendTo(a)
  PROVE  Reaches'
<1> DEFINE f == Visit(Top, a)
<1>1. /\ stack # <<>> /\ stack' = Replace(f) /\ result' = result /\ asked' = asked
      /\ faults' = faults /\ server' = a /\ server = NoServer /\ ~Top.looking
  BY DEF SendTo, Asking, Running, Free
<1>2. Len(stack) \in Nat \ {0} /\ Top \in Frames /\ StackOK(stack) /\ RightStack(stack)
  BY <1>1, TopFacts DEF IInv, Right
<1>3. /\ f \in Frames
      /\ f.name = Top.name /\ f.servers = Top.servers /\ f.zone = Top.zone
      /\ f.chain = Top.chain /\ f.looking = Top.looking /\ f.cut = Top.cut
      /\ f.referrals = Top.referrals
      /\ f.visited = Top.visited \cup {<<Top.name, a>>}
  BY <1>2 DEF Visit, Frames
<1> HIDE DEF f
<1>4. \A i : Able(f, i) <=> Able(Top, i)
  BY <1>3 DEF Able
<1> SUFFICES ASSUME faults = 0
             PROVE  /\ Going(Replace(f), a)
                    /\ asked.name \in Healthy => Able(Replace(f)[1], 1)
  BY <1>1, ReachStep
<1>5. /\ Going(stack, server)
      /\ asked.name \in Healthy => Able(stack[1], 1)
  BY <1>1 DEF Reaches
<1>6. ASSUME Able(f, Len(stack)) PROVE Near(f) /\ Tried(f, a)
  <2>1. Near(Top) /\ Tried(Top, server)
    BY <1>1, <1>4, <1>5, <1>6, AbleTop
  <2>2. Near(f)
    BY <1>1, <1>3, <2>1 DEF Near
  <2>3. ASSUME NEW v \in f.visited
        PROVE  /\ v[1] \in f.chain \cup {f.name}
               /\ v[1] = f.name => v[2] = a \/ Past(v[2], f.name, f.zone)
    <3>1. CASE v = <<Top.name, a>>
      BY <1>3, <3>1
    <3>2. CASE v \in Top.visited
      <4>1. v[2] # NoServer
        BY <1>2, <3>2, ResolverAssumption DEF Frames
      <4> QED BY <1>1, <1>3, <2>1, <3>2, <4>1 DEF Tried, Ahead
    <3> QED BY <1>3, <2>3, <3>1, <3>2
  <2> QED BY <1>1, <1>3, <2>2, <2>3 DEF Tried, Ahead
<1>7. Going(Replace(f), a)
  BY <1>1, <1>2, <1>3, <1>5, <1>6, ReplaceGoing
<1>8. asked.name \in Healthy => Able(Replace(f)[1], 1)
  BY <1>1, <1>2, <1>3, <1>4, <1>5, FirstStaysAble
<1> QED BY <1>7, <1>8

\* An alias leads to a healthy name with a shorter way to go.
LEMMA FollowAliasReaches ==
  ASSUME IInv, Right, Reaches, NEW p \in Arriving, FollowAlias(p)
  PROVE  Reaches'
<1>1. PICK r \in Aliases(p) : /\ r.data \in Names
                              /\ stack' = Replace(Restart(Top, r.data))
  BY DEF FollowAlias
<1> DEFINE f == Restart(Top, r.data)
           n == Top.name
<1>2. /\ Walking(p) /\ stack # <<>> /\ server # NoServer /\ p.body.rcode # "nxdomain"
      /\ result' = result /\ asked' = asked /\ faults' = faults /\ server' = NoServer
  BY DEF FollowAlias, Walking, Accepted, Free, Done
<1>3. Len(stack) \in Nat \ {0} /\ Top \in Frames /\ StackOK(stack) /\ RightStack(stack)
  BY <1>2, TopFacts DEF IInv, Right
<1>4. ~Top.looking /\ Top.referrals < MaxReferrals
  BY <1>2 DEF IInv, Talks, Top
<1>5. Top.referrals + 1 \in 0..MaxReferrals /\ Top.chain \cup {Top.name} \in SUBSET Names
  BY <1>3, <1>4, ResolverAssumption DEF Frames
<1>6. /\ f \in Frames
      /\ f.name = r.data /\ f.servers = RootServers /\ f.zone = Root
      /\ f.looking = Top.looking /\ f.chain = Top.chain \cup {n}
      /\ f.referrals = Top.referrals + 1 /\ f.visited = Top.visited
  BY <1>1, <1>3, <1>5, ResolverAssumption DEF Restart, Frames
<1>7. stack' = Replace(f)
  BY <1>1
<1> HIDE DEF f
<1>8. n \in Sound => n \in Existing /\ Target[n] # n /\ f.name = Target[n]
  BY <1>2, <1>3, <1>6, AliasOfSound
<1>9. n \notin Working
  BY <1>8 DEF Working
<1>10. ASSUME Able(Top, Len(stack))
       PROVE  /\ n \in Healthy /\ n \in Existing /\ Target[n] # n /\ f.name = Target[n]
              /\ f.name \in Healthy /\ Nesting[f.name] <= Nesting[n]
              /\ Detour[n] > Cardinality(Below(f.name, Root)) + Detour[f.name]
  <2>1. n \in Healthy /\ n \in Sound
    BY <1>10, HealthyFacts DEF Able
  <2> QED BY <1>8, <2>1, HealthyAssumption
<1> SUFFICES ASSUME faults = 0
             PROVE  /\ Going(Replace(f), NoServer)
                    /\ asked.name \in Healthy => Able(Replace(f)[1], 1)
  BY <1>2, <1>7, ReachStep
<1>11. /\ Going(stack, server)
       /\ asked.name \in Healthy => Able(stack[1], 1)
  BY <1>2 DEF Reaches
<1>12. ASSUME Able(f, Len(stack)) PROVE Near(f) /\ Tried(f, NoServer)
  <2>1. Able(Top, Len(stack))
    BY <1>6, <1>12 DEF Able
  <2>2. /\ Near(Top) /\ Tried(Top, server) /\ Top.referrals \in Nat
        /\ Top.name \in Names /\ Top.zone \in Names
    BY <1>2, <1>11, <2>1, AbleTop
  <2>3. /\ Cardinality(Below(n, Top.zone)) \in Nat
        /\ Cardinality(Below(f.name, Root)) \in Nat
        /\ Detour[n] \in Nat /\ Detour[f.name] \in Nat
        /\ Detour[n] > Cardinality(Below(f.name, Root)) + Detour[f.name]
    BY <1>10, <2>1, <2>2, BelowFacts, HealthyFacts
  <2>4. Top.referrals + Cardinality(Below(n, Top.zone)) + Detour[n] < MaxReferrals
    BY <2>2 DEF Near
  <2>5. f.referrals + Cardinality(Below(f.name, f.zone)) + Detour[f.name] < MaxReferrals
    <3>1. MaxReferrals \in Nat
      BY ResolverAssumption
    <3>2. (Top.referrals + 1) + Cardinality(Below(f.name, Root)) + Detour[f.name]
            < MaxReferrals
      BY <2>2, <2>3, <2>4, <3>1
    <3> QED BY <1>6, <3>2
  <2>6. \A c \in f.chain : Detour[c] > Detour[f.name]
    <3>1. Detour[n] > Detour[f.name]
      BY <2>3
    <3>2. ASSUME NEW c \in Top.chain PROVE Detour[c] > Detour[f.name]
      <4>1. Detour[c] > Detour[n]
        BY <2>2, <3>2 DEF Near
      <4>2. Detour[c] \in Nat
        BY <1>3, HealthyAssumption DEF Frames
      <4> QED BY <2>3, <3>1, <4>1, <4>2
    <3> QED BY <1>6, <3>1, <3>2
  <2>7. f.name \notin f.chain
    BY <2>3, <2>6
  <2>8. \A v \in f.visited : v[1] \in f.chain
    BY <1>6, <2>2 DEF Tried
  <2> QED BY <1>4, <1>6, <2>5, <2>6, <2>7, <2>8, HealthyAssumption DEF Near, Tried
<1>13. Going(Replace(f), NoServer)
  BY <1>2, <1>3, <1>4, <1>6, <1>9, <1>11, <1>12, ReplaceGoing
<1>14. ASSUME Len(stack) = 1, Able(Top, 1) PROVE Able(f, 1)
  <2>1. /\ n \in Healthy /\ f.name \in Healthy /\ Nesting[f.name] <= Nesting[n]
        /\ 1 + Nesting[n] <= MaxDepth + 1
    BY <1>10, <1>14 DEF Able
  <2>2. Nesting[n] \in Nat /\ Nesting[f.name] \in Nat /\ MaxDepth \in Nat
    BY <2>1, HealthyFacts, ResolverAssumption
  <2>3. 1 + Nesting[f.name] <= MaxDepth + 1
    BY <2>1, <2>2
  <2> QED BY <1>6, <1>14, <2>1, <2>3 DEF Able
<1>15. asked.name \in Healthy => Able(Replace(f)[1], 1)
  BY <1>2, <1>3, <1>6, <1>11, <1>14, FirstStaysAble
<1> QED BY <1>13, <1>15

\* A healthy name is delegated one zone nearer to it, and past the server asked.
LEMMA DelegatedNearer ==
  ASSUME IInv, Right, Going(stack, server), NEW p \in Arriving, Walking(p),
         NEW r \in Delegations(p), Able(Top, Len(stack))
  PROVE  /\ r.owner \in Below(Top.name, Top.zone) /\ r.owner \in Names
         /\ ReadsDelegation(p, r.owner)
         /\ Top.referrals + 1 + Cardinality(Below(Top.name, r.owner)) + Detour[Top.name]
              < MaxReferrals
         /\ \A v \in Top.visited : /\ v[1] \in Top.chain \cup {Top.name}
                                   /\ v[1] = Top.name => Past(v[2], Top.name, r.owner)
         /\ Glued(r.owner) \/ Helpers(Top.name, r.owner) # {}
<1> DEFINE n == Top.name
           d == r.owner
<1>1. stack # <<>> /\ ~Top.looking
  BY DEF Walking, Accepted, Free, IInv, Talks, Top
<1>2. /\ RightStack(stack) /\ n \in Healthy /\ n \in Sound /\ n \in Names
      /\ Top \in Frames /\ Top.zone \in Names /\ Top.referrals \in Nat
      /\ Near(Top) /\ Tried(Top, server)
  BY <1>1, AbleTop
<1>3. d \in Below(n, Top.zone) \ {Root} /\ ReadsDelegation(p, d) /\ Past(server, n, d)
  BY <1>2, DelegationOfSound
<1>4. /\ d \in Names
      /\ Cardinality(Below(n, d)) \in Nat
      /\ Cardinality(Below(n, Top.zone)) \in Nat
      /\ Cardinality(Below(n, d)) + 1 <= Cardinality(Below(n, Top.zone))
  BY <1>2, <1>3, BelowFacts
<1>5. Top.referrals + 1 + Cardinality(Below(n, d)) + Detour[n] < MaxReferrals
  <2>1. Top.referrals + Cardinality(Below(n, Top.zone)) + Detour[n] < MaxReferrals
    BY <1>2 DEF Near
  <2>2. Detour[n] \in Nat /\ MaxReferrals \in Nat
    BY <1>2, HealthyFacts, ResolverAssumption
  <2> QED BY <1>2, <1>4, <2>1, <2>2
<1>6. ASSUME NEW v \in Top.visited, v[1] = n PROVE Past(v[2], n, d)
  <2>1. v[2] \in Addrs /\ Hosts[v[2]] \subseteq Zones
    BY <1>2, ResolverAssumption DEF Frames
  <2>2. CASE v[2] = server
    BY <1>3, <2>2
  <2>3. CASE Past(v[2], n, Top.zone)
    BY <1>2, <1>3, <2>1, <2>3, PastBelow
  <2> QED BY <1>1, <1>2, <1>6, <2>2, <2>3 DEF Tried, Ahead
<1>7. Glued(d) \/ Helpers(n, d) # {}
  <2>1. d \in (Zones \ {Root}) \cap Under[n]
    BY <1>3 DEF Below
  <2> QED BY <1>2, <2>1, HealthyAssumption
<1>8. \A v \in Top.visited : v[1] \in Top.chain \cup {n}
  BY <1>2 DEF Tried
<1> QED BY <1>3, <1>4, <1>5, <1>6, <1>7, <1>8

LEMMA ReferralReaches ==
  ASSUME IInv, Right, Reaches, NEW p \in Arriving, Referral(p)
  PROVE  Reaches'
<1>1. PICK r \in Delegations(p) :
         /\ Descends(r.owner)
         /\ GlueFor(p, r.owner) # {}
         /\ stack' = Replace(Descend(Top, GlueFor(p, r.owner), r.owner))
  BY DEF Referral
<1>2. /\ Walking(p) /\ stack # <<>> /\ server # NoServer
      /\ result' = result /\ asked' = asked /\ faults' = faults /\ server' = NoServer
  BY DEF Referral, Delegating, Walking, Accepted, Free, Done
<1>3. /\ Top \in Frames /\ StackOK(stack) /\ RightStack(stack)
      /\ Top.referrals < MaxReferrals /\ ~Top.looking
  BY <1>2, TopFacts DEF IInv, Talks, Top, Right
<1> DEFINE d == r.owner
           f == Descend(Top, GlueFor(p, d), d)
<1>4. d \in Names /\ GlueFor(p, d) \in SUBSET Addrs
  BY <1>1, <1>2, DelegationIsSafe
<1>5. Top.referrals + 1 \in 0..MaxReferrals
  BY <1>3, ResolverAssumption DEF Frames
<1>6. /\ f \in Frames /\ f.name = Top.name /\ f.chain = Top.chain
      /\ f.servers = GlueFor(p, d) /\ f.zone = d /\ ~f.looking
      /\ f.referrals = Top.referrals + 1 /\ f.visited = Top.visited
  BY <1>3, <1>4, <1>5 DEF Descend, Frames
<1>7. stack' = Replace(f)
  BY <1>1
<1> HIDE DEF f
<1>8. \A i : Able(f, i) <=> Able(Top, i)
  BY <1>6 DEF Able
<1> SUFFICES ASSUME faults = 0
             PROVE  /\ Going(Replace(f), NoServer)
                    /\ asked.name \in Healthy => Able(Replace(f)[1], 1)
  BY <1>2, <1>7, ReachStep
<1>9. /\ Going(stack, server)
      /\ asked.name \in Healthy => Able(stack[1], 1)
  BY <1>2 DEF Reaches
<1>10. ASSUME Able(f, Len(stack)) PROVE Near(f) /\ Tried(f, NoServer)
  <2>1. Able(Top, Len(stack))
    BY <1>8, <1>10
  <2>2. /\ Top.referrals + 1 + Cardinality(Below(Top.name, d)) + Detour[Top.name]
             < MaxReferrals
        /\ \A v \in Top.visited : /\ v[1] \in Top.chain \cup {Top.name}
                                  /\ v[1] = Top.name => Past(v[2], Top.name, d)
    BY <1>2, <1>9, <2>1, DelegatedNearer
  <2>3. Near(Top)
    BY <1>2, <1>9, <2>1, AbleTop
  <2>4. Near(f)
    BY <1>1, <1>6, <2>2, <2>3 DEF Near
  <2>5. Tried(f, NoServer)
    BY <1>6, <2>2 DEF Tried, Ahead
  <2> QED BY <2>4, <2>5
<1>11. Going(Replace(f), NoServer)
  BY <1>2, <1>3, <1>6, <1>9, <1>10, ReplaceGoing
<1>12. asked.name \in Healthy => Able(Replace(f)[1], 1)
  BY <1>2, <1>3, <1>6, <1>8, <1>9, FirstStaysAble
<1> QED BY <1>11, <1>12

LEMMA GluelessReaches ==
  ASSUME IInv, Right, Reaches, NEW p \in Arriving, Glueless(p)
  PROVE  Reaches'
<1>1. PICK r \in Delegations(p) :
         /\ Descends(r.owner)
         /\ GlueFor(p, r.owner) = {}
         /\ stack' = Replace([Top EXCEPT !.looking = TRUE, !.cut = r.owner,
                                         !.pending = ns_names(p, r.owner)])
  BY DEF Glueless
<1>2. /\ Walking(p) /\ stack # <<>> /\ server' = NoServer
      /\ result' = result /\ asked' = asked /\ faults' = faults
  BY DEF Glueless, Delegating, Walking, Done
<1>3. Len(stack) \in Nat \ {0} /\ Top \in Frames /\ StackOK(stack) /\ RightStack(stack)
  BY <1>2, TopFacts DEF IInv, Right
<1> DEFINE d == r.owner
           f == [Top EXCEPT !.looking = TRUE, !.cut = d, !.pending = ns_names(p, d)]
<1>4. d \in Names /\ ns_names(p, d) \subseteq Names
  BY <1>1, <1>2, DelegationIsSafe
<1>5. /\ f \in Frames /\ f.name = Top.name /\ f.chain = Top.chain
      /\ f.servers = Top.servers /\ f.zone = Top.zone /\ f.cut = d /\ f.looking
      /\ f.pending = ns_names(p, d)
      /\ f.referrals = Top.referrals /\ f.visited = Top.visited
  BY <1>3, <1>4 DEF Frames
<1>6. stack' = Replace(f)
  BY <1>1
<1> HIDE DEF f
<1>7. \A i : Able(f, i) <=> Able(Top, i)
  BY <1>5 DEF Able
<1> SUFFICES ASSUME faults = 0
             PROVE  /\ Going(Replace(f), NoServer)
                    /\ asked.name \in Healthy => Able(Replace(f)[1], 1)
  BY <1>2, <1>6, ReachStep
<1>8. /\ Going(stack, server)
      /\ asked.name \in Healthy => Able(stack[1], 1)
  BY <1>2 DEF Reaches
<1>9. ASSUME Able(f, Len(stack))
      PROVE  Near(f) /\ Tried(f, NoServer) /\ Helpers(f.name, f.cut) \cap f.pending # {}
  <2>1. Able(Top, Len(stack))
    BY <1>7, <1>9
  <2>2. /\ d \in Below(Top.name, Top.zone)
        /\ ReadsDelegation(p, d)
        /\ \A v \in Top.visited : /\ v[1] \in Top.chain \cup {Top.name}
                                  /\ v[1] = Top.name => Past(v[2], Top.name, d)
        /\ Glued(d) \/ Helpers(Top.name, d) # {}
    BY <1>2, <1>8, <2>1, DelegatedNearer
  <2>3. Near(Top)
    BY <1>2, <1>8, <2>1, AbleTop
  <2>4. Near(f)
    BY <1>5, <2>2, <2>3 DEF Near
  <2>5. Tried(f, NoServer)
    BY <1>5, <2>2 DEF Tried, Ahead
  <2>6. Helpers(Top.name, d) # {} /\ ns_names(p, d) = NS[d]
    BY <1>1, <2>2 DEF ReadsDelegation
  <2>7. Helpers(Top.name, d) \subseteq NS[d]
    BY DEF Helpers
  <2> QED BY <1>5, <2>4, <2>5, <2>6, <2>7
<1>10. Going(Replace(f), NoServer)
  BY <1>2, <1>3, <1>5, <1>8, <1>9, ReplaceGoing
<1>11. asked.name \in Healthy => Able(Replace(f)[1], 1)
  BY <1>2, <1>3, <1>5, <1>7, <1>8, FirstStaysAble
<1> QED BY <1>10, <1>11

\* A call that begins is near, if its name is healthy.
LEMMA NewCallGoes ==
  ASSUME NEW n \in Healthy, NEW a
  PROVE  Near(Frame(n)) /\ Tried(Frame(n), a)
<1>1. /\ Frame(n).name = n /\ Frame(n).chain = {} /\ Frame(n).zone = Root
      /\ Frame(n).servers = RootServers /\ Frame(n).looking = FALSE
      /\ Frame(n).referrals = 0 /\ Frame(n).visited = {}
  BY DEF Frame
<1>2. /\ Cardinality(Below(n, Root)) \in Nat /\ Detour[n] \in Nat
      /\ Cardinality(Below(n, Root)) + Detour[n] < MaxReferrals
  BY HealthyFacts
<1>3. 0 + Cardinality(Below(n, Root)) + Detour[n] < MaxReferrals
  BY <1>2
<1> QED BY <1>1, <1>3, HealthyAssumption DEF Near, Tried

\* While the helper of an able call is not looked up it stays pending, and its own
\* lookup is never nested too deeply.
LEMMA LookUpReaches ==
  ASSUME IInv, Right, Reaches, NEW n \in Names, LookUp(n)
  PROVE  Reaches'
<1>1. /\ stack # <<>> /\ Top.looking /\ n \in Top.pending /\ server = NoServer
      /\ result' = result /\ asked' = asked /\ faults' = faults /\ server' = server
  BY DEF LookUp, Looking, Running, Free
<1>2. Len(stack) \in Nat \ {0} /\ Top \in Frames /\ StackOK(stack) /\ RightStack(stack)
  BY <1>1, TopFacts DEF IInv, Right
<1> DEFINE f == [Top EXCEPT !.pending = @ \ {n}]
           g == Frame(n)
           k == Len(stack)
           s == Replace(f)
           t == IF k > MaxDepth THEN s ELSE Append(s, g)
<1>3. /\ f \in Frames
      /\ f.name = Top.name /\ f.servers = Top.servers /\ f.zone = Top.zone
      /\ f.cut = Top.cut /\ f.looking = Top.looking /\ f.pending = Top.pending \ {n}
      /\ f.chain = Top.chain /\ f.referrals = Top.referrals
      /\ f.visited = Top.visited
  BY <1>2 DEF Frames
<1>4. stack' = t
  BY DEF LookUp
<1> HIDE DEF f
<1>5. /\ k \in Nat \ {0} /\ s \in Seq(Frames) /\ Len(s) = k /\ s[k] = f
      /\ \A i \in 1..(k - 1) : s[i] = stack[i]
  BY <1>1, <1>2, <1>3, ReplaceAt
<1>6. g \in Frames /\ g.name = n /\ g.looking = FALSE
  BY NewCallIsPlaced DEF Frame
<1> HIDE DEF s, g
<1>7. /\ t \in Seq(Frames) /\ k <= Len(t) /\ t[k] = f
      /\ \A i \in 1..(k - 1) : t[i] = stack[i]
      /\ \A i \in k..Len(t) : i = k \/ (k <= MaxDepth /\ i = k + 1 /\ t[i] = g)
      /\ k <= MaxDepth => k < Len(t) /\ t[k + 1] = g
  <2>0. MaxDepth \in Nat
    BY ResolverAssumption
  <2>1. CASE k > MaxDepth
    BY <1>5, <2>0, <2>1
  <2>2. CASE ~(k > MaxDepth)
    <3>1. t = Append(s, g)
      BY <2>2
    <3>2. /\ t \in Seq(Frames) /\ Len(t) = k + 1 /\ t[k + 1] = g
          /\ \A i \in 1..k : t[i] = s[i]
      BY <1>5, <1>6, <3>1
    <3> HIDE DEF t
    <3> QED BY <1>5, <2>0, <2>2, <3>2
  <2> QED BY <2>1, <2>2
<1> HIDE DEF t, k
<1>8. \A i : Able(f, i) <=> Able(Top, i)
  BY <1>3 DEF Able
<1> SUFFICES ASSUME faults = 0
             PROVE  Going(t, server) /\ (asked.name \in Healthy => Able(t[1], 1))
  BY <1>1, <1>4, ReachStep
<1>9. /\ Going(stack, server)
      /\ asked.name \in Healthy => Able(stack[1], 1)
  BY <1>1 DEF Reaches
<1>10. ASSUME Able(t[k], k) PROVE Near(t[k]) /\ Tried(t[k], server) /\ Line(t, k)
  <2>1. Able(Top, k)
    BY <1>7, <1>8, <1>10
  <2>2. Near(Top) /\ Tried(Top, server) /\ Line(stack, k) /\ Top.name \in Healthy
    BY <1>1, <1>9, <2>1, AbleTop DEF k
  <2>3. Near(f) /\ Tried(f, server)
    BY <1>3, <2>2 DEF Near, Tried, Ahead
  <2>4. PICK m \in Helpers(Top.name, Top.cut) : m \in Top.pending
    BY <1>1, <1>5, <2>2 DEF Line, Top, k
  <2>5. CASE m # n
    BY <1>3, <1>7, <2>3, <2>4, <2>5 DEF Line
  <2>6. CASE m = n
    <3>1. Nesting[n] < Nesting[Top.name] /\ n \in Healthy
      BY <2>4, <2>6 DEF Helpers
    <3>2. k + Nesting[Top.name] <= MaxDepth + 1
      BY <2>1 DEF Able
    <3>3. Nesting[n] \in Nat /\ Nesting[Top.name] \in Nat /\ MaxDepth \in Nat
      BY <2>2, <3>1, HealthyFacts, ResolverAssumption
    <3>4. k <= MaxDepth
      BY <1>5, <3>1, <3>2, <3>3
    <3>5. k < Len(t) /\ t[k + 1].name = m
      BY <1>6, <1>7, <2>6, <3>4
    <3> QED BY <1>3, <1>7, <2>3, <2>4, <3>5 DEF Line
  <2> QED BY <2>5, <2>6
<1>11. ASSUME NEW i, t[i] = g, Able(g, i)
       PROVE  Near(g) /\ Tried(g, server) /\ Line(t, i)
  <2>1. n \in Healthy
    BY <1>6, <1>11 DEF Able
  <2> QED BY <1>6, <1>11, <2>1, NewCallGoes DEF Line, g
<1>12. \A i \in k..Len(t) : Able(t[i], i) => Near(t[i]) /\ Tried(t[i], server) /\ Line(t, i)
  BY <1>7, <1>10, <1>11
<1>13. Going(t, server)
  <2>1. k \in 1..Len(stack) /\ t[k].name = stack[k].name
    BY <1>3, <1>5, <1>7 DEF k, Top
  <2> QED BY <1>2, <1>7, <1>9, <1>12, <2>1, GoingFrom
<1>14. ASSUME asked.name \in Healthy PROVE Able(t[1], 1)
  <2>1. Able(stack[1], 1)
    BY <1>9, <1>14
  <2>2. CASE k = 1
    <3>1. t[1] = f /\ Top = stack[1]
      BY <1>7, <2>2 DEF Top, k
    <3> QED BY <1>8, <2>1, <3>1
  <2>3. CASE k # 1
    <3>1. 1 \in 1..(k - 1)
      BY <1>5, <2>3
    <3> QED BY <1>7, <2>1, <3>1
  <2> QED BY <2>2, <2>3
<1> QED BY <1>13, <1>14

LEMMA StartReaches ==
  ASSUME IInv, Right, Reaches, StartIterative
  PROVE  Reaches'
<1> DEFINE g == Frame(asked.name)
<1>1. /\ stack' = <<g>> /\ result' = result /\ asked' = asked /\ faults' = faults
      /\ server' = server
  BY DEF StartIterative
<1>2. asked.name \in Names
  BY ResolverAssumption DEF IInv, Rest, Asked
<1>3. g.name = asked.name /\ g.chain = {} /\ g.looking = FALSE
  BY DEF Frame
<1>4. asked.name \in Healthy => Near(g) /\ Tried(g, server)
  BY NewCallGoes
<1> HIDE DEF g
<1>5. Len(<<g>>) = 1 /\ <<g>>[1] = g
  OBVIOUS
<1>6. Going(<<g>>, server)
  <2>1. Able(g, 1) => asked.name \in Healthy
    BY <1>3 DEF Able
  <2> QED BY <1>3, <1>4, <1>5, <2>1 DEF Going, Line
<1>7. ASSUME asked.name \in Healthy PROVE Able(g, 1)
  <2>1. Nesting[asked.name] \in Nat /\ Nesting[asked.name] <= MaxDepth /\ MaxDepth \in Nat
    BY <1>7, HealthyFacts, ResolverAssumption
  <2>2. 1 + Nesting[asked.name] <= MaxDepth + 1
    BY <2>1
  <2> QED BY <1>3, <1>7, <2>2 DEF Able
<1> QED BY <1>1, <1>5, <1>6, <1>7, ReachStep

\* An able call ends with SERVFAIL only for a name without data of the type asked.
NoData(n, t) == n \in Existing /\ Target[n] = n /\ Data(n, t) = {}

LEMMA ReturnReaches ==
  ASSUME IInv, Right, Reaches, stack # <<>>, NEW r, Return(r), Right',
         asked' = asked, faults' = faults, server' = NoServer,
         Top.name \in Sound => RightFor(r, Top.name, Query.type),
         faults = 0 /\ Able(Top, Len(stack)) /\ r = ServFail => NoData(Top.name, Query.type)
  PROVE  Reaches'
<1>1. /\ Len(stack) \in Nat \ {0} /\ StackOK(stack) /\ RightStack(stack)
      /\ Pop \in Seq(Frames) /\ Len(Pop) = Len(stack) - 1
      /\ \A i \in 1..(Len(stack) - 1) : Pop[i] = stack[i]
  BY TopFacts, PopFacts DEF IInv, StackOK, Right
<1> SUFFICES ASSUME faults = 0
             PROVE  Reaches'
  BY DEF Reaches
<1>2. /\ Going(stack, server)
      /\ asked.name \in Healthy => Able(stack[1], 1)
  BY DEF Reaches
<1>3. CASE Len(stack) = 1
  <2>1. stack' = <<>> /\ result' = r
    BY <1>3 DEF Return
  <2>2. Query.type = asked.type /\ Top = stack[1]
    BY <1>3, <1>1 DEF Query, Top
  <2>3. ASSUME asked.name \in Healthy, r = ServFail
        PROVE  Truth(asked).kind # "nxdomain" /\ Truth(asked).answers = {}
    <3> DEFINE n == Top.name
    <3>1. NoData(n, asked.type) /\ n \in Healthy
      BY <1>2, <1>3, <2>2, <2>3 DEF Able
    <3>2. n \in Sound /\ asked.name \in Sound
      BY <2>3, <3>1, HealthyFacts
    <3>3. Canonical[n] = Canonical[asked.name]
      BY <1>1, <2>2, <3>2 DEF RightStack, OnTheWay
    <3>4. Canonical[asked.name] = n
      BY <3>1, <3>2, <3>3, ServedAssumption DEF NoData
    <3> HIDE DEF n
    <3> QED BY <3>1, <3>4 DEF NoData, Truth, Result
  <2>4. asked.name \in Healthy /\ r # NoResult => r \in {Truth(asked), ServFail}
    <3>1. asked.name \in Healthy => asked.name \in Sound
      BY SoundAssumption
    <3> QED BY <2>1, <3>1 DEF Right, RightOrServFail, Finished, Truth
  <2>5. HealthyDataResolved'
    BY <2>1, <2>3, <2>4 DEF HealthyDataResolved, Finished, Truth
  <2>6. Going(stack, server)'
    <3>1. Len(<<>>) = 0 /\ 1..0 = {}
      OBVIOUS
    <3>2. 1..Len(stack') = {}
      BY <2>1, <3>1
    <3> QED BY <3>2 DEF Going
  <2> QED BY <2>1, <2>5, <2>6 DEF Reaches
<1>4. CASE Len(stack) # 1
  <2> DEFINE k == Len(stack) - 1
             c == stack[k]
             S == IF r.kind = "answer" THEN Found(r) ELSE {}
             f == Descend(c, S, c.cut)
             t == IF S = {} THEN Pop ELSE [Pop EXCEPT ![k] = f]
  <2>1. stack' = t /\ result' = result
    BY <1>4 DEF Return
  <2>2. /\ k \in Nat \ {0} /\ k \in 1..k /\ k \in 1..Len(stack) /\ Len(stack) > 1
        /\ k + 1 = Len(stack) /\ Len(Pop) = k /\ \A i \in k..k : i = k
    BY <1>1, <1>4
  <2>3. stack[k + 1] = Top /\ Pop[k] = c
    BY <1>1, <2>2 DEF Top
  <2>4. c \in Frames /\ Safe(c) /\ Calls(c, Top) /\ c.looking
    BY <1>1, <2>2, <2>3 DEF StackOK, Calls
  <2>5. S \in SUBSET Addrs /\ c.cut \in Names /\ c.referrals < MaxReferrals
    BY <2>4 DEF Found, Frames, Safe
  <2>6. f \in Frames /\ f.name = c.name /\ f.chain = c.chain /\ f.servers = S
        /\ f.zone = c.cut /\ f.looking = FALSE /\ f.referrals = c.referrals + 1
        /\ f.visited = c.visited
    <3> HIDE DEF S, c
    <3>1. c.referrals + 1 \in 0..MaxReferrals
      BY <2>4, <2>5, ResolverAssumption DEF Frames
    <3> QED BY <2>4, <2>5, <3>1 DEF Descend, Frames
  <2>7. ASSUME Able(c, k)
        PROVE  /\ Near(c) /\ Tried(c, server) /\ c.name \in Sound /\ c.name \in Healthy
               /\ S = {} => Helpers(c.name, c.cut) \cap c.pending # {}
    <3>1. Near(c) /\ Tried(c, server) /\ Line(stack, k)
      BY <1>2, <2>2, <2>7 DEF Going
    <3>2. c.name \in Healthy /\ c.name \in Sound
      BY <2>7, HealthyFacts DEF Able
    <3>3. Top.name \in Working /\ Top.chain = {}
      BY <1>1, <2>2, <2>3, <3>2, CalleeWorks
    <3>4. Top.name \in Sound /\ Top.name \in Names
      BY <3>3, SoundAssumption DEF Working
    <3>5. PICK m \in Helpers(c.name, c.cut) : m \in c.pending \/ Top.name = m
      BY <2>3, <2>4, <3>1 DEF Line
    <3>6. ASSUME S = {}, Top.name = m PROVE FALSE
      <4>1. m \in Healthy /\ m \in Existing /\ Address[m] # {}
            /\ Nesting[m] < Nesting[c.name]
        BY <3>5 DEF Helpers
      <4>2. k + Nesting[c.name] <= MaxDepth + 1
        BY <2>7 DEF Able
      <4>3. Nesting[m] \in Nat /\ Nesting[c.name] \in Nat /\ MaxDepth \in Nat
        BY <3>2, <4>1, HealthyFacts, ResolverAssumption
      <4>4. Len(stack) + Nesting[m] <= MaxDepth + 1
        <5> HIDE DEF c, k
        <5> QED BY <2>2, <4>1, <4>2, <4>3
      <4>5. Able(Top, Len(stack))
        BY <3>3, <3>6, <4>1, <4>4 DEF Able
      <4>6. Query.type = "A"
        BY <2>2, <1>4 DEF Query
      <4>7. Found(Result("answer", "ok", Data(m, "A"))) = Address[m]
        BY <3>4, <3>6, FoundFacts
      <4>8. Data(m, "A") # {}
        BY <4>1 DEF Data, Addresses
      <4>9. r = Result("answer", "ok", Data(m, "A"))
        BY <3>4, <3>6, <4>1, <4>5, <4>6, <4>8 DEF RightFor, NoData
      <4>10. r.kind = "answer"
        BY <4>9 DEF Result
      <4> QED BY <3>6, <4>1, <4>7, <4>9, <4>10
    <3> QED BY <3>1, <3>2, <3>5, <3>6
  <2> HIDE DEF f, c, S
  <2>8. /\ t \in Seq(Frames) /\ Len(t) = k /\ t[k] = IF S = {} THEN c ELSE f
        /\ \A i \in 1..(k - 1) : t[i] = stack[i]
    <3>1. \A i \in 1..(k - 1) : i \in 1..k /\ i # k /\ Pop[i] = stack[i]
      BY <1>1, <2>2
    <3>2. CASE S = {}
      BY <1>1, <2>2, <2>3, <3>1, <3>2
    <3>3. CASE S # {}
      <4>1. t = [Pop EXCEPT ![k] = f]
        BY <3>3
      <4> HIDE DEF t, k
      <4>2. Pop \in Seq(Frames) /\ Len(Pop) = k /\ k \in 1..k /\ f \in Frames
        BY <1>1, <2>2, <2>6
      <4> HIDE DEF Pop
      <4>3. t \in Seq(Frames) /\ Len(t) = k /\ t[k] = f
        BY <4>1, <4>2
      <4>4. \A i \in 1..(k - 1) : t[i] = Pop[i]
        BY <3>1, <4>1, <4>2
      <4> QED BY <3>1, <3>3, <4>3, <4>4
    <3> QED BY <3>2, <3>3
  <2> HIDE DEF t
  <2>9. \A i : Able(t[k], i) <=> Able(c, i)
    BY <2>6, <2>8 DEF Able
  <2>10. ASSUME Able(t[k], k) PROVE Near(t[k]) /\ Tried(t[k], NoServer) /\ Line(t, k)
    <3>1. /\ Near(c) /\ Tried(c, server) /\ c.name \in Healthy
          /\ S = {} => Helpers(c.name, c.cut) \cap c.pending # {}
      BY <2>7, <2>9, <2>10
    <3>2. CASE S = {}
      BY <2>4, <2>8, <3>1, <3>2 DEF Tried, Line
    <3>3. CASE S # {}
      <4>1. /\ c.cut \in Below(c.name, c.zone) /\ c.name \in Names /\ c.zone \in Names
            /\ c.referrals \in Nat
        BY <2>4, <3>1, ResolverAssumption DEF Near, Frames
      <4>2. /\ Cardinality(Below(c.name, c.cut)) \in Nat
            /\ Cardinality(Below(c.name, c.zone)) \in Nat
            /\ Cardinality(Below(c.name, c.cut)) + 1 <= Cardinality(Below(c.name, c.zone))
        BY <4>1, BelowFacts
      <4>3. Detour[c.name] \in Nat /\ MaxReferrals \in Nat
        BY <3>1, HealthyFacts, ResolverAssumption
      <4>4. c.referrals + Cardinality(Below(c.name, c.zone)) + Detour[c.name] < MaxReferrals
        BY <3>1 DEF Near
      <4>5. (c.referrals + 1) + Cardinality(Below(c.name, c.cut)) + Detour[c.name]
              < MaxReferrals
        BY <4>1, <4>2, <4>3, <4>4
      <4>6. Near(f)
        BY <2>6, <3>1, <3>3, <4>5 DEF Near
      <4>7. Tried(f, NoServer)
        BY <2>4, <2>6, <3>1 DEF Tried, Ahead
      <4> QED BY <2>6, <2>8, <3>3, <4>6, <4>7 DEF Line
    <3> QED BY <3>2, <3>3
  <2>11. Going(t, NoServer)
    <3>1. \A i \in k..Len(t) : i = k
      BY <2>2, <2>8
    <3>2. \A i \in k..Len(t) : Able(t[i], i) => Near(t[i]) /\ Tried(t[i], NoServer) /\ Line(t, i)
      BY <2>10, <3>1
    <3>3. t[k].name = stack[k].name /\ k <= Len(t)
      BY <2>2, <2>6, <2>8 DEF c
    <3> HIDE DEF k
    <3> QED BY <1>1, <1>2, <2>2, <2>8, <3>2, <3>3, GoingFrom
  <2>12. ASSUME asked.name \in Healthy PROVE Able(t[1], 1)
    <3>1. Able(stack[1], 1)
      BY <1>2, <2>12
    <3>2. CASE k = 1
      BY <2>9, <3>1, <3>2 DEF c
    <3>3. CASE k # 1
      <4>1. 1 \in 1..(k - 1)
        BY <2>2, <3>3
      <4> QED BY <2>8, <3>1, <4>1
    <3> QED BY <3>2, <3>3
  <2> QED BY <2>1, <2>11, <2>12, ReachStep
<1> QED BY <1>3, <1>4

\* What ends a call for an able name other than with an answer: only a reply
\* without data.
LEMMA LastReplyReaches ==
  ASSUME IInv, Right, Reaches, Right', NEW p \in Arriving,
         \/ NxDomain(p) \/ Answered(p) \/ AliasLoop(p)
         \/ BogusReferral(p) \/ EmptyReply(p)
  PROVE  Reaches'
<1>1. stack # <<>> /\ Walking(p)
  BY LastReplyReturns
<1>2. \E r : /\ Return(r) /\ Fair(r)
             /\ Top.name \in Sound => RightFor(r, Top.name, Query.type)
             /\ r = ServFail => AliasLoop(p) \/ BogusReferral(p)
  BY LastReplyReturns
<1>3. PICK r : /\ Return(r)
               /\ Top.name \in Sound => RightFor(r, Top.name, Query.type)
               /\ r = ServFail => AliasLoop(p) \/ BogusReferral(p)
  BY <1>2
<1>4. asked' = asked /\ faults' = faults /\ server' = NoServer
  BY DEF NxDomain, Answered, AliasLoop, BogusReferral, EmptyReply, Done
<1>5. ASSUME faults = 0, Able(Top, Len(stack)), AliasLoop(p) \/ BogusReferral(p)
      PROVE  NoData(Top.name, Query.type)
  <2> DEFINE n == Top.name
  <2>1. Going(stack, server)
    BY <1>5 DEF Reaches
  <2>2. /\ RightStack(stack) /\ Top \in Frames /\ n \in Healthy /\ n \in Sound /\ n \in Names
        /\ Near(Top)
    BY <1>1, <1>5, <2>1, AbleTop
  <2>3. p.body.rcode # "nxdomain"
    BY <1>5 DEF AliasLoop, BogusReferral, Delegating
  <2>4. ~AliasLoop(p)
    <3> SUFFICES ASSUME AliasLoop(p) PROVE FALSE
      OBVIOUS
    <3>1. PICK x \in Aliases(p) : x.data \notin Names \ Top.chain
      BY DEF AliasLoop
    <3>2. n \in Existing /\ Target[n] # n /\ x.data = Target[n]
      BY <1>1, <2>2, <2>3, AliasOfSound
    <3>3. /\ Target[n] \in Healthy
          /\ Detour[n] > Cardinality(Below(Target[n], Root)) + Detour[Target[n]]
      BY <2>2, <3>2, HealthyAssumption
    <3>4. /\ Target[n] \in Names /\ Detour[n] \in Nat /\ Detour[Target[n]] \in Nat
          /\ Cardinality(Below(Target[n], Root)) \in Nat
      BY <2>2, <3>3, HealthyFacts
    <3>5. Target[n] \in Top.chain
      BY <3>1, <3>2, <3>4
    <3>6. Detour[Target[n]] > Detour[n]
      BY <2>2, <3>5 DEF Near
    <3> QED BY <3>3, <3>4, <3>6
  <2>5. Answers(p) = {}
    BY <1>5, <2>4 DEF BogusReferral, Delegating
  <2>6. ~\E d \in Below(n, Top.zone) \ {Root} : ReadsDelegation(p, d)
    <3> SUFFICES ASSUME NEW d \in Below(n, Top.zone) \ {Root}, ReadsDelegation(p, d)
                 PROVE  FALSE
      OBVIOUS
    <3>1. d # Top.zone /\ d \in Under[n]
      BY DEF Below
    <3>2. \A x \in Delegations(p) : x.owner = d
      BY DEF ReadsDelegation
    <3>3. Delegations(p) # {} /\ ns_names(p, d) # {}
      BY DEF ReadsDelegation
    <3> QED BY <1>5, <2>4, <3>1, <3>2, <3>3 DEF BogusReferral, Descends, in_bailiwick
  <2>7. ReadsAnswer(p, n, Query.type)
    BY <1>1, <2>2, <2>6, SoundRead
  <2>8. n \in Existing
    BY <2>3, <2>7 DEF ReadsAnswer
  <2>9. Target[n] = n
    BY <2>5, <2>7, <2>8 DEF ReadsAnswer
  <2> QED BY <2>5, <2>7, <2>8, <2>9 DEF ReadsAnswer, NoData
<1> QED BY <1>1, <1>3, <1>4, <1>5, ReturnReaches

\* The limits never end an able call, and it never runs out of servers or of
\* nameservers to look up.
LEMMA NeverGivesUp ==
  ASSUME IInv, Right, Reaches, faults = 0,
         TooManyReferrals \/ AllServersFailed \/ NoneFound
  PROVE  ~Able(Top, Len(stack))
<1> SUFFICES ASSUME Able(Top, Len(stack)) PROVE FALSE
  OBVIOUS
<1>1. stack # <<>> /\ server = NoServer
  BY DEF TooManyReferrals, AllServersFailed, NoneFound, Asking, Looking, Running, Free
<1>2. /\ Top \in Frames /\ Top.referrals \in Nat
      /\ Top.name \in Healthy /\ Top.name \in Names
      /\ Top.zone \in Zones \cap Under[Top.name] /\ Top.zone \in Names
      /\ \A a \in Top.servers : Top.zone \in Hosts[a] /\ a \in Addrs
      /\ Near(Top) /\ Tried(Top, server) /\ Line(stack, Len(stack))
      /\ Len(stack) \in Nat
  BY <1>1, AbleTop DEF Reaches
<1>3. CASE TooManyReferrals
  <2>1. Top.referrals >= MaxReferrals
    BY <1>3 DEF TooManyReferrals
  <2>2. Top.referrals + Cardinality(Below(Top.name, Top.zone)) + Detour[Top.name]
          < MaxReferrals
    BY <1>2 DEF Near
  <2>3. /\ Cardinality(Below(Top.name, Top.zone)) \in Nat /\ Detour[Top.name] \in Nat
        /\ MaxReferrals \in Nat
    BY <1>2, BelowFacts, HealthyFacts, ResolverAssumption
  <2> QED BY <1>2, <2>1, <2>2, <2>3
<1>4. CASE AllServersFailed
  <2>1. ~Top.looking /\ Fresh(Top) = {}
    BY <1>4 DEF AllServersFailed, Asking
  <2>2. PICK a \in Top.servers : TRUE
    BY <1>2 DEF Near
  <2>3. <<Top.name, a>> \in Top.visited
    BY <2>1 DEF Fresh
  <2>4. a # NoServer /\ Top.zone \in Hosts[a]
    BY <1>2, ResolverAssumption
  <2>5. Past(a, Top.name, Top.zone)
    BY <1>1, <1>2, <2>1, <2>3, <2>4 DEF Tried, Ahead
  <2>6. Top.zone \in Under[Top.zone]
    BY <1>2, UnderFacts
  <2> QED BY <1>2, <2>4, <2>5, <2>6 DEF Past
<1>5. CASE NoneFound
  <2>1. Top.looking /\ Top.pending = {}
    BY <1>5 DEF NoneFound, Looking
  <2> QED BY <1>2, <2>1 DEF Line, Top
<1> QED BY <1>3, <1>4, <1>5

\* No reply of a server that works is taken for the answer to another question.
LEMMA MismatchReaches ==
  ASSUME IInv, Right, Reaches, NEW p \in Arriving, Mismatch(p)
  PROVE  Reaches'
<1>1. /\ stack' = stack /\ asked' = asked /\ result' = result /\ faults' = faults
      /\ server' = NoServer /\ server # NoServer /\ tcp /\ p.question # Query
  BY DEF Mismatch, Free, answers_query
<1>2. server \in Broken
  <2>1. server \notin Broken => \A q \in Arriving : q.question = Query
    BY <1>1 DEF Arriving
  <2> QED BY <1>1, <2>1
<1>3. ASSUME faults = 0, stack # <<>> PROVE ~Able(Top, Len(stack))
  <2> SUFFICES ASSUME Able(Top, Len(stack)) PROVE FALSE
    OBVIOUS
  <2>1. \A a \in Top.servers : a \notin Broken
    BY <1>3, AbleTop DEF Reaches
  <2>2. server \in Top.servers
    BY <1>1, <1>3 DEF IInv, Talks, Top
  <2> QED BY <1>2, <2>1, <2>2
<1>4. ASSUME faults = 0 PROVE Going(stack, NoServer)
  <2> SUFFICES ASSUME NEW i \in 1..Len(stack), Able(stack[i], i)
               PROVE  Near(stack[i]) /\ Tried(stack[i], NoServer) /\ Line(stack, i)
    BY DEF Going
  <2>1. Len(stack) \in Nat /\ (Len(stack) = 0 <=> stack = <<>>)
    BY DEF IInv, StackOK
  <2>2. i # Len(stack)
    BY <1>3, <1>4, <2>1 DEF Top
  <2>3. stack[i].looking
    <3>1. i \in 1..(Len(stack) - 1)
      BY <2>1, <2>2
    <3> QED BY <3>1 DEF IInv, StackOK, Calls
  <2>4. Near(stack[i]) /\ Tried(stack[i], server) /\ Line(stack, i)
    BY <1>4 DEF Reaches, Going
  <2> QED BY <2>3, <2>4 DEF Tried
<1> QED BY <1>1, <1>4, ReachStep DEF Reaches

LEMMA InitReaches == Init => Reaches
<1>1. Len(<<>>) = 0 /\ 1..0 = {}
  OBVIOUS
<1> SUFFICES ASSUME Init PROVE Reaches
  OBVIOUS
<1>2. 1..Len(stack) = {}
  BY <1>1 DEF Init
<1> QED BY <1>2 DEF Init, Reaches, Going, HealthyDataResolved, Finished

LEMMA NextReaches == IInv /\ Right /\ Reaches /\ [Next]_vars => Reaches'
<1> SUFFICES ASSUME IInv, Right, Reaches, [Next]_vars PROVE Reaches'
  OBVIOUS
<1>0. Right'
  BY NextIsRight
<1>1. ASSUME stack' = stack, result' = result, asked' = asked, faults' = faults,
             stack = <<>> \/ server' = server
      PROVE  Reaches'
  <2>1. faults = 0 => Going(stack, server')
    <3>1. CASE stack = <<>>
      <4>1. 1..Len(stack) = {}
        <5>1. Len(<<>>) = 0 /\ 1..0 = {}
          OBVIOUS
        <5> QED BY <3>1, <5>1
      <4> QED BY <4>1 DEF Going
    <3>2. CASE server' = server
      BY <3>2 DEF Reaches
    <3> QED BY <1>1, <3>1, <3>2
  <2> QED BY <1>1, <2>1, ReachStep DEF Reaches
<1>2. CASE UNCHANGED vars
  BY <1>1, <1>2 DEF vars
<1>3. CASE Fail
  <2>1. faults \in Nat /\ faults' = faults + 1
    BY <1>3, ResolverAssumption DEF Fail, IInv, Rest
  <2>2. faults' # 0
    BY <2>1
  <2> QED BY <2>2 DEF Reaches
<1>4. CASE Call
  <2>1. ASSUME NEW f \in Forwarders, AskForwarder(f) PROVE Reaches'
    BY <1>1, <2>1 DEF AskForwarder
  <2>2. ASSUME NEW a \in Addrs, SendTo(a) PROVE Reaches'
    BY <2>2, SendToReaches
  <2>3. ASSUME NEW n \in Names, LookUp(n) PROVE Reaches'
    BY <2>3, LookUpReaches
  <2>4. ASSUME TooManyReferrals \/ AllServersFailed \/ NoneFound PROVE Reaches'
    <3>1. /\ stack # <<>> /\ asked' = asked /\ faults' = faults /\ Return(ServFail)
          /\ server' = NoServer
      BY <2>4 DEF TooManyReferrals, AllServersFailed, NoneFound, Asking, Looking,
                  Running, Free
    <3>2. faults = 0 => ~Able(Top, Len(stack))
      BY <2>4, NeverGivesUp
    <3> QED BY <1>0, <3>1, <3>2, ReturnReaches DEF RightFor
  <2> QED BY <1>4, <2>1, <2>2, <2>3, <2>4, StartReaches DEF Call
<1>5. CASE Arrive
  <2>1. PICK p \in Arriving : Receive(p)
    BY <1>5 DEF Arrive
  <2>2. CASE Ignore(p) \/ Truncated(p) \/ ForwarderFailed(p)
    BY <1>1, <2>2 DEF Ignore, Truncated, ForwarderFailed, vars
  <2>3. CASE FollowAlias(p)
    BY <2>3, FollowAliasReaches
  <2>4. CASE Referral(p)
    BY <2>4, ReferralReaches
  <2>5. CASE Glueless(p)
    BY <2>5, GluelessReaches
  <2>6. CASE ForwarderAnswered(p)
    <3>1. stack = <<>> /\ stack' = stack /\ result' # ServFail /\ asked' = asked
      BY <2>6 DEF ForwarderAnswered, Result, ServFail
    <3>2. 1..Len(stack') = {}
      <4>1. Len(<<>>) = 0 /\ 1..0 = {}
        OBVIOUS
      <4> QED BY <3>1, <4>1
    <3>3. HealthyDataResolved'
      <4>1. asked.name \in Healthy => asked.name \in Sound
        BY SoundAssumption
      <4> QED BY <1>0, <3>1, <4>1
              DEF Right, RightOrServFail, HealthyDataResolved, Finished, Truth
    <3> QED BY <3>1, <3>2, <3>3 DEF Reaches, Going
  <2>7. CASE \/ NxDomain(p) \/ Answered(p) \/ AliasLoop(p)
             \/ BogusReferral(p) \/ EmptyReply(p)
    BY <1>0, <2>7, LastReplyReaches
  <2>8. CASE Mismatch(p)
    BY <2>8, MismatchReaches
  <2> QED BY <2>1, <2>2, <2>3, <2>4, <2>5, <2>6, <2>7, <2>8 DEF Receive
<1> QED BY <1>2, <1>3, <1>4, <1>5 DEF Next

\* For every tree of zones whose healthy names lie within the limits: without a
\* failed exchange a healthy name that has data, or does not exist, is resolved.
\* MAX_REFERRALS, MAX_NS_LOOKUP_DEPTH, the set of visited servers and the check for
\* alias loops never stop a walk that can go on, though late and truncated replies
\* come in between (resolver.rs:166, 206, 285).
THEOREM HealthyDataIsResolved == Spec => []HealthyDataResolved
<1>1. IInv /\ Right /\ Reaches /\ [Next]_vars => Reaches'
  BY NextReaches
<1>2. Reaches => HealthyDataResolved
  BY DEF Reaches, HealthyDataResolved
<1> QED BY <1>1, <1>2, RightInvariance, InitReaches, PTL DEF Spec
-----------------------------------------------------------------------------
(* Every step uses something up (Advance).  A call that goes on to another    *)
(* zone has a referral less, which outweighs whatever it may try there.       *)

\* What the call in place i of a stack can still do.
CallRank(s, i) == IF i <= Len(s) THEN CallLeft(s[i]) ELSE 0

LEMMA RemainingFacts ==
  /\ Remaining[1] = Cardinality(forwarders) + IF stack = <<>> /\ ~Finished THEN 1 ELSE 0
  /\ Remaining[MaxDepth + 3] = IF Free THEN 0 ELSE IF tcp THEN 1 ELSE 2
  /\ \A i \in 1..(MaxDepth + 1) : Remaining[i + 1] = CallRank(stack, i)
<1>1. MaxDepth \in Nat
  BY ResolverAssumption
<1>2. 1 \in 1..(MaxDepth + 3) /\ MaxDepth + 3 \in 1..(MaxDepth + 3) /\ MaxDepth + 3 # 1
  BY <1>1
<1>3. ASSUME NEW i \in 1..(MaxDepth + 1)
      PROVE  Remaining[i + 1] = CallRank(stack, i)
  <2>1. i + 1 \in 1..(MaxDepth + 3) /\ i + 1 # 1 /\ i + 1 # MaxDepth + 3 /\ (i + 1) - 1 = i
    BY <1>1
  <2> QED BY <2>1 DEF Remaining, CallRank
<1> QED BY <1>2, <1>3 DEF Remaining

LEMMA RemainingNext ==
  /\ Remaining'[1] = Cardinality(forwarders')
                       + IF stack' = <<>> /\ ~Finished' THEN 1 ELSE 0
  /\ Remaining'[MaxDepth + 3] = IF server' = NoServer THEN 0 ELSE IF tcp' THEN 1 ELSE 2
  /\ \A i \in 1..(MaxDepth + 1) : Remaining'[i + 1] = CallRank(stack', i)
<1>1. MaxDepth \in Nat
  BY ResolverAssumption
<1>2. 1 \in 1..(MaxDepth + 3) /\ MaxDepth + 3 \in 1..(MaxDepth + 3) /\ MaxDepth + 3 # 1
  BY <1>1
<1>3. ASSUME NEW i \in 1..(MaxDepth + 1)
      PROVE  Remaining'[i + 1] = CallRank(stack', i)
  <2>1. i + 1 \in 1..(MaxDepth + 3) /\ i + 1 # 1 /\ i + 1 # MaxDepth + 3 /\ (i + 1) - 1 = i
    BY <1>1
  <2> QED BY <2>1 DEF Remaining, CallRank
<1> QED BY <1>2, <1>3 DEF Remaining, Free

\* A step that uses up something of the call in place i.
LEMMA CallAdvances ==
  ASSUME NEW i \in 1..(MaxDepth + 1),
         CallRank(stack', i) < CallRank(stack, i),
         \A h \in 1..(i - 1) : CallRank(stack', h) = CallRank(stack, h),
         forwarders' = forwarders, stack # <<>>, stack' # <<>> \/ Finished'
  PROVE  Advance
<1>1. MaxDepth \in Nat
  BY ResolverAssumption
<1>2. i + 1 \in 1..(MaxDepth + 3) /\ Remaining'[i + 1] < Remaining[i + 1]
  BY <1>1, RemainingFacts, RemainingNext
<1>3. ASSUME NEW j \in 1..((i + 1) - 1)
      PROVE  Remaining'[j] = Remaining[j]
  <2>1. CASE j = 1
    <3>1. /\ Remaining[1] = Cardinality(forwarders) + 0
          /\ Remaining'[1] = Cardinality(forwarders') + 0
      BY RemainingFacts, RemainingNext
    <3> QED BY <2>1, <3>1
  <2>2. CASE j # 1
    <3>1. j - 1 \in 1..(i - 1) /\ j - 1 \in 1..(MaxDepth + 1) /\ (j - 1) + 1 = j
      BY <1>1, <2>2
    <3>2. Remaining[(j - 1) + 1] = CallRank(stack, j - 1)
      BY <3>1, RemainingFacts
    <3>3. Remaining'[(j - 1) + 1] = CallRank(stack', j - 1)
      BY <3>1, RemainingNext
    <3> QED BY <3>1, <3>2, <3>3
  <2> QED BY <2>1, <2>2
<1> QED BY <1>2, <1>3 DEF Advance

\* A step of an exchange in progress that changes nothing else.
LEMMA ExchangeAdvances ==
  ASSUME IInv, forwarders' = forwarders, stack' = stack, Finished' = Finished,
         server # NoServer,
         server' = NoServer \/ (server' = server /\ ~tcp /\ tcp')
  PROVE  Advance
<1>1. MaxDepth \in Nat
  BY ResolverAssumption
<1>2. Remaining'[MaxDepth + 3] < Remaining[MaxDepth + 3]
  BY RemainingFacts, RemainingNext DEF Free
<1>3. ASSUME NEW j \in 1..((MaxDepth + 3) - 1)
      PROVE  Remaining'[j] = Remaining[j]
  <2>1. CASE j = 1
    BY <2>1, RemainingFacts, RemainingNext
  <2>2. CASE j # 1
    <3>1. j - 1 \in 1..(MaxDepth + 1) /\ (j - 1) + 1 = j
      BY <1>1, <2>2
    <3>2. Remaining[(j - 1) + 1] = CallRank(stack, j - 1)
      BY <3>1, RemainingFacts
    <3>3. Remaining'[(j - 1) + 1] = CallRank(stack', j - 1)
      BY <3>1, RemainingNext
    <3> QED BY <3>1, <3>2, <3>3
  <2> QED BY <2>1, <2>2
<1>4. MaxDepth + 3 \in 1..(MaxDepth + 3)
  BY <1>1
<1> QED BY <1>2, <1>3, <1>4 DEF Advance

\* What a call may try in its zone is less than a referral is worth.
LEMMA TryBound ==
  ASSUME NEW f \in Frames
  PROVE  /\ ToTry(f) \in Nat /\ Width \in Nat /\ ToTry(f) < Width
         /\ Cardinality(Fresh(f)) \in Nat /\ IsFiniteSet(Fresh(f))
         /\ Cardinality(f.pending) \in Nat /\ IsFiniteSet(f.pending)
         /\ Cardinality(f.pending) <= Cardinality(Names)
         /\ Cardinality(Names) \in Nat
<1>1. Fresh(f) \in SUBSET Addrs /\ f.pending \in SUBSET Names
  BY DEF Fresh, Frames
<1>2. /\ IsFiniteSet(Fresh(f)) /\ Cardinality(Fresh(f)) \in Nat
      /\ Cardinality(Fresh(f)) <= Cardinality(Addrs)
  BY <1>1, FiniteAssumption, FS_Subset, FS_CardinalityType
<1>3. /\ IsFiniteSet(f.pending) /\ Cardinality(f.pending) \in Nat
      /\ Cardinality(f.pending) <= Cardinality(Names)
  BY <1>1, FiniteAssumption, FS_Subset, FS_CardinalityType
<1>4. Cardinality(Addrs) \in Nat /\ Cardinality(Names) \in Nat
  BY FiniteAssumption, FS_CardinalityType
<1> QED BY <1>2, <1>3, <1>4 DEF ToTry, Width

LEMMA CallLeftType ==
  ASSUME NEW f \in Frames
  PROVE  CallLeft(f) \in Nat /\ CallLeft(f) > 0
<1>1. MaxReferrals - f.referrals \in Nat
  BY ResolverAssumption DEF Frames
<1>2. ToTry(f) \in Nat /\ Width \in Nat
  BY TryBound
<1>3. \A x, y \in Nat : x * y \in Nat
  OBVIOUS
<1>4. (MaxReferrals - f.referrals) * Width \in Nat
  BY <1>1, <1>2, <1>3
<1> QED BY <1>2, <1>4 DEF CallLeft

\* A call that has followed one more referral or alias has less left to do.
LEMMA ReferralUsesUp ==
  ASSUME NEW f \in Frames, NEW g \in Frames, g.referrals = f.referrals + 1
  PROVE  CallLeft(g) < CallLeft(f)
<1> DEFINE m == MaxReferrals - f.referrals
           n == MaxReferrals - g.referrals
<1>1. m \in Nat /\ n \in Nat /\ m = n + 1
  BY ResolverAssumption DEF Frames
<1>2. /\ ToTry(f) \in Nat /\ ToTry(g) \in Nat /\ Width \in Nat /\ ToTry(g) < Width
  BY TryBound
<1>3. \A x, w \in Nat : x * w \in Nat /\ (x + 1) * w = x * w + w
  OBVIOUS
<1>4. m * Width = n * Width + Width /\ n * Width \in Nat
  BY <1>1, <1>2, <1>3
<1>5. CallLeft(f) = m * Width + ToTry(f) + 1 /\ CallLeft(g) = n * Width + ToTry(g) + 1
  BY DEF CallLeft
<1> HIDE DEF m, n
<1> QED BY <1>2, <1>4, <1>5

\* A call that has used up something in its zone.
LEMMA TryUsesUp ==
  ASSUME NEW f \in Frames, NEW g \in Frames, g.referrals = f.referrals,
         ToTry(g) < ToTry(f)
  PROVE  CallLeft(g) < CallLeft(f)
<1>1. ToTry(f) \in Nat /\ ToTry(g) \in Nat /\ Width \in Nat
  BY TryBound
<1>2. MaxReferrals - f.referrals \in Nat
  BY ResolverAssumption DEF Frames
<1>3. (MaxReferrals - f.referrals) * Width \in Nat
  <2>1. \A x, y \in Nat : x * y \in Nat
    OBVIOUS
  <2> QED BY <1>1, <1>2, <2>1
<1> QED BY <1>1, <1>3 DEF CallLeft

-----------------------------------------------------------------------------
(* The steps.                                                               *)

\* The innermost call goes on with less left to do.
LEMMA ReplaceAdvances ==
  ASSUME IInv, stack # <<>>, NEW f \in Frames, CallLeft(f) < CallLeft(Top),
         stack' = Replace(f), forwarders' = forwarders
  PROVE  Advance
<1> DEFINE i == Len(stack)
<1>1. /\ i \in Nat \ {0} /\ i <= MaxDepth + 1 /\ MaxDepth \in Nat
      /\ Len(stack') = i /\ stack'[i] = f /\ stack' \in Seq(Frames)
      /\ \A h \in 1..(i - 1) : stack'[h] = stack[h]
  BY ReplaceAt, ResolverAssumption DEF IInv, StackOK
<1>2. CallRank(stack', i) < CallRank(stack, i)
  BY <1>1 DEF CallRank, Top
<1>3. \A h \in 1..(i - 1) : CallRank(stack', h) = CallRank(stack, h)
  BY <1>1 DEF CallRank
<1>4. stack' # <<>>
  BY <1>1
<1> QED BY <1>1, <1>2, <1>3, <1>4, CallAdvances

\* A frame goes on to another zone.
LEMMA DescendUsesUp ==
  ASSUME NEW f \in Frames, f.referrals < MaxReferrals, NEW S \in SUBSET Addrs,
         NEW d \in Names
  PROVE  Descend(f, S, d) \in Frames /\ CallLeft(Descend(f, S, d)) < CallLeft(f)
<1>1. f.referrals + 1 \in 0..MaxReferrals
  BY ResolverAssumption DEF Frames
<1>2. Descend(f, S, d) \in Frames /\ Descend(f, S, d).referrals = f.referrals + 1
  BY <1>1 DEF Descend, Frames
<1> QED BY <1>2, ReferralUsesUp

\* The innermost call returns: it has nothing left, or its caller a referral less.
LEMMA ReturnAdvances ==
  ASSUME IInv, stack # <<>>, NEW r, r # NoResult, Return(r), forwarders' = forwarders
  PROVE  Advance
<1> DEFINE i == Len(stack)
<1>1. /\ i \in Nat \ {0} /\ i <= MaxDepth + 1 /\ MaxDepth \in Nat
      /\ stack \in Seq(Frames)
      /\ Pop \in Seq(Frames) /\ Len(Pop) = i - 1
      /\ \A h \in 1..(i - 1) : Pop[h] = stack[h]
  BY TopFacts, PopFacts, ResolverAssumption DEF IInv, StackOK
<1>2. CallRank(stack, i) > 0 /\ CallRank(stack, i) \in Nat
  BY <1>1, CallLeftType DEF CallRank
<1>3. CASE i = 1
  <2>1. stack' = <<>> /\ result' = r
    BY <1>3 DEF Return
  <2>2. CallRank(stack', i) = 0
    <3>1. Len(<<>>) = 0
      OBVIOUS
    <3> QED BY <1>3, <2>1, <3>1 DEF CallRank
  <2>3. CallRank(stack', i) < CallRank(stack, i)
    BY <1>2, <2>2
  <2>4. i \in 1..(MaxDepth + 1) /\ \A h \in 1..(i - 1) : CallRank(stack', h) = CallRank(stack, h)
    BY <1>1, <1>3
  <2>5. Finished'
    BY <2>1 DEF Finished
  <2> QED BY <2>3, <2>4, <2>5, CallAdvances
<1>4. CASE i # 1
  <2> DEFINE caller == stack[i - 1]
             S == IF r.kind = "answer" THEN Found(r) ELSE {}
             g == Descend(caller, S, caller.cut)
  <2>1. stack' = IF S = {} THEN Pop ELSE [Pop EXCEPT ![i - 1] = g]
    BY <1>4 DEF Return
  <2>2. CASE S = {}
    <3>1. stack' = Pop
      BY <2>1, <2>2
    <3>2. CallRank(stack', i) = 0
      BY <1>1, <3>1 DEF CallRank
    <3>3. \A h \in 1..(i - 1) : CallRank(stack', h) = CallRank(stack, h)
      BY <1>1, <3>1 DEF CallRank
    <3>4. stack' # <<>> /\ i \in 1..(MaxDepth + 1)
      BY <1>1, <1>4, <3>1
    <3>5. CallRank(stack', i) < CallRank(stack, i)
      BY <1>2, <3>2
    <3> QED BY <3>3, <3>4, <3>5, CallAdvances
  <2>3. CASE S # {}
    <3>1. i - 1 \in 1..Len(stack) /\ i - 1 \in 1..(Len(stack) - 1) /\ i - 1 \in 1..(MaxDepth + 1)
      BY <1>1, <1>4
    <3>2. caller \in Frames /\ Safe(caller) /\ caller.looking
      BY <1>1, <3>1 DEF IInv, StackOK, Calls
    <3>3. S \in SUBSET Addrs
      BY DEF Found
    <3>4. caller.referrals < MaxReferrals /\ caller.cut \in Names
      BY <3>2 DEF Safe, Frames
    <3> HIDE DEF S, caller
    <3>5. g \in Frames /\ CallLeft(g) < CallLeft(caller)
      BY <3>2, <3>3, <3>4, DescendUsesUp
    <3> HIDE DEF g
    <3>6. /\ stack' \in Seq(Frames) /\ Len(stack') = i - 1 /\ stack'[i - 1] = g
          /\ \A h \in 1..((i - 1) - 1) : stack'[h] = stack[h]
      BY <1>1, <2>1, <2>3, <3>1, <3>5
    <3>7. CallRank(stack', i - 1) < CallRank(stack, i - 1)
      BY <1>1, <3>1, <3>5, <3>6 DEF CallRank, caller
    <3>8. \A h \in 1..((i - 1) - 1) : CallRank(stack', h) = CallRank(stack, h)
      BY <1>1, <3>6 DEF CallRank
    <3>9. stack' # <<>>
      BY <3>1, <3>6
    <3> QED BY <3>1, <3>7, <3>8, <3>9, CallAdvances
  <2> QED BY <2>2, <2>3
<1> QED BY <1>3, <1>4

LEMMA SendToAdvances ==
  ASSUME IInv, NEW a \in Addrs, SendTo(a)
  PROVE  Advance
<1> DEFINE f == Visit(Top, a)
<1>1. /\ stack # <<>> /\ ~Top.looking /\ a \in Fresh(Top)
      /\ stack' = Replace(f) /\ forwarders' = forwarders
  BY DEF SendTo, Asking, Running
<1>2. Top \in Frames
  BY <1>1, TopFacts DEF IInv
<1>3. /\ f \in Frames /\ f.referrals = Top.referrals /\ ~f.looking
      /\ f.servers = Top.servers /\ f.name = Top.name
      /\ f.visited = Top.visited \cup {<<Top.name, a>>}
  BY <1>1, <1>2 DEF Visit, Frames
<1> HIDE DEF f
<1>4. Fresh(f) \in SUBSET Fresh(Top) /\ a \notin Fresh(f)
  BY <1>3 DEF Fresh
<1>5. Cardinality(Fresh(f)) < Cardinality(Fresh(Top))
  <2>1. IsFiniteSet(Fresh(Top)) /\ Cardinality(Fresh(Top)) \in Nat
        /\ Cardinality(Fresh(f)) \in Nat
    BY <1>2, <1>3, TryBound
  <2>2. /\ Cardinality(Fresh(f)) <= Cardinality(Fresh(Top))
        /\ Cardinality(Fresh(Top)) = Cardinality(Fresh(f)) => Fresh(Top) = Fresh(f)
    BY <1>4, <2>1, FS_Subset
  <2> QED BY <1>1, <1>4, <2>1, <2>2
<1>6. ToTry(f) < ToTry(Top)
  BY <1>1, <1>2, <1>3, <1>5, TryBound DEF ToTry
<1> QED BY <1>1, <1>2, <1>3, <1>6, TryUsesUp, ReplaceAdvances

\* The exchange of a reply to the walk is with a call that may go on.
LEMMA WalkingFacts ==
  ASSUME IInv, NEW p \in Arriving, Walking(p)
  PROVE  /\ stack # <<>> /\ server # NoServer
         /\ Top \in Frames /\ ~Top.looking /\ Top.referrals < MaxReferrals
<1>1. stack # <<>> /\ server # NoServer
  BY DEF Walking, Accepted, Free
<1> QED BY <1>1, TopFacts DEF IInv, Talks, Top

LEMMA FollowAliasAdvances ==
  ASSUME IInv, NEW p \in Arriving, FollowAlias(p)
  PROVE  Advance
<1>1. PICK r \in Aliases(p) : /\ r.data \in Names
                              /\ stack' = Replace(Restart(Top, r.data))
  BY DEF FollowAlias
<1> DEFINE f == Restart(Top, r.data)
<1>2. Walking(p) /\ forwarders' = forwarders
  BY DEF FollowAlias
<1>3. stack # <<>> /\ Top \in Frames /\ Top.referrals < MaxReferrals
  BY <1>2, WalkingFacts
<1>4. Top.referrals + 1 \in 0..MaxReferrals
  BY <1>3, ResolverAssumption DEF Frames
<1>5. f \in Frames /\ f.referrals = Top.referrals + 1
  BY <1>1, <1>3, <1>4, ResolverAssumption DEF Restart, Frames
<1> HIDE DEF f
<1>6. CallLeft(f) < CallLeft(Top)
  BY <1>3, <1>5, ReferralUsesUp
<1>7. stack' = Replace(f)
  BY <1>1 DEF f
<1> QED BY <1>2, <1>3, <1>5, <1>6, <1>7, ReplaceAdvances

LEMMA ReferralAdvances ==
  ASSUME IInv, NEW p \in Arriving, Referral(p)
  PROVE  Advance
<1>1. PICK r \in Delegations(p) :
        /\ Descends(r.owner)
        /\ stack' = Replace(Descend(Top, GlueFor(p, r.owner), r.owner))
  BY DEF Referral
<1> DEFINE d == r.owner
           f == Descend(Top, GlueFor(p, d), d)
<1>2. Walking(p) /\ forwarders' = forwarders
  BY DEF Referral, Delegating
<1>3. stack # <<>> /\ Top \in Frames /\ Top.referrals < MaxReferrals
  BY <1>2, WalkingFacts
<1>4. GlueFor(p, d) \in SUBSET Addrs
  BY DEF GlueFor
<1>5. d \in Names
  BY <1>1, <1>3, ResolverAssumption DEF Descends, in_bailiwick, Frames
<1> HIDE DEF d
<1>6. f \in Frames /\ CallLeft(f) < CallLeft(Top)
  BY <1>3, <1>4, <1>5, DescendUsesUp
<1> HIDE DEF f
<1>7. stack' = Replace(f)
  BY <1>1 DEF d, f
<1> QED BY <1>2, <1>3, <1>6, <1>7, ReplaceAdvances

\* Nameservers to look up are less than servers to ask.
LEMMA GluelessAdvances ==
  ASSUME IInv, NEW p \in Arriving, Glueless(p)
  PROVE  Advance
<1>1. PICK r \in Delegations(p) :
        /\ Descends(r.owner)
        /\ stack' = Replace([Top EXCEPT !.looking = TRUE, !.cut = r.owner,
                                        !.pending = ns_names(p, r.owner)])
  BY DEF Glueless
<1> DEFINE d == r.owner
           f == [Top EXCEPT !.looking = TRUE, !.cut = d, !.pending = ns_names(p, d)]
<1>2. Walking(p) /\ forwarders' = forwarders
  BY DEF Glueless, Delegating
<1>3. stack # <<>> /\ Top \in Frames /\ ~Top.looking
  BY <1>2, WalkingFacts
<1>4. d \in Names
  BY <1>1, <1>3, ResolverAssumption DEF Descends, in_bailiwick, Frames
<1>5. ns_names(p, d) \in SUBSET Names
  BY DEF ns_names
<1>6. f \in Frames /\ f.referrals = Top.referrals /\ f.looking
  BY <1>3, <1>4, <1>5 DEF Frames
<1>7. stack' = Replace(f)
  BY <1>1
<1> HIDE DEF f
<1>8. ToTry(f) < ToTry(Top)
  BY <1>3, <1>6, TryBound DEF ToTry
<1> QED BY <1>2, <1>3, <1>6, <1>7, <1>8, TryUsesUp, ReplaceAdvances

\* A nested call is paid for by the nameserver that it is made for.
LEMMA LookUpAdvances ==
  ASSUME IInv, NEW n \in Names, LookUp(n)
  PROVE  Advance
<1> DEFINE f == [Top EXCEPT !.pending = @ \ {n}]
           i == Len(stack)
<1>1. stack # <<>> /\ Top.looking /\ n \in Top.pending /\ forwarders' = forwarders
  BY DEF LookUp, Looking, Running
<1>2. /\ Top \in Frames /\ i \in Nat \ {0} /\ i <= MaxDepth + 1 /\ MaxDepth \in Nat
      /\ StackOK(stack)
  BY <1>1, TopFacts, ResolverAssumption DEF IInv, StackOK
<1>3. /\ f \in Frames /\ f.referrals = Top.referrals /\ f.looking
      /\ f.pending = Top.pending \ {n}
  BY <1>1, <1>2 DEF Frames
<1>4. stack' = IF i > MaxDepth THEN Replace(f) ELSE Append(Replace(f), Frame(n))
  BY DEF LookUp
<1> HIDE DEF f
<1>5. Cardinality(f.pending) < Cardinality(Top.pending)
  <2>1. /\ IsFiniteSet(Top.pending) /\ Cardinality(Top.pending) \in Nat
        /\ Cardinality(f.pending) \in Nat
    BY <1>2, <1>3, TryBound
  <2>2. f.pending \in SUBSET Top.pending /\ Top.pending # f.pending
    BY <1>1, <1>3
  <2>3. /\ Cardinality(f.pending) <= Cardinality(Top.pending)
        /\ Cardinality(Top.pending) = Cardinality(f.pending) => Top.pending = f.pending
    BY <2>1, <2>2, FS_Subset
  <2> QED BY <2>1, <2>2, <2>3
<1>6. CallLeft(f) < CallLeft(Top)
  <2>1. ToTry(f) < ToTry(Top)
    BY <1>1, <1>3, <1>5 DEF ToTry
  <2> QED BY <1>2, <1>3, <2>1, TryUsesUp
<1>7. CASE i > MaxDepth
  BY <1>1, <1>3, <1>4, <1>6, <1>7, ReplaceAdvances
<1>8. CASE ~(i > MaxDepth)
  <2>1. stack' = Append(Replace(f), Frame(n))
    BY <1>4, <1>8
  <2>2. /\ Replace(f) \in Seq(Frames) /\ Len(Replace(f)) = i
        /\ Replace(f)[i] = f
        /\ \A h \in 1..(i - 1) : Replace(f)[h] = stack[h]
    BY <1>1, <1>2, <1>3, ReplaceAt
  <2>3. Frame(n) \in Frames
    BY FrameFacts
  <2>4. /\ Len(stack') = i + 1 /\ stack'[i] = f
        /\ \A h \in 1..(i - 1) : stack'[h] = stack[h]
    <3> HIDE DEF Replace
    <3> QED BY <1>2, <2>1, <2>2, <2>3
  <2>5. CallRank(stack', i) < CallRank(stack, i)
    BY <1>2, <1>6, <2>4 DEF CallRank, Top
  <2>6. \A h \in 1..(i - 1) : CallRank(stack', h) = CallRank(stack, h)
    BY <1>2, <2>4 DEF CallRank
  <2>7. stack' # <<>> /\ i \in 1..(MaxDepth + 1)
    BY <1>2, <2>1, <2>2
  <2> QED BY <1>1, <2>5, <2>6, <2>7, CallAdvances
<1> QED BY <1>7, <1>8

\* A step that uses up a forwarder, or ends their part of resolve().
LEMMA ForwardersAdvance ==
  ASSUME Remaining'[1] < Remaining[1]
  PROVE  Advance
<1>1. MaxDepth \in Nat
  BY ResolverAssumption
<1>2. 1 \in 1..(MaxDepth + 3) /\ 1..(1 - 1) = {}
  BY <1>1
<1> QED BY <1>2 DEF Advance

LEMMA ForwardersFinite ==
  ASSUME IInv
  PROVE  IsFiniteSet(forwarders) /\ Cardinality(forwarders) \in Nat
<1>1. forwarders \in SUBSET Addrs
  BY ResolverAssumption DEF IInv, Rest
<1> QED BY <1>1, FiniteAssumption, FS_Subset, FS_CardinalityType

LEMMA AskForwarderAdvances ==
  ASSUME IInv, NEW f \in Forwarders, AskForwarder(f)
  PROVE  Advance
<1>1. /\ f \in forwarders /\ forwarders' = forwarders \ {f}
      /\ stack' = stack /\ Finished' = Finished
  BY DEF AskForwarder, Finished
<1>2. forwarders' \in SUBSET forwarders /\ forwarders # forwarders'
  BY <1>1
<1>3. IsFiniteSet(forwarders) /\ Cardinality(forwarders) \in Nat
  BY ForwardersFinite
<1>4. /\ IsFiniteSet(forwarders')
      /\ Cardinality(forwarders') <= Cardinality(forwarders)
      /\ Cardinality(forwarders) = Cardinality(forwarders') => forwarders = forwarders'
  BY <1>2, <1>3, FS_Subset
<1>5. Cardinality(forwarders') \in Nat
  BY <1>4, FS_CardinalityType
<1>6. Cardinality(forwarders') < Cardinality(forwarders)
  BY <1>2, <1>3, <1>4, <1>5
<1>7. Remaining'[1] < Remaining[1]
  BY <1>1, <1>3, <1>5, <1>6, RemainingFacts, RemainingNext
<1> QED BY <1>7, ForwardersAdvance

LEMMA StartAdvances ==
  ASSUME IInv, StartIterative
  PROVE  Advance
<1>1. /\ stack = <<>> /\ ~Finished /\ stack' # <<>> /\ forwarders' = forwarders
  BY DEF StartIterative, Finished
<1>2. Remaining'[1] < Remaining[1]
  BY <1>1, ForwardersFinite, RemainingFacts, RemainingNext
<1> QED BY <1>2, ForwardersAdvance

LEMMA ForwarderAnswerAdvances ==
  ASSUME IInv, NEW p \in Arriving, ForwarderAnswered(p)
  PROVE  Advance
<1>1. /\ stack = <<>> /\ stack' = stack /\ forwarders' = forwarders
      /\ server # NoServer /\ server' = NoServer
  BY DEF ForwarderAnswered, Accepted, Free, Done
<1>2. Finished'
  BY DEF ForwarderAnswered, Finished, Result, NoResult
<1>3. CASE Finished
  BY <1>1, <1>2, <1>3, ExchangeAdvances
<1>4. CASE ~Finished
  <2>1. Remaining'[1] < Remaining[1]
    BY <1>1, <1>2, <1>4, ForwardersFinite, RemainingFacts, RemainingNext
  <2> QED BY <2>1, ForwardersAdvance
<1> QED BY <1>3, <1>4

\* One of the replies that end the innermost call.
LEMMA LastReplyAdvances ==
  ASSUME IInv, NEW p \in Arriving,
         \/ NxDomain(p) \/ Answered(p) \/ AliasLoop(p)
         \/ BogusReferral(p) \/ EmptyReply(p)
  PROVE  Advance
<1>1. stack # <<>> /\ forwarders' = forwarders
  BY DEF NxDomain, Answered, AliasLoop, BogusReferral, EmptyReply, Delegating, Walking
<1>2. \E r : r # NoResult /\ Return(r)
  <2>1. CASE NxDomain(p)
    <3>1. Result("nxdomain", "nxdomain", {}) # NoResult
      BY DEF Result, NoResult
    <3> QED BY <2>1, <3>1 DEF NxDomain
  <2>2. CASE Answered(p)
    <3>1. Result("answer", p.body.rcode, Answers(p)) # NoResult
      BY DEF Result, NoResult
    <3> QED BY <2>2, <3>1 DEF Answered
  <2>3. CASE AliasLoop(p) \/ BogusReferral(p)
    <3>1. ServFail # NoResult
      BY DEF Result, NoResult, ServFail
    <3> QED BY <2>3, <3>1 DEF AliasLoop, BogusReferral
  <2>4. CASE EmptyReply(p)
    <3>1. Result("answer", p.body.rcode, {}) # NoResult
      BY DEF Result, NoResult
    <3> QED BY <2>4, <3>1 DEF EmptyReply
  <2> QED BY <2>1, <2>2, <2>3, <2>4
<1> QED BY <1>1, <1>2, ReturnAdvances

LEMMA NextAdvances == IInv /\ Next => Advance \/ UNCHANGED vars
<1> SUFFICES ASSUME IInv, Next PROVE Advance \/ UNCHANGED vars
  OBVIOUS
<1>1. CASE Fail
  <2>1. /\ forwarders' = forwarders /\ stack' = stack /\ Finished' = Finished
        /\ server # NoServer /\ server' = NoServer
    BY <1>1 DEF Fail, Free, Finished
  <2> QED BY <2>1, ExchangeAdvances
<1>2. CASE Call
  <2>1. ASSUME NEW f \in Forwarders, AskForwarder(f) PROVE Advance
    BY <2>1, AskForwarderAdvances
  <2>2. ASSUME NEW a \in Addrs, SendTo(a) PROVE Advance
    BY <2>2, SendToAdvances
  <2>3. ASSUME NEW n \in Names, LookUp(n) PROVE Advance
    BY <2>3, LookUpAdvances
  <2>4. ASSUME TooManyReferrals \/ AllServersFailed \/ NoneFound PROVE Advance
    <3>1. stack # <<>> /\ forwarders' = forwarders /\ Return(ServFail)
      BY <2>4 DEF TooManyReferrals, AllServersFailed, NoneFound, Asking, Looking, Running
    <3>2. ServFail # NoResult
      BY DEF Result, NoResult, ServFail
    <3> QED BY <3>1, <3>2, ReturnAdvances
  <2> QED BY <1>2, <2>1, <2>2, <2>3, <2>4, StartAdvances DEF Call
<1>3. CASE Arrive
  <2>1. PICK p \in Arriving : Receive(p)
    BY <1>3 DEF Arrive
  <2>2. CASE Ignore(p)
    BY <2>2 DEF Ignore
  <2>3. CASE Mismatch(p) \/ Truncated(p) \/ ForwarderFailed(p)
    <3>1. /\ forwarders' = forwarders /\ stack' = stack /\ Finished' = Finished
          /\ server # NoServer
          /\ server' = NoServer \/ (server' = server /\ ~tcp /\ tcp')
      BY <2>3 DEF Mismatch, Truncated, ForwarderFailed, Accepted, Done, Free, Finished
    <3> QED BY <3>1, ExchangeAdvances
  <2>4. CASE FollowAlias(p)
    BY <2>4, FollowAliasAdvances
  <2>5. CASE Referral(p)
    BY <2>5, ReferralAdvances
  <2>6. CASE Glueless(p)
    BY <2>6, GluelessAdvances
  <2>7. CASE ForwarderAnswered(p)
    BY <2>7, ForwarderAnswerAdvances
  <2>8. CASE \/ NxDomain(p) \/ Answered(p) \/ AliasLoop(p)
             \/ BogusReferral(p) \/ EmptyReply(p)
    BY <2>8, LastReplyAdvances
  <2> QED BY <2>1, <2>2, <2>3, <2>4, <2>5, <2>6, <2>7, <2>8 DEF Receive
<1> QED BY <1>1, <1>2, <1>3 DEF Next

\* Every step of resolve() uses up something that only what comes after it in
\* Remaining can make up for, whatever broken servers send: MAX_REFERRALS counts
\* referrals and aliases together, a server is marked before it is asked, and a
\* nested call costs its caller a nameserver (resolver.rs:166, 183, 285).
THEOREM ResolutionAdvances == Spec => AlwaysAdvances
<1>1. IInv /\ [Next]_vars => [Advance]_vars
  BY NextAdvances
<1> QED BY <1>1, Invariance, PTL DEF Spec, AlwaysAdvances

\* What can be less than something by Advance.
Places == MaxDepth + 3
Less == LexProductOrdering({p \in Nat \X Nat : p[1] < p[2]}, Nat, Places)

Descent == <<Remaining', Remaining>> \in Less

LEMMA LessIsWellFounded == IsWellFoundedOn(Less, [1..Places -> Nat])
<1> DEFINE R == {p \in Nat \X Nat : p[1] < p[2]}
<1>1. IsWellFoundedOn(R, Nat)
  BY NatLessThanWellFounded DEF OpToRel
<1>2. Places \in Nat
  BY ResolverAssumption DEF Places
<1> HIDE DEF R
<1>3. IsWellFoundedOn(LexProductOrdering(R, Nat, Places), [1..Places -> Nat])
  BY <1>1, <1>2, WFLexProductOrdering, Zenon
<1> QED BY <1>3 DEF Less, R

LEMMA RemainingType == IInv => Remaining \in [1..Places -> Nat]
<1> SUFFICES ASSUME IInv PROVE Remaining \in [1..Places -> Nat]
  OBVIOUS
<1>1. MaxDepth \in Nat
  BY ResolverAssumption
<1>2. ASSUME NEW k \in 1..Places
      PROVE  Remaining[k] \in Nat
  <2>1. CASE k = 1
    BY <2>1, ForwardersFinite, RemainingFacts
  <2>2. CASE k = MaxDepth + 3
    BY <2>2, RemainingFacts
  <2>3. CASE k # 1 /\ k # MaxDepth + 3
    <3>1. k - 1 \in 1..(MaxDepth + 1) /\ (k - 1) + 1 = k
      BY <1>1, <2>3 DEF Places
    <3>2. CallRank(stack, k - 1) \in Nat
      <4>1. stack \in Seq(Frames)
        BY DEF IInv, StackOK
      <4>2. CASE k - 1 <= Len(stack)
        <5>1. stack[k - 1] \in Frames
          BY <3>1, <4>1, <4>2
        <5> QED BY <4>2, <5>1, CallLeftType DEF CallRank
      <4>3. CASE ~(k - 1 <= Len(stack))
        BY <4>3 DEF CallRank
      <4> QED BY <4>2, <4>3
    <3>3. Remaining[(k - 1) + 1] = CallRank(stack, k - 1)
      BY <3>1, RemainingFacts
    <3> QED BY <3>1, <3>2, <3>3
  <2> QED BY <2>1, <2>2, <2>3
<1>3. Remaining = [k \in 1..Places |-> Remaining[k]]
  BY DEF Remaining, Places
<1> QED BY <1>2, <1>3

\* The number of steps of a resolution is finite: each of them leads down in an
\* order without infinite descent.  That the last one returns an answer, and not a
\* worker that is stuck, needs fairness (Terminates).
THEOREM ResolutionIsFinite ==
  /\ IsWellFoundedOn(Less, [1..Places -> Nat])
  /\ Spec => [][Descent]_vars
<1>0. IInv' => (Remaining \in [1..Places -> Nat])'
  BY RemainingType, PTL
<1>1. ASSUME IInv, IInv', [Advance]_vars
      PROVE  [Descent]_vars
  <2> SUFFICES ASSUME Advance PROVE Descent
    BY <1>1
  <2>1. Remaining \in [1..Places -> Nat]
    BY <1>1, RemainingType
  <2>2. Remaining' \in [1..Places -> Nat]
    BY <1>0, <1>1
  <2>3. PICK k \in 1..Places :
          Remaining'[k] < Remaining[k] /\ \A j \in 1..(k - 1) : Remaining'[j] = Remaining[j]
    BY DEF Advance, Places
  <2> QED BY <2>1, <2>2, <2>3 DEF Descent, Less, LexProductOrdering
<1> QED BY <1>1, LessIsWellFounded, Invariance, ResolutionAdvances, PTL
        DEF AlwaysAdvances
=============================================================================
