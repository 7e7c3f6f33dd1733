------------------------------ MODULE Resolver ------------------------------
(***************************************************************************)
(* The resolver of a recursion worker: it asks the configured forwarders    *)
(* and then walks the tree of zones from the root servers, one exchange at  *)
(* a time, and looks up the names of nameservers that come without glue by  *)
(* calling itself.  "stack" is the call stack of iterative_resolve.         *)
(*                                                                         *)
(* Around it are the name servers of a fixed tree of zones, which answer    *)
(* as RFC 1034 says, and broken ones that answer with any of Junk.  Packets *)
(* hold sets of records: where the code takes the first of several records, *)
(* or goes through servers in the order of a packet, any may come first.    *)
(***************************************************************************)
EXTENDS Integers, Sequences, FiniteSets

CONSTANTS
  Names, Root,   \* domain names, and the name "." among them
  Under,         \* Under[n]: the names that n is equal to or below
  Zones,         \* the names at which a zone begins
  NS,            \* NS[z]: names of the nameservers of zone z
  Glue,          \* Glue[z]: those of them whose address the parent sends
  Addrs,         \* addresses of servers
  RootServers,   \* ROOT_SERVERS
  Forwarders,    \* ResolverConfig.forwarders
  Hosts,         \* Hosts[a]: the zones that the server at a is loaded with
  Broken,        \* servers that answer anything
  Existing,      \* the names that exist
  Target,        \* Target[n]: the name that n is an alias of, or n itself
  Canonical,     \* Canonical[n]: where the aliases from n end
  Address,       \* Address[n]: the addresses of n
  Junk,          \* what broken servers send
  Questions,     \* questions the worker may be given
  MaxReferrals,  \* MAX_REFERRALS
  MaxDepth,      \* MAX_NS_LOOKUP_DEPTH
  MaxFaults,     \* bound: exchanges that fail
  NoServer,      \* no exchange is in progress
  Sound,         \* names that only working servers have a say in
  Healthy,       \* those of them that can be reached within the limits
  Detour,        \* Detour[n]: aliases and referrals that follow an alias at n
  Nesting        \* Nesting[n]: how deep lookups of nameservers go on the way to n

\* An "A" record holds an address, the others a name; no name owns a "TXT".
Records == [owner : Names, type : {"A", "NS", "CNAME", "SOA"},
            data : Names \cup Addrs]
Asked == [name : Names, type : {"A", "TXT"}]
Bodies == [rcode : {"ok", "nxdomain", "servfail", "refused"}, answers : SUBSET Records,
           authority : SUBSET Records, additional : SUBSET Records]
Packets == [question : Asked, truncated : BOOLEAN, body : Bodies]

ASSUME ResolverAssumption ==
  /\ Root \in Zones
  /\ Zones \subseteq Names
  /\ Under \in [Names -> SUBSET Names]
  /\ \A n \in Names : n \in Under[n] /\ Root \in Under[n]
  /\ NS \in [Zones -> SUBSET Names]
  /\ Glue \in [Zones -> SUBSET Names]
  /\ RootServers \subseteq Addrs
  /\ Forwarders \subseteq Addrs
  /\ Hosts \in [Addrs -> SUBSET Zones]
  /\ Target \in [Names -> Names]
  /\ Canonical \in [Names -> Names]
  /\ Address \in [Names -> SUBSET Addrs]
  /\ Junk \subseteq Bodies
  /\ Questions \subseteq Asked
  /\ MaxReferrals \in Nat
  /\ MaxDepth \in Nat
  /\ MaxFaults \in Nat
  /\ NoServer \notin Addrs
\* Names form a tree: containment is transitive, and of several zones that
\* contain a name one is the deepest and one the highest.
ASSUME TreeAssumption ==
  /\ Under[Root] = {Root}
  /\ \A n \in Names : \A m \in Under[n] :
       Under[m] \subseteq Under[n] /\ (n \in Under[m] => m = n)
  /\ \A n \in Names : \A S \in SUBSET (Zones \cap Under[n]) :
       S # {} => /\ \E y \in S : \A x \in S : x \in Under[y]
                 /\ \E y \in S : \A x \in S : y \in Under[x]

\* Nameservers that work, under a name of their own (RFC 2181, 10.3).
Working == {m \in Sound : Target[m] = m /\ Address[m] \cap Broken = {}}

\* Sound names are served by working servers with sound names.
ASSUME SoundAssumption ==
  /\ Healthy \subseteq Sound
  /\ Sound \subseteq Names
  /\ RootServers \cap Broken = {}
  /\ \A n \in Sound : Target[n] \in Sound /\ Canonical[n] \in Sound
  /\ \A n \in Sound : \A z \in (Zones \ {Root}) \cap Under[n] :
       NS[z] \subseteq Working

\* No delegation towards a sound name is lame (a REFUSED reply would be taken for
\* the answer), and Canonical is where the aliases lead.
ASSUME ServedAssumption ==
  /\ \A a \in RootServers : Root \in Hosts[a]
  /\ \A n \in Sound : \A z \in (Zones \ {Root}) \cap Under[n] :
       NS[z] # {} /\ \A m \in NS[z] : \A a \in Address[m] : z \in Hosts[a]
  /\ \A n \in Sound :
       Canonical[n] = IF n \in Existing /\ Target[n] # n THEN Canonical[Target[n]] ELSE n

\* The zones below z on the way to n.
Below(n, z) == {d \in Zones \cap Under[n] : d # z /\ z \in Under[d]}

\* The parent of zone d sends the address of a nameserver in d.
Glued(d) == \E m \in Glue[d] \cap NS[d] : d \in Under[m] /\ Address[m] # {}

\* Nameservers of d whose address is found with fewer nested calls than n takes.
Helpers(n, d) == {m \in NS[d] \cap Healthy \cap Existing :
                    Address[m] # {} /\ Nesting[m] < Nesting[n]}

\* What within the limits means: the referrals and aliases on the way to the
\* name are fewer than MaxReferrals, and each zone has glue or a nameserver that
\* can be looked up within MaxDepth.
ASSUME HealthyAssumption ==
  /\ IsFiniteSet(Zones)
  /\ RootServers # {}
  /\ Detour \in [Names -> Nat]
  /\ Nesting \in [Names -> Nat]
  /\ \A n \in Healthy :
       /\ Cardinality(Below(n, Root)) + Detour[n] < MaxReferrals
       /\ Nesting[n] <= MaxDepth
       /\ n \in Existing /\ Target[n] # n =>
            /\ Target[n] \in Healthy
            /\ Detour[n] > Cardinality(Below(Target[n], Root)) + Detour[Target[n]]
            /\ Nesting[Target[n]] <= Nesting[n]
       /\ \A d \in (Zones \ {Root}) \cap Under[n] : Glued(d) \/ Helpers(n, d) # {}

\* Packets are finite, and so is what they can name.
ASSUME FiniteAssumption == IsFiniteSet(Names) /\ IsFiniteSet(Addrs)

VARIABLES
  asked,       \* the question
  forwarders,  \* forwarders not asked yet
  stack,       \* running calls of iterative_resolve, the innermost last
  server,      \* the server of the exchange in progress
  tcp,         \* that exchange was repeated over TCP
  faults,      \* exchanges that failed so far
  result       \* what resolve returned

vars == <<asked, forwarders, stack, server, tcp, faults, result>>

-----------------------------------------------------------------------------
(* The servers (external).                                                  *)

Rr(n, t, d) == [owner |-> n, type |-> t, data |-> d]

Body(rcode, answers, authority, additional) ==
  [rcode |-> rcode, answers |-> answers, authority |-> authority,
   additional |-> additional]

Addresses(n) == {Rr(n, "A", a) : a \in Address[n]}

Data(n, t) == IF t = "A" THEN Addresses(n) ELSE {}

\* The parent's answer for a name below the delegated zone d.
Delegation(d) ==
  Body("ok", {}, {Rr(d, "NS", n) : n \in NS[d]},
       UNION {Addresses(n) : n \in Glue[d]})

\* What the zone z, which contains name n, says of it.
InZone(z, n, t) ==
  CASE n \notin Existing -> Body("nxdomain", {}, {Rr(z, "SOA", z)}, {})
    [] n \in Existing /\ Target[n] # n ->
         Body("ok", {Rr(n, "CNAME", Target[n])}, {}, {})
    [] n \in Existing /\ Target[n] = n /\ Data(n, t) # {} ->
         Body("ok", Data(n, t), {}, {})
    [] OTHER -> Body("ok", {}, {Rr(z, "SOA", z)}, {})

\* The reply of a server that works: from the deepest of its zones, unless
\* a zone that it has delegated contains the name.
Honest(a, q) ==
  LET mine == Hosts[a] \cap Under[q.name]
      z == CHOOSE y \in mine : \A x \in mine : x \in Under[y]
      cuts == Below(q.name, z)
      d == CHOOSE y \in cuts : \A x \in cuts : y \in Under[x]
  IN  IF mine = {} THEN Body("refused", {}, {}, {})
      ELSE IF cuts # {} THEN Delegation(d)
      ELSE InZone(z, q.name, q.type)

\* A forwarder's reply: the answer with its aliases, or a failure.
Recursive(q) ==
  LET n == Canonical[q.name]
  IN  IF n \in Existing THEN Body("ok", Data(n, q.type), {}, {})
                        ELSE Body("nxdomain", {}, {}, {})
FailureBody == Body("servfail", {}, {}, {})

-----------------------------------------------------------------------------
(* The state of a call.                                                     *)

Frame(n) ==
  [name |-> n, servers |-> RootServers, zone |-> Root, referrals |-> 0,
   visited |-> {}, chain |-> {}, looking |-> FALSE, pending |-> {}, cut |-> Root]

Frames == [name : Names, servers : SUBSET Addrs, zone : Names,
           referrals : 0..MaxReferrals, visited : SUBSET (Names \X Addrs),
           chain : SUBSET Names, looking : BOOLEAN, pending : SUBSET Names,
           cut : Names]

Results == [kind : {"none", "answer", "nxdomain", "servfail"},
            rcode : {"ok", "nxdomain", "servfail", "refused"}, answers : SUBSET Records]

Result(kind, rcode, answers) ==
  [kind |-> kind, rcode |-> rcode, answers |-> answers]
NoResult == Result("none", "ok", {})
ServFail == Result("servfail", "ok", {})


TypeOK ==
  /\ asked \in Questions
  /\ forwarders \subseteq Forwarders
  /\ stack \in Seq(Frames)
  /\ Len(stack) <= MaxDepth + 1
  /\ server \in Addrs \cup {NoServer}
  /\ tcp \in BOOLEAN
  /\ faults \in 0..MaxFaults
  /\ result \in Results

Top == stack[Len(stack)]
Push(f) == Append(stack, f)
Pop == SubSeq(stack, 1, Len(stack) - 1)
Replace(f) == Append(Pop, f)

Running == result = NoResult /\ stack # <<>>
Free == server = NoServer
Asking == Running /\ Free /\ ~Top.looking
Looking == Running /\ Free /\ Top.looking

\* The question of the exchange in progress: nested calls ask for addresses.
Query ==
  CASE stack = <<>>    -> asked
    [] Len(stack) = 1  -> [name |-> Top.name, type |-> asked.type]
    [] OTHER           -> [name |-> Top.name, type |-> "A"]

\* MUTANT of in_bailiwick: a server is believed whatever it says.
in_bailiwick_any(n, zone) == TRUE

in_bailiwick(n, zone) == zone \in Under[n]

\* MUTANT of answers_query: any reply is taken for the one that is expected.
answers_query_any(p) == TRUE

answers_query(p) == p.question = Query

-----------------------------------------------------------------------------
Init ==
  /\ asked \in Questions
  /\ forwarders \in {{}, Forwarders}
  /\ stack = <<>>
  /\ server = NoServer
  /\ tcp = FALSE
  /\ faults = 0
  /\ result = NoResult

\* resolve(): a forwarder is asked.
AskForwarder(f) ==
  /\ result = NoResult
  /\ stack = <<>>
  /\ Free
  /\ f \in forwarders
  /\ forwarders' = forwarders \ {f}
  /\ server' = f
  /\ UNCHANGED <<asked, stack, tcp, faults, result>>

\* There are no forwarders, or all have failed: the walk begins at the root.
StartIterative ==
  /\ result = NoResult
  /\ stack = <<>>
  /\ Free
  /\ forwarders = {}
  /\ stack' = <<Frame(asked.name)>>
  /\ UNCHANGED <<asked, forwarders, server, tcp, faults, result>>

\* MUTANT of Fresh: a server is not asked again for any name.
FreshByAddress(f) ==
  {a \in f.servers : \A n \in Names : <<n, a>> \notin f.visited}

\* The servers of the top frame that were not asked for its name yet.
Fresh(f) == {a \in f.servers : <<f.name, a>> \notin f.visited}

\* MUTANT of Visit: a server is marked when it answers, not when it is asked.
VisitLater(f, a) == f

Visit(f, a) == [f EXCEPT !.visited = @ \cup {<<f.name, a>>}]

SendTo(a) ==
  /\ Asking
  /\ Top.referrals < MaxReferrals
  /\ a \in Fresh(Top)
  /\ stack' = Replace(Visit(Top, a))
  /\ server' = a
  /\ UNCHANGED <<asked, forwarders, tcp, faults, result>>

-----------------------------------------------------------------------------
(* The end of a call.                                                       *)

\* The addresses that a caller takes from the answer to a lookup.
Found(r) == {x.data : x \in {y \in r.answers : y.type = "A" /\ y.data \in Addrs}}

\* A frame goes on to servers S of zone d.
Descend(f, S, d) ==
  [f EXCEPT !.servers = S, !.zone = d, !.referrals = @ + 1,
            !.looking = FALSE, !.pending = {}]

\* The top call returns r: to its caller, which takes the addresses or goes on
\* with the next name, or as the result of resolve.
Return(r) ==
  IF Len(stack) = 1
  THEN /\ stack' = <<>>
       /\ result' = r
  ELSE LET caller == stack[Len(stack) - 1]
           S == IF r.kind = "answer" THEN Found(r) ELSE {}
       IN  /\ stack' = IF S = {} THEN Pop
                       ELSE [Pop EXCEPT ![Len(stack) - 1] =
                               Descend(caller, S, caller.cut)]
           /\ UNCHANGED result

TooManyReferrals ==
  /\ Asking
  /\ Top.referrals >= MaxReferrals
  /\ Return(ServFail)
  /\ UNCHANGED <<asked, forwarders, server, tcp, faults>>

AllServersFailed ==
  /\ Asking
  /\ Top.referrals < MaxReferrals
  /\ Fresh(Top) = {}
  /\ Return(ServFail)
  /\ UNCHANGED <<asked, forwarders, server, tcp, faults>>

-----------------------------------------------------------------------------
(* udp_exchange and tcp_exchange.                                           *)

\* The exchange is over, without a reply.
Fail ==
  /\ faults < MaxFaults
  /\ ~Free
  /\ faults' = faults + 1
  /\ server' = NoServer
  /\ tcp' = FALSE
  /\ UNCHANGED <<asked, forwarders, stack, result>>

\* A datagram that does not answer the query is dropped; the wait goes on.
Ignore(p) ==
  /\ ~Free /\ ~tcp
  /\ ~answers_query(p)
  /\ UNCHANGED vars

\* Over TCP it ends the exchange.
Mismatch(p) ==
  /\ ~Free /\ tcp
  /\ ~answers_query(p)
  /\ server' = NoServer
  /\ tcp' = FALSE
  /\ UNCHANGED <<asked, forwarders, stack, faults, result>>

\* A truncated reply: the same query is sent again over TCP.
Truncated(p) ==
  /\ ~Free /\ ~tcp
  /\ answers_query(p)
  /\ p.truncated
  /\ tcp' = TRUE
  /\ UNCHANGED <<asked, forwarders, stack, server, faults, result>>

Accepted(p) ==
  /\ ~Free
  /\ answers_query(p)
  /\ p.truncated => tcp

\* The exchange has brought a reply.
Done == server' = NoServer /\ tcp' = FALSE

-----------------------------------------------------------------------------
(* Replies to the forwarder stage of resolve.                               *)

ForwarderFailed(p) ==
  /\ Accepted(p)
  /\ stack = <<>>
  /\ p.body.rcode = "servfail"
  /\ Done
  /\ UNCHANGED <<asked, forwarders, stack, faults, result>>

ForwarderAnswered(p) ==
  /\ Accepted(p)
  /\ stack = <<>>
  /\ p.body.rcode # "servfail"
  /\ result' = IF p.body.rcode = "nxdomain"
               THEN Result("nxdomain", "nxdomain", {})
               ELSE Result("answer", p.body.rcode, p.body.answers)
  /\ Done
  /\ UNCHANGED <<asked, forwarders, stack, faults>>

-----------------------------------------------------------------------------
(* Replies to the walk.  Only what lies in the zone of the servers asked is  *)
(* looked at.                                                               *)

Within(S) == {r \in S : in_bailiwick(r.owner, Top.zone)}

Answers(p) == Within(p.body.answers)
Authority(p) == Within(p.body.authority)
Additional(p) == Within(p.body.additional)

Walking(p) == Accepted(p) /\ stack # <<>>

NxDomain(p) ==
  /\ Walking(p)
  /\ p.body.rcode = "nxdomain"
  /\ Return(Result("nxdomain", "nxdomain", {}))
  /\ Done
  /\ UNCHANGED <<asked, forwarders, faults>>

Aliases(p) == {r \in Answers(p) : r.type = "CNAME"}

Answered(p) ==
  /\ Walking(p)
  /\ p.body.rcode # "nxdomain"
  /\ Answers(p) # {}
  /\ Aliases(p) = {}
  /\ Return(Result("answer", p.body.rcode, Answers(p)))
  /\ Done
  /\ UNCHANGED <<asked, forwarders, faults>>

\* MUTANT of Restart: aliases are not counted, only referrals are.
RestartUncounted(f, target) ==
  [f EXCEPT !.name = target, !.servers = RootServers, !.zone = Root,
            !.chain = @ \cup {f.name}]

\* The walk begins again for the target of an alias.
Restart(f, target) ==
  [f EXCEPT !.name = target, !.servers = RootServers, !.zone = Root,
            !.chain = @ \cup {f.name}, !.referrals = @ + 1]

FollowAlias(p) ==
  /\ Walking(p)
  /\ p.body.rcode # "nxdomain"
  /\ \E r \in Aliases(p) :
       /\ r.data \in Names \ Top.chain
       /\ stack' = Replace(Restart(Top, r.data))
  /\ Done
  /\ UNCHANGED <<asked, forwarders, faults, result>>

AliasLoop(p) ==
  /\ Walking(p)
  /\ p.body.rcode # "nxdomain"
  /\ \E r \in Aliases(p) : r.data \notin Names \ Top.chain
  /\ Return(ServFail)
  /\ Done
  /\ UNCHANGED <<asked, forwarders, faults>>

\* A reply without answers but with records in its authority section.
Delegating(p) ==
  /\ Walking(p)
  /\ p.body.rcode # "nxdomain"
  /\ Answers(p) = {}
  /\ Authority(p) # {}

Delegations(p) == {r \in Authority(p) : r.type = "NS"}

\* A delegation goes below the zone asked and towards the name.
Descends(d) == d # Top.zone /\ in_bailiwick(Top.name, d)

ns_names(p, d) ==
  {r.data : r \in {x \in Delegations(p) : x.owner = d /\ x.data \in Names}}

GlueFor(p, d) ==
  {r.data : r \in {x \in Additional(p) : /\ x.owner \in ns_names(p, d)
                                        /\ x.type = "A"
                                        /\ x.data \in Addrs}}

\* The owner of the first NS record is the zone that is delegated.
Referral(p) ==
  /\ Delegating(p)
  /\ \E r \in Delegations(p) :
       /\ Descends(r.owner)
       /\ GlueFor(p, r.owner) # {}
       /\ stack' = Replace(Descend(Top, GlueFor(p, r.owner), r.owner))
  /\ Done
  /\ UNCHANGED <<asked, forwarders, faults, result>>

Glueless(p) ==
  /\ Delegating(p)
  /\ \E r \in Delegations(p) :
       /\ Descends(r.owner)
       /\ ns_names(p, r.owner) # {}
       /\ GlueFor(p, r.owner) = {}
       /\ stack' = Replace([Top EXCEPT !.looking = TRUE, !.cut = r.owner,
                                      !.pending = ns_names(p, r.owner)])
  /\ Done
  /\ UNCHANGED <<asked, forwarders, faults, result>>

\* No NS record, one that leads elsewhere, or none that names a server.
BogusReferral(p) ==
  /\ Delegating(p)
  /\ \/ Delegations(p) = {}
     \/ \E r \in Delegations(p) :
          ~Descends(r.owner) \/ ns_names(p, r.owner) = {}
  /\ Return(ServFail)
  /\ Done
  /\ UNCHANGED <<asked, forwarders, faults>>

EmptyReply(p) ==
  /\ Walking(p)
  /\ p.body.rcode # "nxdomain"
  /\ Answers(p) = {}
  /\ Authority(p) = {}
  /\ Return(Result("answer", p.body.rcode, {}))
  /\ Done
  /\ UNCHANGED <<asked, forwarders, faults>>

-----------------------------------------------------------------------------
(* Lookups of nameservers without glue.                                     *)

\* MUTANT of LookUp: calls may be nested without a limit.
LookUpUnlimited(n) ==
  /\ Looking
  /\ n \in Top.pending
  /\ stack' = Append(Replace([Top EXCEPT !.pending = @ \ {n}]), Frame(n))
  /\ UNCHANGED <<asked, forwarders, server, tcp, faults, result>>

\* A call of its own for nameserver n; one that is nested too deeply fails.
LookUp(n) ==
  /\ Looking
  /\ n \in Top.pending
  /\ LET f == [Top EXCEPT !.pending = @ \ {n}]
     IN  stack' = IF Len(stack) > MaxDepth THEN Replace(f)
                  ELSE Append(Replace(f), Frame(n))
  /\ UNCHANGED <<asked, forwarders, server, tcp, faults, result>>

NoneFound ==
  /\ Looking
  /\ Top.pending = {}
  /\ Return(ServFail)
  /\ UNCHANGED <<asked, forwarders, server, tcp, faults>>

-----------------------------------------------------------------------------
Receive(p) ==
  \/ Ignore(p)
  \/ Mismatch(p)
  \/ Truncated(p)
  \/ ForwarderFailed(p)
  \/ ForwarderAnswered(p)
  \/ NxDomain(p)
  \/ Answered(p)
  \/ FollowAlias(p)
  \/ AliasLoop(p)
  \/ Referral(p)
  \/ Glueless(p)
  \/ BogusReferral(p)
  \/ EmptyReply(p)

Call ==
  \/ \E f \in Forwarders : AskForwarder(f)
  \/ StartIterative
  \/ \E a \in Addrs : SendTo(a)
  \/ TooManyReferrals
  \/ AllServersFailed
  \/ \E n \in Names : LookUp(n)
  \/ NoneFound

\* What the server may say to question q (external).
Content(q) ==
  CASE stack = <<>>                      -> {Recursive(q), FailureBody}
    [] stack # <<>> /\ server \in Broken -> Junk
    [] OTHER                             -> {Honest(server, q)}

\* What may arrive: the reply, whole or truncated, and over UDP a late reply to
\* an earlier query that was sent from the same port.
Arriving ==
  LET Others == IF tcp /\ server \notin Broken THEN {} ELSE Questions
  IN  UNION {[question : {q}, truncated : BOOLEAN, body : Content(q)]
               : q \in {Query} \cup Others}

Arrive == ~Free /\ \E p \in Arriving : Receive(p)

Next == Call \/ Fail \/ Arrive

Spec == Init /\ [][Next]_vars

\* The worker runs on, and an exchange ends: with a reply, or after two seconds
\* without one.  Ignoring a datagram changes nothing and so is no progress.
FairSpec == Spec /\ WF_vars(Next)

-----------------------------------------------------------------------------
(* Properties.                                                              *)

Genuine(r) == r \in Addresses(r.owner) \cup {Rr(r.owner, "CNAME", Target[r.owner])}

\* README.md promises bailiwick checks on referrals, glue and answers: a
\* server that answers anything has no say in names outside its own zones,
\* also when the walk passes through it on the way to them.
BrokenServersContained ==
  \A r \in result.answers : r.owner \in Sound => Genuine(r)

\* The answer to q in the tree of zones.
Truth(q) ==
  LET n == Canonical[q.name]
  IN  IF n \in Existing THEN Result("answer", "ok", Data(n, q.type))
                        ELSE Result("nxdomain", "nxdomain", {})

Finished == result # NoResult

\* Whatever exchanges fail, are truncated, or are answered by a reply to an
\* earlier question, a name in working zones is resolved rightly or not at all.
RightOrServFail ==
  Finished /\ asked.name \in Sound => result \in {Truth(asked), ServFail}

\* With no failed exchange a name that has data, or does not exist, is resolved:
\* the limits and the set of visited servers never stop a walk that can go on.
HealthyDataResolved ==
  /\ Finished /\ faults = 0 /\ asked.name \in Healthy
  /\ Truth(asked).kind = "nxdomain" \/ Truth(asked).answers # {}
  => result = Truth(asked)

\* The same for a name without data of the type asked: resolver.rs has a return
\* for "NODATA", but the reply's SOA record is taken for a referral.
HealthyResolved ==
  Finished /\ faults = 0 /\ asked.name \in Healthy => result = Truth(asked)

\* What a call can still do in its zone: ask servers or look up nameservers; a
\* bound on both; and a bound on what it can do in all zones it can go on to.
ToTry(f) == IF f.looking THEN Cardinality(f.pending)
            ELSE Cardinality(Names) + 1 + Cardinality(Fresh(f))
Width == Cardinality(Names) + Cardinality(Addrs) + 2
CallLeft(f) == (MaxReferrals - f.referrals) * Width + ToTry(f) + 1

Remaining ==
  [k \in 1..(MaxDepth + 3) |->
     CASE k = 1            -> Cardinality(forwarders)
                                + IF stack = <<>> /\ ~Finished THEN 1 ELSE 0
       [] k = MaxDepth + 3 -> IF Free THEN 0 ELSE IF tcp THEN 1 ELSE 2
       [] OTHER            -> IF k - 1 <= Len(stack) THEN CallLeft(stack[k - 1]) ELSE 0]

\* Every step uses something up: a forwarder, a referral or alias of some call, a
\* server or nameserver of its zone, or a try over UDP or TCP.  Only what comes
\* later in Remaining may grow by it, so that no step is paid for by its callees:
\* resolve() takes finitely many steps, whatever broken servers send.
Advance ==
  \E k \in 1..(MaxDepth + 3) :
    Remaining'[k] < Remaining[k] /\ \A j \in 1..(k - 1) : Remaining'[j] = Remaining[j]
AlwaysAdvances == [][Advance]_vars

\* Every resolution ends, whatever broken servers answer: delegations, aliases
\* and nested lookups cannot go in circles and no server is asked again.
Terminates == <>Finished
=============================================================================
