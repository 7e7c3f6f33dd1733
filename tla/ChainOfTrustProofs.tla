------------------------- MODULE ChainOfTrustProofs -------------------------
(***************************************************************************)
(* Proofs about ChainOfTrust: types; what is called secure is genuine, as   *)
(* long as no key set mixed views; and what is genuine holds, as long as    *)
(* keys are replaced with the patience that Wait asks for.                  *)
(***************************************************************************)
EXTENDS ChainOfTrust, TLAPS

-----------------------------------------------------------------------------
(* RRsets are well typed.                                                   *)

LEMMA NameCases ==
  ASSUME NEW x \in Name
  PROVE  \/ \E i \in Level : x = Keys(i)
         \/ \E i \in 1..Depth : x = Ds(i)
         \/ x = TheAnswer
  BY DEF Name

LEMMA Names ==
  /\ TheAnswer \in Name
  /\ \A i \in Level : Keys(i) \in Name
  /\ \A i \in 1..Depth : Ds(i) \in Name
  /\ 0 \in Level /\ Depth \in Level
  BY ChainAssumption DEF Name, Level

LEMMA KeysTyped ==
  ASSUME TypeOK, NEW i \in Level
  PROVE  /\ KeySet(i) \subseteq OwnKeys(i)
         /\ OwnKeys(i) \subseteq Key
         /\ DsSet(i) \subseteq OwnKeys(i)
         /\ UsedKeys(i) \subseteq OwnKeys(i)
         /\ PrivateKey(i) \in Key
         /\ PrivateKey(i) \notin OwnKeys(i)
<1> DEFINE g == gen[i]
<1>1. /\ g \in 1..MaxGen
      /\ phase[i] # "steady" => g + 1 \in 1..MaxGen
  BY ChainAssumption DEF TypeOK, Replacing
<1>2. KeySet(i) \subseteq OwnKeys(i)
  BY <1>1 DEF KeySet, OwnKeys
<1>3. OwnKeys(i) \subseteq Key
  BY ChainAssumption DEF OwnKeys, Key
<1>4. DsSet(i) \subseteq OwnKeys(i)
  BY <1>1 DEF DsSet, OwnKeys
<1>5. UsedKeys(i) \subseteq OwnKeys(i)
  <2>1. \A n \in 1..g : n \in 1..MaxGen
    BY <1>1, ChainAssumption
  <2> QED BY <2>1 DEF UsedKeys, OwnKeys
<1>6. PrivateKey(i) \in Key /\ PrivateKey(i) \notin OwnKeys(i)
  BY ChainAssumption DEF PrivateKey, Key, OwnKeys
<1> QED BY <1>2, <1>3, <1>4, <1>5, <1>6

\* A zone begins in itself.
LEMMA ApexTyped ==
  ASSUME TypeOK, NEW i \in Level
  PROVE  /\ apex[i] \in Level
         /\ apex[apex[i]] = apex[i]
         /\ apex[i] \in Apexes
         /\ apex[0] = 0
         /\ i \in secured => i \in Apexes /\ apex[i] = i
<1> USE DEF TypeOK
<1>1. apex[i] \in Level /\ i \in Nat /\ apex[i] \in Nat
  BY DEF Zoning, Level
<1>2. apex[i] \in apex[i]..i
  BY <1>1 DEF Zoning
<1>3. apex[apex[i]] = apex[i]
  BY <1>2 DEF Zoning
<1>4. apex[0] = 0
  <2>1. 0 \in Level /\ apex[0] \in Level /\ apex[0] <= 0
    BY Names DEF Zoning
  <2>2. apex[0] \in Nat
    BY <2>1 DEF Level
  <2> QED BY <2>1, <2>2
<1>5. apex[i] \in Apexes
  BY <1>1, <1>3, ChainAssumption DEF Apexes, Cuts, Level
<1> QED BY <1>1, <1>3, <1>4, <1>5 DEF Apexes, Cuts

LEMMA SignedTyped ==
  ASSUME NEW data \in SUBSET Record,
         NEW signers \in SUBSET Key
  PROVE  Signed(data, signers) \in RRset
  BY DEF Signed, RRset, Record

LEMMA PublishedTyped ==
  ASSUME TypeOK, NEW x \in Name
  PROVE  Published(x) \in RRset
<1>1. \A i \in Level : KeySet(i) \subseteq Key /\ DsSet(i) \subseteq Key
  BY KeysTyped
<1>2. CASE \E i \in Level : x = Keys(i)
  BY <1>1, <1>2, SignedTyped DEF Published, Keys, Record, Nothing
<1>3. CASE \E i \in 1..Depth : x = Ds(i)
  <2> PICK i \in 1..Depth : x = Ds(i)
    BY <1>3
  <2>1. i \in Level /\ i - 1 \in Level /\ apex[i - 1] \in Level
    <3>1. i \in Level /\ i - 1 \in Level
      BY ChainAssumption DEF Level
    <3> QED BY <3>1, ApexTyped
  <2>2. Signed(DsSet(i), KeySet(apex[i - 1])) \in RRset /\ Nothing \in RRset
    BY <1>1, <2>1, SignedTyped DEF Nothing, Record
  <2> QED BY <2>2 DEF Published, Ds
<1>4. CASE x = TheAnswer
  <2>1. Signed({Public}, KeySet(apex[Depth])) \in RRset
    BY <1>1, ApexTyped, SignedTyped, Names DEF Record
  <2> QED BY <1>4, <2>1 DEF Published, TheAnswer
<1> QED BY <1>2, <1>3, <1>4, NameCases

\* What the public zones publish: keys and DS records of theirs, and answers.
\* It may come with any signatures.
GenuineOnly(x, rrset) ==
  /\ x.type = "DNSKEY" => rrset.data \subseteq OwnKeys(x.level)
  /\ x.type = "DS" => /\ x.level \in secured
                      /\ rrset.data \subseteq OwnKeys(x.level)
  /\ x.type = "ANSWER" => rrset.data \in {{Public}, {Neighbour}}

LEMMA NameTyped ==
  ASSUME NEW x \in Name
  PROVE  /\ x.level \in Level
         /\ x.type = "DS" => x.level \in 1..Depth /\ x.level - 1 \in Level
         /\ x.type \in {"DNSKEY", "DS", "ANSWER"}
  BY NameCases, ChainAssumption DEF Keys, Ds, TheAnswer, Level

LEMMA OutdatedGenuine ==
  ASSUME TypeOK, NEW x \in Name, NEW r \in Outdated(x)
  PROVE  r \in RRset /\ GenuineOnly(x, r)
<1>1. \A i \in Level : \A K \in OldKey(i) : K \subseteq OwnKeys(i) /\ K \subseteq Key
  BY KeysTyped DEF OldKey
<1>2. CASE x.type = "DNSKEY"
  <2>1. PICK K \in OldKey(x.level) : r \in Old({K}, {K})
    BY <1>2 DEF Outdated
  <2> QED BY <2>1, <1>1, <1>2, NameTyped DEF Old, RRset, Record, GenuineOnly
<1>3. CASE x.type = "ANSWER"
  <2>1. r \in Old({{Public}}, OldKey(apex[x.level])) /\ apex[x.level] \in Level
    BY <1>3, NameTyped, ApexTyped DEF Outdated
  <2> QED BY <2>1, <1>1, <1>3 DEF Old, RRset, Record, GenuineOnly
<1>4. CASE x.type = "DS"
  <2>1. /\ x.level \in secured
        /\ r \in Old(OldKey(x.level), OldKey(apex[x.level - 1]))
    BY <1>4 DEF Outdated
  <2>2. x.level \in Level /\ apex[x.level - 1] \in Level
    BY <1>4, NameTyped, ApexTyped
  <2> QED BY <2>1, <2>2, <1>1, <1>4 DEF Old, RRset, Record, GenuineOnly
<1> QED BY <1>2, <1>3, <1>4, NameTyped

LEMMA PublishedGenuine ==
  ASSUME TypeOK, NEW x \in Name
  PROVE  \/ GenuineOnly(x, Published(x))
         \/ x.type = "DS" /\ x.level \notin secured /\ Published(x) = Nothing
<1>1. \A i \in Level : KeySet(i) \subseteq OwnKeys(i) /\ DsSet(i) \subseteq OwnKeys(i)
  BY KeysTyped
<1>2. x.level \in Level /\ apex[x.level] \in Level
  BY NameTyped, ApexTyped
<1>3. CASE x.type = "DS"
  <2>1. apex[x.level - 1] \in Level
    BY <1>3, NameTyped, ApexTyped
  <2> QED BY <1>1, <1>2, <1>3, <2>1 DEF Published, Signed, GenuineOnly
<1>4. CASE x.type = "ANSWER"
  BY <1>1, <1>2, <1>4 DEF Published, Signed, GenuineOnly
<1>5. CASE x.type = "DNSKEY"
  BY <1>1, <1>2, <1>5 DEF Published, Signed, GenuineOnly, Nothing
<1> QED BY <1>3, <1>4, <1>5, NameTyped

LEMMA HonestTyped ==
  ASSUME TypeOK, NEW x \in Name
  PROVE  Honest(x) \subseteq RRset
  BY PublishedTyped DEF Honest, Cached, TypeOK

LEMMA PrivateForeign ==
  ASSUME NEW x \in Name
  PROVE  /\ Private(x).data \in SUBSET Record
         /\ Private(x).signers \in SUBSET Key
         /\ Private(x).data \cap Foreign # {}
<1>1. \A i \in Level : PrivateKey(i) \in Key /\ PrivateKey(i) \in Foreign
  BY ChainAssumption DEF PrivateKey, Key, Foreign
<1>2. CASE x.type = "DNSKEY"
  BY <1>1, <1>2, NameTyped DEF Private, Signed, Record
<1>3. CASE x.type = "DS"
  BY <1>1, <1>3, NameTyped DEF Private, Signed, Record
<1>4. CASE x.type = "ANSWER"
  BY <1>1, <1>4, NameTyped DEF Private, Signed, Record, Foreign
<1> QED BY <1>2, <1>3, <1>4, NameTyped

\* What comes back for x is an RRset ...
LEMMA ReplyTyped ==
  ASSUME TypeOK, NEW x \in Name, NEW reply \in Replies(x)
  PROVE  reply.rrset \in RRset /\ reply.faults \in 0..MaxFaults
<1>1. reply.faults \in 0..MaxFaults
  BY ChainAssumption DEF Replies, TypeOK, Query
<1>2. reply.rrset \in Honest(x) \/ reply.rrset \in Faulty(x)
  BY DEF Replies
<1>3. Nothing \in RRset
  BY SignedTyped DEF Nothing
<1>4. {Nothing} \cup Honest(x) \cup Outdated(x) \subseteq RRset
  BY <1>3, HonestTyped, OutdatedGenuine
<1>5. Mixed(x) \subseteq RRset
  <2> SUFFICES ASSUME NEW m \in Mixed(x) PROVE m \in RRset
    OBVIOUS
  <2>0. PICK r \in {Nothing} \cup Honest(x) \cup Outdated(x) :
          \E data \in {r.data, r.data \cup Private(x).data},
             signers \in {Private(x).signers, r.signers \cup Private(x).signers} :
            m = Signed(data, signers)
    BY DEF Mixed
  <2>1. r.data \in SUBSET Record /\ r.signers \in SUBSET Key
    BY <1>4 DEF RRset
  <2>2. /\ {r.data, r.data \cup Private(x).data} \subseteq SUBSET Record
        /\ {Private(x).signers, r.signers \cup Private(x).signers} \subseteq SUBSET Key
    BY <2>1, PrivateForeign
  <2> QED BY <2>0, <2>2, SignedTyped
<1>6. Aside(x) \subseteq RRset
  BY <1>4 DEF Aside, RRset, Record
<1> QED BY <1>1, <1>2, <1>4, <1>5, <1>6 DEF Faulty

\* ... and has nothing in it, or something foreign, or is what public zones
\* published.
LEMMA ReplyCases ==
  ASSUME TypeOK, NEW x \in Name, NEW reply \in Replies(x),
         \A c \in past : GenuineOnly(c.of, c.rrset)
  PROVE  \/ reply.rrset.data = {}
         \/ reply.rrset.data \cap Foreign # {}
         \/ GenuineOnly(x, reply.rrset)
<1>1. reply.rrset \in Honest(x) \/ reply.rrset \in Faulty(x)
  BY DEF Replies
<1>2. ASSUME NEW r \in {Nothing} \cup Honest(x) \cup Outdated(x)
      PROVE  r.data = {} \/ GenuineOnly(x, r)
  <2>1. CASE r = Nothing
    BY <2>1 DEF Nothing, Signed
  <2>2. CASE r \in Honest(x)
    <3>1. r = Published(x) \/ \E c \in past : c.of = x /\ r = c.rrset
      BY <2>2 DEF Honest, Cached
    <3> QED BY <2>1, <3>1, PublishedGenuine
  <2>3. CASE r \in Outdated(x)
    BY <2>3, OutdatedGenuine
  <2> QED BY <2>1, <2>2, <2>3
<1>3. CASE reply.rrset \in Mixed(x)
  <2>1. PICK r \in {Nothing} \cup Honest(x) \cup Outdated(x) :
          reply.rrset.data \in {r.data, r.data \cup Private(x).data}
    BY <1>3 DEF Mixed, Signed
  <2>2. CASE reply.rrset.data = r.data
    BY <1>2, <2>2 DEF GenuineOnly
  <2>3. CASE reply.rrset.data = r.data \cup Private(x).data
    BY <2>3, PrivateForeign
  <2> QED BY <2>1, <2>2, <2>3
<1>4. CASE reply.rrset \in Aside(x)
  <2>1. PICK r \in Honest(x) \cup Outdated(x) :
          x = TheAnswer /\ reply.rrset = [r EXCEPT !.data = {Neighbour}]
    BY <1>4 DEF Aside
  <2>2. r \in RRset
    BY HonestTyped, OutdatedGenuine
  <2>3. reply.rrset.data = {Neighbour}
    BY <2>1, <2>2 DEF RRset
  <2> QED BY <2>1, <2>3 DEF GenuineOnly, TheAnswer
<1> QED BY <1>1, <1>2, <1>3, <1>4 DEF Faulty

LEMMA VerdictTyped ==
  ASSUME NEW rrset, NEW keys
  PROVE  /\ validate_rrset(rrset, keys) \subseteq {"secure", "insecure", "bogus"}
         /\ validate_dnskey_with_ds(keys, rrset)
              \subseteq {"secure", "insecure", "bogus"}
  BY DEF validate_rrset, validate_dnskey_with_ds

LEMMA RememberedTyped ==
  ASSUME TypeOK, Remembered
  PROVE  past' \subseteq [of : Name, rrset : RRset, left : 0..TTL]
<1>1. \A x \in Name : Published(x) \in RRset
  BY PublishedTyped
<1> QED BY <1>1, ChainAssumption DEF TypeOK, Remembered

-----------------------------------------------------------------------------
(* Type correctness.                                                        *)

\* What FetchRootKeys and FetchDs do with a reply.
RootReply(reply) ==
  \E v \in validate_root_dnskeys(reply.rrset.data) :
    q' = IF v = "secure"
         THEN [q EXCEPT !.stage = "ds", !.faults = reply.faults,
                        !.keys = reply.rrset.data,
                        !.mixed = Mixes(0, reply.rrset.data)]
         ELSE End("bogus", reply.faults)

DsReply(reply) ==
  \E v \in validate_rrset(reply.rrset, q.keys) :
    q' = IF reply.rrset.data = {} THEN End("insecure", reply.faults)
         ELSE IF v # "secure" THEN End("bogus", reply.faults)
         ELSE [q EXCEPT !.stage = "keys", !.faults = reply.faults,
                        !.ds = reply.rrset.data]

LEMMA EndTyped ==
  ASSUME TypeOK, NEW v \in {"secure", "insecure", "bogus"}, NEW n \in 0..MaxFaults
  PROVE  End(v, n) \in Query /\ End(v, n).stage = "done" /\ End(v, n).level = q.level
  BY DEF TypeOK, End, Query

LEMMA TypeStep ==
  ASSUME TypeOK, [Next]_vars
  PROVE  TypeOK'
<1> USE ChainAssumption DEF TypeOK
<1>1. ASSUME NEW i \in Level, Prepublish(i)
      PROVE  TypeOK'
  <2>1. past' \subseteq [of : Name, rrset : RRset, left : 0..TTL]
    BY <1>1, RememberedTyped DEF Prepublish
  <2> QED BY <1>1, <2>1 DEF Prepublish, Wait, Replacing, Cuts
<1>2. ASSUME NEW i \in Level, SwapDs(i)
      PROVE  TypeOK'
  <2>1. past' \subseteq [of : Name, rrset : RRset, left : 0..TTL]
    BY <1>2, RememberedTyped DEF SwapDs
  <2> QED BY <1>2, <2>1 DEF SwapDs, Wait, Replacing, Cuts
<1>3. ASSUME NEW i \in Level, Retire(i)
      PROVE  TypeOK'
  <2>1. past' \subseteq [of : Name, rrset : RRset, left : 0..TTL]
    BY <1>3, RememberedTyped DEF Retire
  <2>2. gen[i] + 1 \in 1..MaxGen
    BY <1>3 DEF Retire, Replacing
  <2>3. gen' \in [Level -> 1..MaxGen]
    BY <1>3, <2>2 DEF Retire
  <2> QED BY <1>3, <2>1, <2>3 DEF Retire, Wait, Replacing, Cuts
<1>4. ASSUME Tick
      PROVE  TypeOK'
  <2>1. past' \subseteq [of : Name, rrset : RRset, left : 0..TTL]
    BY <1>4 DEF Tick
  <2>2. q' \in Query
    BY <1>4 DEF Tick, Query
  <2>3. since' \in [Level -> 0..(Wait + 1)]
    BY <1>4 DEF Tick, Wait
  <2> QED BY <1>4, <2>1, <2>2, <2>3 DEF Tick, Replacing, Cuts
<1> SUFFICES ASSUME UNCHANGED world, Receive \/ Walk \/ Deliver
             PROVE  q' \in Query /\ (q'.stage # "done" => q'.level < Depth)
  <2>1. ASSUME UNCHANGED vars PROVE TypeOK'
    BY <2>1 DEF vars, world, Wait, Replacing, Cuts
  <2>2. ASSUME UNCHANGED world, q' \in Query, q'.stage # "done" => q'.level < Depth
        PROVE  TypeOK'
    BY <2>2 DEF world, Wait, Replacing, Cuts
  <2> QED BY <1>1, <1>2, <1>3, <1>4, <2>1, <2>2
          DEF Next, Environment, Receive, Walk, FetchRootKeys, FetchDs, FetchKeys, Deliver
<1>5. CASE Receive
  <2>1. PICK reply \in Replies(TheAnswer), alias \in {{}, {Alias}} :
          \/ LeaveUnchecked(Came(reply, alias))
          \/ BeginWalk(Came(reply, alias))
          \/ CheckSignature(Came(reply, alias))
    BY <1>5 DEF Receive
  <2> DEFINE came == Came(reply, alias)
  <2>2. came \in Query
    <3>1. reply.rrset \in RRset /\ reply.faults \in 0..MaxFaults
      BY ReplyTyped, Names
    <3> QED BY <3>1 DEF Came, Query, RRset, Record
  <2>3. ASSUME CheckSignature(came) PROVE q' \in Query
    <3>0. PICK brought \in Honest(Keys(apex[Depth])) :
            \E v \in validate_rrset(came.answer, brought.data) :
              q' = [came EXCEPT !.stage = "done", !.verdict = v]
      BY <2>3 DEF CheckSignature
    <3>1. PICK v \in validate_rrset(came.answer, brought.data) :
              q' = [came EXCEPT !.stage = "done", !.verdict = v]
      BY <3>0
    <3>2. v \in {"secure", "insecure", "bogus"}
      BY VerdictTyped
    <3> QED BY <3>1, <3>2, <2>2 DEF Query
  <2>4. ASSUME LeaveUnchecked(came) PROVE q' \in Query /\ q'.stage = "done"
    BY <2>2, <2>4 DEF LeaveUnchecked, Query
  <2>5. ASSUME BeginWalk(came) PROVE q' \in Query /\ q'.level = came.level
    BY <2>2, <2>5 DEF BeginWalk, Query
  <2>6. came.level < Depth
    BY <1>5 DEF Came, Receive, Query
  <2>7. ASSUME CheckSignature(came) PROVE q'.stage = "done"
    BY <2>2, <2>7 DEF CheckSignature, Query
  <2> QED BY <2>1, <2>3, <2>4, <2>5, <2>6, <2>7
<1>6. CASE FetchRootKeys
  <2>1. PICK reply \in Replies(Keys(0)) : RootReply(reply)
    BY <1>6 DEF FetchRootKeys, RootReply
  <2>2. reply.rrset.data \in SUBSET Record /\ reply.faults \in 0..MaxFaults
    BY ReplyTyped, Names DEF RRset
  <2>3. q.level < Depth
    BY <1>6 DEF FetchRootKeys
  <2>4. Mixes(0, reply.rrset.data) \in BOOLEAN
    BY DEF Mixes
  <2>5. End("bogus", reply.faults) \in Query /\ End("bogus", reply.faults).stage = "done"
    BY <2>2, EndTyped
  <2>6. CASE q' = End("bogus", reply.faults)
    BY <2>5, <2>6
  <2>7. CASE q' = [q EXCEPT !.stage = "ds", !.faults = reply.faults,
                            !.keys = reply.rrset.data,
                            !.mixed = Mixes(0, reply.rrset.data)]
    BY <2>2, <2>3, <2>4, <2>7 DEF Query
  <2> QED BY <2>1, <2>6, <2>7 DEF RootReply
<1>7. CASE FetchDs
  <2>1. PICK reply \in Replies(Ds(q.level + 1)) : DsReply(reply)
    BY <1>7 DEF FetchDs, DsReply
  <2>2. q.level < Depth /\ q.level + 1 \in 1..Depth
    BY <1>7 DEF FetchDs, Query, Level
  <2>3. reply.rrset.data \in SUBSET Record /\ reply.faults \in 0..MaxFaults
    BY <2>2, ReplyTyped, Names DEF RRset
  <2>4. \A v \in {"insecure", "bogus"} :
          End(v, reply.faults) \in Query /\ End(v, reply.faults).stage = "done"
    BY <2>3, EndTyped
  <2>5. CASE q' \in {End("insecure", reply.faults), End("bogus", reply.faults)}
    BY <2>4, <2>5
  <2>6. CASE q' = [q EXCEPT !.stage = "keys", !.faults = reply.faults,
                            !.ds = reply.rrset.data]
    BY <2>2, <2>3, <2>6 DEF Query
  <2> QED BY <2>1, <2>5, <2>6 DEF DsReply
<1>8. CASE FetchKeys
  <2>1. PICK reply \in Replies(Keys(q.level + 1)) :
          \/ Condemn(reply)
          \/ Descend(reply)
          \/ Conclude(reply)
    BY <1>8 DEF FetchKeys
  <2>2. q.level < Depth /\ q.level + 1 \in Level
    <3>1. q.stage = "keys"
      BY <1>8 DEF FetchKeys
    <3>2. q.level < Depth /\ q.level \in Level
      BY <3>1 DEF Query
    <3> QED BY <3>2 DEF Level
  <2>3. reply.rrset.data \in SUBSET Record /\ reply.faults \in 0..MaxFaults
    <3>1. Keys(q.level + 1) \in Name
      BY <2>2, Names
    <3> QED BY <3>1, ReplyTyped DEF RRset
  <2>5. Mixes(q.level + 1, reply.rrset.data) \in BOOLEAN
    BY DEF Mixes
  <2>4. ASSUME Conclude(reply) PROVE q' \in Query /\ q'.stage = "done"
    <3>1. PICK v \in validate_rrset(q.answer, reply.rrset.data) :
            q' = [End(v, reply.faults) EXCEPT !.level = @ + 1,
                    !.mixed = @ \/ Mixes(q.level + 1, reply.rrset.data)]
      BY <2>4 DEF Conclude
    <3>2. v \in {"secure", "insecure", "bogus"}
      BY VerdictTyped
    <3>3. End(v, reply.faults) \in Query /\ End(v, reply.faults).stage = "done"
      BY <2>3, <3>2, EndTyped
    <3>4. PICK e \in Query : e = End(v, reply.faults) /\ e.level = q.level
      BY <2>3, <3>2, <3>3, EndTyped
    <3>5. q' = [e EXCEPT !.level = q.level + 1,
                  !.mixed = e.mixed \/ Mixes(q.level + 1, reply.rrset.data)]
      BY <3>1, <3>4
    <3> QED BY <2>2, <2>5, <3>3, <3>4, <3>5 DEF Query
  <2>6. ASSUME Condemn(reply) PROVE q' \in Query /\ q'.stage = "done"
    BY <2>3, <2>6, EndTyped DEF Condemn
  <2>7. ASSUME Descend(reply) PROVE q' \in Query /\ q'.level < Depth
    <3>1. q.level + 1 < Depth
      BY <2>7 DEF Descend
    <3> QED BY <2>2, <2>3, <2>5, <2>7, <3>1 DEF Descend, Query
  <2> QED BY <2>1, <2>4, <2>6, <2>7
<1>9. CASE Deliver
  BY <1>9, ChainAssumption DEF Deliver, Idle, Query, Nothing, Signed, RRset, Level
<1> QED BY <1>5, <1>6, <1>7, <1>8, <1>9 DEF Walk

-----------------------------------------------------------------------------
(* What is secure is genuine.                                               *)

\* A secure verdict rests on one key that made a signature and was trusted.
LEMMA SecureAttempt ==
  ASSUME NEW rrset, NEW keys, "secure" \in validate_rrset(rrset, keys)
  PROVE  /\ \E k \in rrset.signers : k \in keys /\ Covers(k, rrset.data)
         /\ ~rrset.expired
         /\ rrset.data # {}
<1>1. Attempts(rrset, keys) # {} /\ \E a \in Attempts(rrset, keys) : Verifies(a, rrset)
  BY DEF validate_rrset
<1>2. rrset.data # {}
  BY DEF validate_rrset
<1> QED BY <1>1, <1>2 DEF Attempts, Verifies

LEMMA SecurePair ==
  ASSUME NEW keys, NEW ds, "secure" \in validate_dnskey_with_ds(keys, ds)
  PROVE  \E k \in keys : k \in ds
  BY DEF validate_dnskey_with_ds

Delegated(i) == 1..i \subseteq secured

PastGenuine == \A c \in past : GenuineOnly(c.of, c.rrset)

\* The answer is one of the public zone, or holds something foreign.
AnswerKnown ==
  \/ q.answer.data \ {Alias} \in {{}, {Public}, {Neighbour}}
  \/ q.answer.data \cap Foreign # {}

\* What a walk has come to trust: keys of the public zone at its level, which
\* an unbroken chain of delegations leads to, and the DS records of the next.
Chained ==
  /\ q.stage \in {"ds", "keys"} => /\ Delegated(q.level)
                                   /\ q.keys \subseteq OwnKeys(q.level)
  /\ q.stage = "keys" => /\ q.level + 1 \in secured
                         /\ q.ds \subseteq OwnKeys(q.level + 1)

Trusts ==
  /\ q.stage \in {"root", "ds", "keys"} => q.verdict = "none" /\ AnswerKnown
  /\ ~q.mixed => Chained
  /\ q.stage = "root" => q.level = 0
  /\ q.stage = "idle" => q = Idle

SourceInv == TypeOK /\ PastGenuine /\ Trusts /\ SecureIsGenuine

\* The public zones' keys and records are not foreign.
LEMMA OwnOrForeign ==
  /\ \A i \in Level : OwnKeys(i) \cap (Foreign \cup {Alias}) = {}
  /\ {Public, Neighbour} \cap (Foreign \cup {Alias}) = {}
<1>1. Depth \in Nat /\ \A i \in Level : i \in 0..Depth
  BY ChainAssumption DEF Level
<1>2. Depth + 1 \notin Level
  BY <1>1 DEF Level
<1> QED BY <1>1, <1>2 DEF OwnKeys, Foreign, PrivateKey, Other, Alias, Public, Neighbour

\* A key set with one of the zone's own keys is the zone's, or mixes views.
LEMMA OwnOrMixed ==
  ASSUME TypeOK, NEW i \in Level, NEW reply \in Replies(Keys(i)), PastGenuine,
         NEW k \in reply.rrset.data, k \in OwnKeys(i)
  PROVE  reply.rrset.data \subseteq OwnKeys(i) \/ Mixes(i, reply.rrset.data)
<1>1. \/ reply.rrset.data \cap Foreign # {}
      \/ GenuineOnly(Keys(i), reply.rrset)
  BY ReplyCases, Names DEF PastGenuine
<1> QED BY <1>1 DEF Mixes, GenuineOnly, Keys

LEMMA PastStep ==
  ASSUME SourceInv, [Next]_vars
  PROVE  PastGenuine'
<1> USE DEF SourceInv, PastGenuine
<1>1. CASE Remembered /\ UNCHANGED <<apex, secured>>
  <2>1. ASSUME NEW x \in Name, Published(x)' # Published(x)
        PROVE  GenuineOnly(x, Published(x))
    <3>1. x.type # "DS" \/ x.level \in secured
      BY <1>1, <2>1 DEF Published, Nothing, Signed
    <3> QED BY <3>1, PublishedGenuine
  <2>2. \A x, r : GenuineOnly(x, r)' = GenuineOnly(x, r)
    BY <1>1 DEF GenuineOnly, OwnKeys
  <2> QED BY <1>1, <2>1, <2>2 DEF Remembered
<1>2. CASE Tick
  <2>1. \A c \in past' : \E d \in past : c.of = d.of /\ c.rrset = d.rrset
    BY <1>2 DEF Tick, TypeOK
  <2> QED BY <1>2, <2>1 DEF Tick, GenuineOnly, OwnKeys
<1>3. CASE UNCHANGED world
  BY <1>3 DEF world, GenuineOnly, OwnKeys
<1> QED BY <1>1, <1>2, <1>3
        DEF Next, Environment, Prepublish, SwapDs, Retire, Receive, Walk,
            FetchRootKeys, FetchDs, FetchKeys, Deliver, vars, world

LEMMA AnswerStep ==
  ASSUME SourceInv, Receive
  PROVE  Trusts' /\ SecureIsGenuine'
<1> USE DEF SourceInv
<1>0. q = Idle /\ UNCHANGED world
  BY DEF Receive, Trusts
<1>1. PICK reply \in Replies(TheAnswer), alias \in {{}, {Alias}} :
        /\ reply.rrset # Nothing
        /\ reply.faults = 0 \/ alias = {}
        /\ \/ LeaveUnchecked(Came(reply, alias))
           \/ BeginWalk(Came(reply, alias))
           \/ CheckSignature(Came(reply, alias))
  BY DEF Receive
<1> DEFINE came == Came(reply, alias)
<1>2. /\ came.verdict = "none" /\ came.level = 0 /\ came.strict = FALSE
      /\ came.mixed = FALSE
      /\ came.answer = [reply.rrset EXCEPT !.data = @ \cup alias]
      /\ came \in Query
  <2>1. reply.rrset \in RRset /\ reply.faults \in 0..MaxFaults
    BY ReplyTyped, Names
  <2>2. came \in Query
    BY <2>1 DEF Came, Query, TypeOK, RRset, Record
  <2>3. q.verdict = "none" /\ q.level = 0 /\ q.strict = FALSE /\ q.mixed = FALSE
    BY <1>0 DEF Idle
  <2> QED BY <2>2, <2>3 DEF Came, TypeOK, Query
<1>3. CASE LeaveUnchecked(came)
  BY <1>2, <1>3 DEF LeaveUnchecked, Query, Trusts, Chained, SecureIsGenuine
<1>4. CASE CheckSignature(came)
  <2>1. PICK brought \in Honest(Keys(apex[Depth])) :
          \E v \in validate_rrset(came.answer, brought.data) :
            q' = [came EXCEPT !.stage = "done", !.verdict = v]
    BY <1>4 DEF CheckSignature
  <2>2. q'.stage = "done" /\ q'.strict = FALSE
    BY <1>2, <2>1 DEF Query
  <2> QED BY <2>2 DEF Trusts, Chained, SecureIsGenuine
<1>5. CASE BeginWalk(came)
  <2>1. /\ q'.stage = "root" /\ q'.level = 0 /\ q'.verdict = "none"
        /\ q'.answer = [reply.rrset EXCEPT !.data = @ \cup alias]
    BY <1>2, <1>5 DEF BeginWalk, Query
  <2>2. q'.answer.data = reply.rrset.data \cup alias
    <3>1. reply.rrset \in RRset
      BY ReplyTyped, Names
    <3> QED BY <2>1, <3>1 DEF RRset
  <2>3. AnswerKnown'
    <3>1. \/ reply.rrset.data = {}
          \/ reply.rrset.data \cap Foreign # {}
          \/ reply.rrset.data \in {{Public}, {Neighbour}}
      <4>1. \/ reply.rrset.data = {}
            \/ reply.rrset.data \cap Foreign # {}
            \/ GenuineOnly(TheAnswer, reply.rrset)
        BY ReplyCases, Names DEF PastGenuine
      <4> QED BY <4>1 DEF GenuineOnly, TheAnswer
    <3>2. AnswerKnown' <=> \/ q'.answer.data \ {Alias} \in {{}, {Public}, {Neighbour}}
                           \/ q'.answer.data \cap Foreign # {}
      BY DEF AnswerKnown, Alias, Public, Neighbour, Foreign, PrivateKey, Other, Level
    <3> QED BY <2>2, <3>1, <3>2, OwnOrForeign
  <2> QED BY <2>1, <2>3 DEF Trusts, Chained, SecureIsGenuine
<1> QED BY <1>1, <1>3, <1>4, <1>5

LEMMA KnownStill ==
  ASSUME AnswerKnown, q'.answer = q.answer
  PROVE  AnswerKnown'
  BY DEF AnswerKnown, Alias, Public, Neighbour, Foreign, PrivateKey, Other, Level

\* The root: a pinned key is no other view's, so that all of the set are the
\* root's own, or it mixes views.
LEMMA RootStep ==
  ASSUME SourceInv, FetchRootKeys
  PROVE  Trusts' /\ SecureIsGenuine'
<1> USE DEF SourceInv
<1>0. /\ q.stage = "root" /\ UNCHANGED world /\ q.level = 0 /\ q.verdict = "none"
      /\ AnswerKnown
  BY DEF FetchRootKeys, Trusts
<1>1. PICK reply \in Replies(Keys(0)) : RootReply(reply)
  BY DEF FetchRootKeys, RootReply
<1>2. PICK v \in validate_root_dnskeys(reply.rrset.data) :
        q' = IF v = "secure"
             THEN [q EXCEPT !.stage = "ds", !.faults = reply.faults,
                            !.keys = reply.rrset.data,
                            !.mixed = Mixes(0, reply.rrset.data)]
             ELSE End("bogus", reply.faults)
  BY <1>1 DEF RootReply
<1>3. CASE v # "secure"
  <2>1. q'.stage = "done" /\ q'.verdict = "bogus"
    BY <1>2, <1>3 DEF End, TypeOK, Query
  <2> QED BY <2>1 DEF Trusts, Chained, SecureIsGenuine
<1>4. CASE v = "secure"
  <2>1. /\ q'.stage = "ds" /\ q'.verdict = "none" /\ q'.level = 0
        /\ q'.answer = q.answer /\ q'.keys = reply.rrset.data
        /\ q'.mixed = Mixes(0, reply.rrset.data)
    BY <1>0, <1>2, <1>4 DEF TypeOK, Query
  <2>2. \E k \in reply.rrset.data : k \in OwnKeys(0)
    <3>1. \E k \in reply.rrset.data : k \in Anchors
      BY <1>4, SecurePair DEF validate_root_dnskeys
    <3>2. Anchors \subseteq OwnKeys(0)
      BY ChainAssumption DEF Anchors, OwnKeys
    <3> QED BY <3>1, <3>2
  <2>3. ~q'.mixed => reply.rrset.data \subseteq OwnKeys(0)
    BY <2>1, <2>2, OwnOrMixed, Names
  <2>4. Delegated(0)'
    BY DEF Delegated
  <2>5. AnswerKnown'
    BY <1>0, <2>1, KnownStill
  <2> QED BY <2>1, <2>3, <2>4, <2>5 DEF Trusts, Chained, SecureIsGenuine, OwnKeys
<1> QED BY <1>3, <1>4

\* The DS records: signed by a key of the level above, which signs nothing
\* foreign.
LEMMA DsStep ==
  ASSUME SourceInv, FetchDs
  PROVE  Trusts' /\ SecureIsGenuine'
<1> USE DEF SourceInv
<1> DEFINE n == q.level + 1
<1>0. /\ q.stage = "ds" /\ UNCHANGED world /\ q.verdict = "none" /\ AnswerKnown
      /\ q.level \in Level /\ n \in 1..Depth
  BY ChainAssumption DEF FetchDs, Trusts, TypeOK, Query, Level
<1>1. PICK reply \in Replies(Ds(n)) : DsReply(reply)
  BY DEF FetchDs, DsReply
<1>2. PICK v \in validate_rrset(reply.rrset, q.keys) :
        q' = IF reply.rrset.data = {} THEN End("insecure", reply.faults)
             ELSE IF v # "secure" THEN End("bogus", reply.faults)
             ELSE [q EXCEPT !.stage = "keys", !.faults = reply.faults,
                            !.ds = reply.rrset.data]
  BY <1>1 DEF DsReply
<1>3. CASE reply.rrset.data = {} \/ v # "secure"
  <2>1. q'.stage = "done" /\ q'.verdict \in {"insecure", "bogus"}
    BY <1>2, <1>3 DEF End, TypeOK, Query
  <2> QED BY <2>1 DEF Trusts, Chained, SecureIsGenuine
<1>4. CASE reply.rrset.data # {} /\ v = "secure"
  <2>1. /\ q'.stage = "keys" /\ q'.verdict = "none" /\ q'.level = q.level
        /\ q'.answer = q.answer /\ q'.keys = q.keys /\ q'.ds = reply.rrset.data
        /\ q'.mixed = q.mixed
    BY <1>0, <1>2, <1>4 DEF TypeOK, Query
  <2>2. AnswerKnown'
    BY <1>0, <2>1, KnownStill
  <2>3. ASSUME ~q.mixed PROVE Chained'
    <3>1. Delegated(q.level) /\ q.keys \subseteq OwnKeys(q.level)
      BY <1>0, <2>3 DEF Trusts, Chained
    <3>2. \E k \in OwnKeys(q.level) : Covers(k, reply.rrset.data)
      BY <1>4, <3>1, SecureAttempt
    <3>3. reply.rrset.data \cap Foreign = {}
      BY <1>0, <3>2, OwnOrForeign DEF Covers
    <3>4. n \in secured /\ reply.rrset.data \subseteq OwnKeys(n)
      <4>1. GenuineOnly(Ds(n), reply.rrset)
        BY <1>0, <1>4, <3>3, ReplyCases, Names DEF PastGenuine
      <4> QED BY <4>1 DEF GenuineOnly, Ds
    <3>5. Delegated(q.level)' /\ n \in secured'
      BY <1>0, <2>1, <3>1, <3>4 DEF Delegated, world
    <3> QED BY <2>1, <3>1, <3>4, <3>5 DEF Chained, OwnKeys, Delegated
  <2> QED BY <2>1, <2>2, <2>3 DEF Trusts, SecureIsGenuine
<1> QED BY <1>3, <1>4

\* The keys that the DS records name: the zone's own, or a set that mixes views;
\* and at the last level the answer, which one of them signed.
LEMMA KeysStep ==
  ASSUME SourceInv, FetchKeys
  PROVE  Trusts' /\ SecureIsGenuine'
<1> USE DEF SourceInv
<1> DEFINE n == q.level + 1
<1>0. /\ q.stage = "keys" /\ UNCHANGED world /\ q.verdict = "none" /\ AnswerKnown
      /\ q.level \in Nat /\ n \in 1..Depth /\ n \in Level
  <2>1. q.stage = "keys" /\ UNCHANGED world
    BY DEF FetchKeys
  <2>2. q.verdict = "none" /\ AnswerKnown
    BY <2>1 DEF Trusts
  <2>3. q.level \in Level /\ q.level < Depth
    BY <2>1 DEF TypeOK, Query
  <2> QED BY <2>1, <2>2, <2>3, ChainAssumption DEF Level
<1>1. PICK reply \in Replies(Keys(n)) :
        Condemn(reply) \/ Descend(reply) \/ Conclude(reply)
  BY DEF FetchKeys
<1>2. CASE Condemn(reply)
  <2>1. q'.stage = "done" /\ q'.verdict = "bogus"
    BY <1>2 DEF Condemn, End, TypeOK, Query
  <2> QED BY <2>1 DEF Trusts, Chained, SecureIsGenuine
<1>3. ASSUME Chains(reply.rrset), ~q.mixed, ~Mixes(n, reply.rrset.data)
      PROVE  Delegated(n) /\ reply.rrset.data \subseteq OwnKeys(n)
  <2>1. /\ Delegated(q.level) /\ n \in secured
        /\ q.ds \subseteq OwnKeys(n)
    BY <1>0, <1>3 DEF Trusts, Chained
  <2>2. Delegated(n)
    BY <1>0, <2>1 DEF Delegated
  <2>3. \E k \in reply.rrset.data : k \in q.ds
    BY <1>3, SecurePair DEF Chains
  <2> QED BY <1>0, <1>3, <2>1, <2>2, <2>3, OwnOrMixed
<1>4. CASE Descend(reply)
  <2>1. /\ q'.stage = "ds" /\ q'.verdict = "none" /\ q'.level = n
        /\ q'.answer = q.answer /\ q'.keys = reply.rrset.data
        /\ q'.mixed = (q.mixed \/ Mixes(n, reply.rrset.data))
    BY <1>0, <1>4 DEF Descend, TypeOK, Query
  <2>2. AnswerKnown'
    BY <1>0, <2>1, KnownStill
  <2>3. ASSUME ~q'.mixed PROVE Chained'
    <3>1. Delegated(n) /\ reply.rrset.data \subseteq OwnKeys(n)
      BY <1>3, <1>4, <2>1, <2>3 DEF Descend
    <3> QED BY <1>0, <2>1, <3>1 DEF Chained, OwnKeys, Delegated, world
  <2> QED BY <1>0, <2>1, <2>2, <2>3 DEF Trusts, SecureIsGenuine
<1>5. CASE Conclude(reply)
  <2>1. PICK v \in validate_rrset(q.answer, reply.rrset.data) :
          q' = [End(v, reply.faults) EXCEPT !.level = @ + 1,
                  !.mixed = @ \/ Mixes(q.level + 1, reply.rrset.data)]
    BY <1>5 DEF Conclude
  <2>2. /\ q'.stage = "done" /\ q'.verdict = v /\ q'.answer = q.answer
        /\ q'.mixed = (q.mixed \/ Mixes(n, reply.rrset.data))
    BY <2>1 DEF End, TypeOK, Query
  <2>3. ASSUME v = "secure", ~q'.mixed
        PROVE  /\ secured = 1..Depth
               /\ q.answer.data \in {{Public}, {Neighbour}}
               /\ q.answer.signers \cap OwnKeys(Depth) # {}
               /\ ~q.answer.expired
    <3>1. n = Depth /\ Delegated(Depth) /\ reply.rrset.data \subseteq OwnKeys(Depth)
      BY <1>3, <1>5, <2>2, <2>3 DEF Conclude
    <3>2. secured = 1..Depth
      BY <3>1 DEF Delegated, TypeOK, Cuts
    <3>3. /\ \E k \in q.answer.signers : k \in OwnKeys(Depth) /\ Covers(k, q.answer.data)
          /\ ~q.answer.expired
          /\ q.answer.data # {}
      BY <2>1, <2>3, <3>1, SecureAttempt
    <3>4. q.answer.data \cap (Foreign \cup {Alias}) = {}
      BY <3>3, OwnOrForeign, Names DEF Covers
    <3>5. q.answer.data \in {{Public}, {Neighbour}}
      BY <1>0, <3>3, <3>4 DEF AnswerKnown
    <3> QED BY <3>2, <3>3, <3>5
  <2>4. Trusts'
    BY <2>2 DEF Trusts, Chained
  <2>5. SecureIsGenuine'
    BY <1>0, <2>2, <2>3 DEF SecureIsGenuine, OwnKeys, Public, Neighbour, world
  <2> QED BY <2>4, <2>5
<1> QED BY <1>1, <1>2, <1>4, <1>5

LEMMA SourceStep ==
  ASSUME SourceInv, [Next]_vars
  PROVE  SourceInv'
<1> USE DEF SourceInv
<1>1. TypeOK' /\ PastGenuine'
  BY TypeStep, PastStep
<1>2. CASE Environment \/ UNCHANGED vars
  <2>1. UNCHANGED <<apex, secured>> /\ (q' = q \/ Tick)
    BY <1>2 DEF Environment, Prepublish, SwapDs, Retire, Tick, vars, world
  <2>2. CASE q' = q
    <3>1. AnswerKnown => AnswerKnown'
      BY <2>2, KnownStill
    <3>2. Idle' = Idle
      BY DEF Idle, Nothing, Signed
    <3>3. Trusts'
      BY <2>1, <2>2, <3>1, <3>2 DEF Trusts, Chained, Delegated, OwnKeys
    <3>4. SecureIsGenuine'
      BY <2>1, <2>2 DEF SecureIsGenuine, OwnKeys, Public, Neighbour
    <3> QED BY <1>1, <3>3, <3>4
  <2>3. CASE Tick
    <3>1. q' = [q EXCEPT !.left = IF q.stage \in {"idle", "done"} THEN @ ELSE @ - 1]
      BY <2>3 DEF Tick
    <3>2. q.stage = "idle" => q' = q
      BY <3>1 DEF TypeOK, Query
    <3>3. /\ q'.stage = q.stage /\ q'.verdict = q.verdict /\ q'.level = q.level
          /\ q'.answer = q.answer /\ q'.keys = q.keys /\ q'.ds = q.ds
          /\ q'.strict = q.strict /\ q'.mixed = q.mixed
      BY <3>1 DEF TypeOK, Query
    <3>4. AnswerKnown => AnswerKnown'
      BY <3>3, KnownStill
    <3>5. Trusts'
      BY <2>1, <3>2, <3>3, <3>4
         DEF Trusts, Chained, Delegated, OwnKeys, Idle, Nothing, Signed
    <3>6. SecureIsGenuine'
      BY <2>1, <3>3 DEF SecureIsGenuine, OwnKeys, Public, Neighbour
    <3> QED BY <1>1, <3>5, <3>6
  <2> QED BY <1>1, <2>1, <2>2, <2>3
<1>3. CASE Receive
  BY <1>1, <1>3, AnswerStep
<1>4. CASE Walk
  BY <1>1, <1>4, RootStep, DsStep, KeysStep DEF Walk
<1>5. CASE Deliver
  <2>1. q' = Idle /\ Idle' = Idle
    BY <1>5 DEF Deliver, Idle, Nothing, Signed
  <2>2. q'.stage = "idle" /\ q'.verdict = "none"
    BY <2>1 DEF Idle
  <2>3. Trusts'
    BY <2>1, <2>2 DEF Trusts, Chained
  <2>4. SecureIsGenuine'
    BY <2>2 DEF SecureIsGenuine
  <2> QED BY <1>1, <2>3, <2>4
<1> QED BY <1>2, <1>3, <1>4, <1>5 DEF Next

LEMMA SourceInit == Init => SourceInv
<1> SUFFICES ASSUME Init PROVE SourceInv
  OBVIOUS
<1>1. TypeOK
  BY ChainAssumption
     DEF Init, TypeOK, Query, Idle, Nothing, Signed, RRset, Wait, Replacing, Level
<1> QED BY <1>1
        DEF Init, SourceInv, PastGenuine, Trusts, Chained, SecureIsGenuine, Idle

\* The walk is always in one of its states, with RRsets of the right kind.
THEOREM TypeCorrect == Spec => []TypeOK
<1>1. Init => TypeOK
  BY SourceInit DEF SourceInv
<1>2. TypeOK /\ [Next]_vars => TypeOK'
  BY TypeStep
<1> QED BY <1>1, <1>2, PTL DEF Spec

\* What chain_validate calls secure, with no key set on the way that had a
\* foreign key beside a genuine one, the zone itself published (for the name
\* asked for or another of its names), under a key of its own: at every depth,
\* through every key replacement, whatever tags keys share, however many replies
\* were lost, late, from another view, or put together from two.
THEOREM SecureAnswersAreGenuine == Spec => []SecureIsGenuine
<1>1. Init => SourceInv
  BY SourceInit
<1>2. SourceInv /\ [Next]_vars => SourceInv'
  BY SourceStep
<1>3. SourceInv => SecureIsGenuine
  BY DEF SourceInv
<1> QED BY <1>1, <1>2, <1>3, PTL DEF Spec

-----------------------------------------------------------------------------
(* What is genuine holds.                                                   *)

\* No two keys share a tag, and the public zones use algorithms that are known.
Distinct ==
  /\ \A j, k \in Key : Tag[j] = Tag[k] => j = k
  /\ \A i \in Level : OwnKeys(i) \subseteq Known

\* The keys K, or the signers K, of level i go with all that is published for
\* the next r ticks; and so do the DS records D.
Fits(i, K, r) ==
  /\ K \subseteq OwnKeys(i)
  /\ <<i, gen[i]>> \in K
  /\ phase[i] = "swapped" => <<i, gen[i] + 1>> \in K
  /\ phase[i] = "double" /\ <<i, gen[i] + 1>> \notin K => since[i] + r <= Wait

FitsDs(i, D, r) ==
  \/ D = {<<i, gen[i]>>} /\ (phase[i] = "swapped" => since[i] + r <= Wait)
  \/ D = {<<i, gen[i] + 1>>} /\ phase[i] = "swapped"

\* An RRset that was published for x still goes with the others for r ticks.
Good(x, rrset, r) ==
  /\ ~rrset.expired
  /\ x.type = "DNSKEY" => /\ rrset.data = rrset.signers
                          /\ Fits(x.level, rrset.data, r)
  /\ x.type = "DS" => /\ x.level \in secured
                      /\ FitsDs(x.level, rrset.data, r)
                      /\ Fits(apex[x.level - 1], rrset.signers, r)
  /\ x.type = "ANSWER" => /\ rrset.data = {Public}
                          /\ Fits(apex[Depth], rrset.signers, r)

\* There is nothing at x.
Absent(x) ==
  \/ x.type = "DS" /\ x.level \notin secured
  \/ x.type = "DNSKEY" /\ x.level \notin Apexes

\* Until the last cache forgets it, and for a walk that begins then.
PastFits == \A c \in past : Good(c.of, c.rrset, c.left + WalkTime)

RootPinned ==
  /\ <<0, gen[0]>> \in Anchors
  /\ Replacing(0) => <<0, gen[0] + 1>> \in Anchors

\* What a walk without a fault holds goes together until it ends.
WalkFits ==
  /\ q.stage \in {"root", "ds", "keys"} =>
       /\ q.strict
       /\ ~q.mixed
       /\ ~q.answer.expired
       /\ q.answer.data \ {Alias} = {Public}
       /\ Fits(apex[Depth], q.answer.signers, q.left)
  /\ q.stage \in {"ds", "keys"} => Fits(q.level, q.keys, q.left)
  /\ q.stage = "keys" => FitsDs(q.level + 1, q.ds, q.left)

TimingInv ==
  /\ SourceInv
  /\ PastFits
  /\ RootPinned
  /\ q.faults = 0 => WalkFits
  /\ GenuineHolds

\* What fits for longer fits.
LEMMA FitsLess ==
  ASSUME TypeOK, NEW i \in Level, NEW K, NEW r \in Nat, NEW s \in 0..r
  PROVE  /\ Fits(i, K, r) => Fits(i, K, s)
         /\ FitsDs(i, K, r) => FitsDs(i, K, s)
<1>1. since[i] \in Nat /\ Wait \in Nat
  BY ChainAssumption DEF TypeOK, Wait
<1>2. since[i] + r <= Wait => since[i] + s <= Wait
  BY <1>1
<1> QED BY <1>2 DEF Fits, FitsDs

\* What is published now fits for any time.
LEMMA PublishedFits ==
  ASSUME TypeOK, NEW i \in Level, NEW r \in Nat
  PROVE  Fits(i, KeySet(i), r) /\ FitsDs(i, DsSet(i), r)
<1>1. phase[i] \in {"steady", "double", "swapped"}
  BY DEF TypeOK
<1>2. KeySet(i) \subseteq OwnKeys(i)
  BY KeysTyped
<1> QED BY <1>1, <1>2 DEF Fits, FitsDs, KeySet, DsSet

\* A step of a replacement waits until what does not fit it is forgotten.
LEMMA ReplacementFits ==
  ASSUME TypeOK, NEW j \in Level, Prepublish(j) \/ SwapDs(j) \/ Retire(j),
         NEW i \in Level, NEW K, NEW r \in 0..Wait
  PROVE  /\ Fits(i, K, r) => Fits(i, K, r)'
         /\ FitsDs(i, K, r) => FitsDs(i, K, r)'
<1>1. /\ since[i] \in Nat /\ Wait \in Nat /\ Wait' = Wait
      /\ gen[i] \in Nat
      /\ OwnKeys(i)' = OwnKeys(i)
  BY ChainAssumption DEF TypeOK, Wait, OwnKeys
<1>2. CASE i # j
  BY <1>1, <1>2 DEF Prepublish, SwapDs, Retire, Fits, FitsDs, TypeOK
<1>3. CASE i = j /\ Prepublish(i)
  <2>1. /\ phase[i] = "steady" /\ phase'[i] = "double"
        /\ since'[i] = 0 /\ gen'[i] = gen[i]
    BY <1>3 DEF Prepublish, TypeOK
  <2> QED BY <1>1, <2>1 DEF Fits, FitsDs
<1>4. CASE i = j /\ SwapDs(i)
  <2>1. /\ phase[i] = "double" /\ phase'[i] = "swapped"
        /\ since[i] > Wait /\ since'[i] = 0 /\ gen'[i] = gen[i]
    BY <1>4 DEF SwapDs, TypeOK
  <2>2. ~(since[i] + r <= Wait)
    BY <1>1, <2>1
  <2> QED BY <1>1, <2>1, <2>2 DEF Fits, FitsDs
<1>5. CASE i = j /\ Retire(i)
  <2>1. /\ phase[i] = "swapped" /\ phase'[i] = "steady"
        /\ since[i] > Wait /\ gen'[i] = gen[i] + 1
    BY <1>5 DEF Retire, TypeOK
  <2>2. ~(since[i] + r <= Wait)
    BY <1>1, <2>1
  <2> QED BY <1>1, <2>1, <2>2 DEF Fits, FitsDs
<1> QED BY <1>2, <1>3, <1>4, <1>5

\* A tick that passes is one less to fit for.
LEMMA TickFits ==
  ASSUME TypeOK, Tick, NEW i \in Level, NEW K, NEW r \in Nat \ {0}
  PROVE  /\ Fits(i, K, r) => Fits(i, K, r - 1)'
         /\ FitsDs(i, K, r) => FitsDs(i, K, r - 1)'
<1>1. /\ since[i] \in Nat /\ Wait \in Nat /\ Wait' = Wait
      /\ OwnKeys(i)' = OwnKeys(i)
  BY ChainAssumption DEF TypeOK, Wait, OwnKeys
<1>2. /\ gen'[i] = gen[i] /\ phase'[i] = phase[i]
      /\ since'[i] \in {since[i], since[i] + 1}
  BY <1>1 DEF Tick, TypeOK
<1>3. since[i] + r <= Wait => since'[i] + (r - 1) <= Wait
  BY <1>1, <1>2
<1> QED BY <1>1, <1>2, <1>3 DEF Fits, FitsDs

\* Keys and signatures that fit the same moment meet, and so do DS records.
LEMMA FitsMeet ==
  ASSUME NEW i \in Level, NEW K, NEW S, NEW D, NEW r, NEW s, NEW t,
         Fits(i, K, r), Fits(i, S, s)
  PROVE  /\ \E k \in S : k \in K
         /\ FitsDs(i, D, t) => \E k \in D : k \in K
  BY DEF Fits, FitsDs

LEMMA SecureVerdict ==
  ASSUME Distinct, NEW i \in Level, NEW rrset, NEW keys,
         rrset.data # {}, ~rrset.expired, rrset.data \cap (Foreign \cup {Alias}) = {},
         rrset.signers \subseteq OwnKeys(i), keys \subseteq OwnKeys(i),
         \E k \in rrset.signers : k \in keys
  PROVE  validate_rrset(rrset, keys) = {"secure"}
<1>1. OwnKeys(i) \subseteq Key /\ OwnKeys(i) \subseteq Known
  BY ChainAssumption DEF Distinct, OwnKeys, Key
<1>2. Attempts(rrset, keys) # {}
  <2>1. PICK k \in rrset.signers : k \in keys
    OBVIOUS
  <2>2. <<k, k>> \in Attempts(rrset, keys)
    BY <1>1, <2>1 DEF Attempts
  <2> QED BY <2>2
<1>3. \A a \in Attempts(rrset, keys) : Verifies(a, rrset)
  BY <1>1 DEF Attempts, Verifies, Covers, Distinct
<1> QED BY <1>2, <1>3 DEF validate_rrset

LEMMA SecureChain ==
  ASSUME Distinct, NEW keys \in SUBSET Key, NEW ds \in SUBSET Key,
         \E k \in ds : k \in keys
  PROVE  validate_dnskey_with_ds(keys, ds) = {"secure"}
<1>1. \A p \in {p \in ds \X keys : Tag[p[1]] = Tag[p[2]]} : p[1] = p[2]
  BY DEF Distinct
<1>2. {p \in ds \X keys : Tag[p[1]] = Tag[p[2]]} # {}
  <2>1. PICK k \in ds : k \in keys
    OBVIOUS
  <2>2. <<k, k>> \in {p \in ds \X keys : Tag[p[1]] = Tag[p[2]]}
    BY <2>1
  <2> QED BY <2>2
<1> QED BY <1>1, <1>2 DEF validate_dnskey_with_ds

\* The levels that Good speaks of.
LEMMA LevelsTyped ==
  ASSUME TypeOK, NEW x \in Name
  PROVE  /\ x.level \in Level
         /\ x.type = "DS" => apex[x.level - 1] \in Level
         /\ apex[Depth] \in Level
  BY NameTyped, ApexTyped, Names

LEMMA PublishedGood ==
  ASSUME TypeOK, NEW x \in Name, NEW r \in Nat
  PROVE  \/ Good(x, Published(x), r)
         \/ Absent(x) /\ Published(x) = Nothing
<1>1. \A i \in Level : Fits(i, KeySet(i), r) /\ FitsDs(i, DsSet(i), r)
  BY PublishedFits
<1>2. CASE x.type = "DNSKEY"
  BY <1>1, <1>2, NameTyped DEF Published, Signed, Good, Absent
<1>3. CASE x.type = "DS"
  <2>1. x.level \in Level /\ apex[x.level - 1] \in Level
    BY <1>3, NameTyped, ApexTyped
  <2> QED BY <1>1, <1>3, <2>1 DEF Published, Signed, Good, Absent
<1>4. CASE x.type = "ANSWER"
  <2>1. x = TheAnswer
    BY <1>4, NameCases DEF Keys, Ds
  <2>2. Published(x) = Signed({Public}, KeySet(apex[Depth]))
    BY <2>1 DEF Published, TheAnswer
  <2>3. apex[Depth] \in Level
    BY ApexTyped, Names
  <2> QED BY <1>1, <1>4, <2>2, <2>3 DEF Signed, Good
<1> QED BY <1>2, <1>3, <1>4, NameTyped

\* What an honest forwarder says fits for a whole walk.
LEMMA HonestFits ==
  ASSUME TypeOK, PastFits, NEW x \in Name, NEW r \in Honest(x)
  PROVE  \/ Good(x, r, WalkTime)
         \/ Absent(x) /\ r = Nothing
<1>1. CASE r = Published(x)
  BY <1>1, PublishedGood, ChainAssumption
<1>2. CASE r \in Cached(x)
  <2>1. PICK c \in past : c.of = x /\ r = c.rrset
    BY <1>2 DEF Cached
  <2>2. Good(x, r, c.left + WalkTime)
    BY <2>1 DEF PastFits
  <2>3. c.left + WalkTime \in Nat /\ WalkTime \in 0..(c.left + WalkTime)
    BY ChainAssumption DEF TypeOK
  <2>4. \A i \in Level : \A K : /\ Fits(i, K, c.left + WalkTime) => Fits(i, K, WalkTime)
                                /\ FitsDs(i, K, c.left + WalkTime) => FitsDs(i, K, WalkTime)
    BY <2>3, FitsLess
  <2> QED BY <2>2, <2>4, LevelsTyped DEF Good
<1> QED BY <1>1, <1>2 DEF Honest

LEMMA ReplacementGood ==
  ASSUME TypeOK, NEW j \in Level, Prepublish(j) \/ SwapDs(j) \/ Retire(j),
         NEW x \in Name, NEW rrset, NEW r \in 0..Wait, Good(x, rrset, r)
  PROVE  Good(x, rrset, r)'
<1>1. \A i \in Level : \A K : /\ Fits(i, K, r) => Fits(i, K, r)'
                              /\ FitsDs(i, K, r) => FitsDs(i, K, r)'
  BY ReplacementFits
<1>2. UNCHANGED <<apex, secured>>
  BY DEF Prepublish, SwapDs, Retire
<1> QED BY <1>1, <1>2, LevelsTyped DEF Good

LEMMA TickGood ==
  ASSUME TypeOK, Tick,
         NEW x \in Name, NEW rrset, NEW r \in Nat \ {0}, Good(x, rrset, r)
  PROVE  Good(x, rrset, r - 1)'
<1>1. \A i \in Level : \A K : /\ Fits(i, K, r) => Fits(i, K, r - 1)'
                              /\ FitsDs(i, K, r) => FitsDs(i, K, r - 1)'
  BY TickFits
<1>2. UNCHANGED <<apex, secured>>
  BY DEF Tick
<1> QED BY <1>1, <1>2, LevelsTyped DEF Good

LEMMA PastFitsStep ==
  ASSUME TypeOK, PastFits, [Next]_vars
  PROVE  PastFits'
<1>1. ASSUME NEW j \in Level, Prepublish(j) \/ SwapDs(j) \/ Retire(j)
      PROVE  PastFits'
  <2>1. Remembered /\ UNCHANGED <<apex, secured>>
    BY <1>1 DEF Prepublish, SwapDs, Retire
  <2>2. ASSUME NEW c \in past'
        PROVE  Good(c.of, c.rrset, c.left + WalkTime)'
    <3>1. CASE c \in past
      <4>1. c.left + WalkTime \in 0..Wait /\ c.of \in Name
        BY <3>1, ChainAssumption DEF TypeOK, Wait
      <4> QED BY <1>1, <3>1, <4>1, ReplacementGood DEF PastFits
    <3>2. CASE c \notin past
      <4>1. PICK x \in Name : /\ Published(x)' # Published(x)
                              /\ c = [of |-> x, rrset |-> Published(x), left |-> TTL]
        BY <2>1, <2>2, <3>2 DEF Remembered
      <4>2. c.of = x /\ c.left + WalkTime = Wait /\ Wait \in 0..Wait /\ Wait \in Nat
        BY <4>1, ChainAssumption DEF Wait
      <4>3. ~Absent(x)
        BY <2>1, <4>1 DEF Published, Nothing, Signed, Absent, Apexes, Cuts
      <4>4. Good(x, c.rrset, Wait)
        BY <4>1, <4>2, <4>3, PublishedGood
      <4> QED BY <1>1, <4>2, <4>4, ReplacementGood
    <3> QED BY <3>1, <3>2
  <2> QED BY <2>2 DEF PastFits
<1>2. CASE Tick
  <2>1. ASSUME NEW c \in past'
        PROVE  Good(c.of, c.rrset, c.left + WalkTime)'
    <3>1. PICK d \in past : d.left > 0 /\ c = [d EXCEPT !.left = @ - 1]
      BY <1>2, <2>1 DEF Tick
    <3>2. /\ c.of = d.of /\ c.rrset = d.rrset /\ d.of \in Name
          /\ d.left \in Nat \ {0} /\ WalkTime \in Nat /\ c.left = d.left - 1
      BY <3>1, ChainAssumption DEF TypeOK
    <3>3. Good(d.of, d.rrset, d.left + WalkTime)
      BY DEF PastFits
    <3>4. PICK r \in Nat \ {0} : r = d.left + WalkTime
      BY <3>2
    <3>5. Good(c.of, c.rrset, r - 1)'
      BY <1>2, <3>2, <3>3, <3>4, TickGood
    <3>6. r - 1 = c.left + WalkTime
      BY <3>2, <3>4
    <3> QED BY <3>5, <3>6
  <2> QED BY <2>1 DEF PastFits
<1>3. CASE UNCHANGED world
  BY <1>3 DEF world, PastFits, Good, Fits, FitsDs, OwnKeys, Wait
<1> QED BY <1>1, <1>2, <1>3
        DEF Next, Environment, Receive, Walk, FetchRootKeys, FetchDs, FetchKeys,
            Deliver, vars

LEMMA PinnedStep ==
  ASSUME TypeOK, RootPinned, [Next]_vars
  PROVE  RootPinned'
<1>0. 0 \in Level
  BY Names
<1>1. ASSUME NEW j \in Level, Prepublish(j) \/ SwapDs(j) \/ Retire(j)
      PROVE  RootPinned'
  BY <1>0, <1>1 DEF Prepublish, SwapDs, Retire, RootPinned, Replacing, TypeOK, Anchors
<1>2. CASE Tick \/ UNCHANGED world
  BY <1>2 DEF Tick, world, RootPinned, Replacing, Anchors
<1> QED BY <1>1, <1>2
        DEF Next, Environment, Receive, Walk, FetchRootKeys, FetchDs, FetchKeys,
            Deliver, vars

LEMMA WalkFitsKept ==
  ASSUME SourceInv, WalkFits, Environment
  PROVE  WalkFits'
<1> USE DEF SourceInv
<1>1. /\ q.level \in Level /\ Depth \in Level
      /\ q.stage = "keys" => q.level + 1 \in Level
      /\ q.left \in 0..WalkTime /\ q.left \in 0..Wait
  <2>1. q.level \in Level /\ q.left \in 0..WalkTime
    BY DEF TypeOK, Query
  <2>2. q.stage = "keys" => q.level < Depth
    BY DEF TypeOK
  <2>3. q.left \in 0..Wait
    BY <2>1, ChainAssumption DEF Wait
  <2> QED BY <2>1, <2>2, <2>3, ChainAssumption DEF Level
<1>2. PICK S, K, D, z : /\ S = q.answer.signers /\ K = q.keys /\ D = q.ds
                        /\ z = apex[Depth]
  OBVIOUS
<1>7. z \in Level /\ UNCHANGED apex
  BY <1>1, <1>2, ApexTyped DEF Environment, Prepublish, SwapDs, Retire, Tick
<1>3. ASSUME NEW j \in Level, Prepublish(j) \/ SwapDs(j) \/ Retire(j)
      PROVE  WalkFits'
  <2>1. PICK n, r : n = q.level /\ r = q.left
    OBVIOUS
  <2>2. q' = q
    BY <1>3 DEF Prepublish, SwapDs, Retire
  <2>3. \A i \in Level : \A X : /\ Fits(i, X, r) => Fits(i, X, r)'
                                /\ FitsDs(i, X, r) => FitsDs(i, X, r)'
    BY <1>1, <1>3, <2>1, ReplacementFits
  <2>4. q.stage \in {"root", "ds", "keys"} => Fits(z, S, r)'
    BY <1>1, <1>2, <1>7, <2>1, <2>3 DEF WalkFits
  <2>5. q.stage \in {"ds", "keys"} => Fits(n, K, r)'
    BY <1>1, <1>2, <1>7, <2>1, <2>3 DEF WalkFits
  <2>6. q.stage = "keys" => FitsDs(n + 1, D, r)'
    BY <1>1, <1>2, <1>7, <2>1, <2>3 DEF WalkFits
  <2> QED BY <1>2, <1>7, <2>1, <2>2, <2>4, <2>5, <2>6 DEF WalkFits, Alias, Public
<1>4. CASE Tick /\ q.stage \in {"root", "ds", "keys"}
  <2>1. PICK n, r : n = q.level /\ r = q.left
    OBVIOUS
  <2>2. r \in Nat \ {0}
    BY <1>1, <1>4, <2>1, ChainAssumption DEF Tick
  <2>3. q' = [q EXCEPT !.left = q.left - 1]
    BY <1>4 DEF Tick
  <2>4. /\ q'.stage = q.stage /\ q'.level = n /\ q'.answer = q.answer
        /\ q'.keys = q.keys /\ q'.ds = q.ds /\ q'.strict = q.strict
        /\ q'.left = r - 1 /\ q'.mixed = q.mixed
    BY <2>1, <2>3 DEF TypeOK, Query
  <2>5. \A i \in Level : \A X : /\ Fits(i, X, r) => Fits(i, X, r - 1)'
                                /\ FitsDs(i, X, r) => FitsDs(i, X, r - 1)'
    BY <1>4, <2>2, TickFits
  <2>6. Fits(z, S, r - 1)'
    BY <1>1, <1>2, <1>4, <1>7, <2>1, <2>5 DEF WalkFits
  <2>7. q.stage \in {"ds", "keys"} => Fits(n, K, r - 1)'
    BY <1>1, <1>2, <2>1, <2>5 DEF WalkFits
  <2>8. q.stage = "keys" => FitsDs(n + 1, D, r - 1)'
    BY <1>1, <1>2, <2>1, <2>5 DEF WalkFits
  <2> QED BY <1>2, <1>4, <1>7, <2>1, <2>4, <2>6, <2>7, <2>8 DEF WalkFits, Alias, Public
<1>5. CASE Tick /\ q.stage \in {"idle", "done"}
  <2>1. q'.stage = q.stage
    BY <1>5 DEF Tick, TypeOK, Query
  <2> QED BY <1>5, <2>1 DEF WalkFits
<1>6. q.stage \in {"idle", "done", "root", "ds", "keys"}
  BY DEF TypeOK, Query
<1> QED BY <1>3, <1>4, <1>5, <1>6 DEF Environment

\* A reply without a fault is an honest forwarder's.
LEMMA NoFault ==
  ASSUME TypeOK, PastFits, NEW x \in Name, NEW reply \in Replies(x), reply.faults = 0
  PROVE  /\ q.faults = 0
         /\ \/ Good(x, reply.rrset, WalkTime)
            \/ Absent(x) /\ reply.rrset = Nothing
<1>1. q.faults \in Nat
  BY ChainAssumption DEF TypeOK, Query
<1>2. reply.rrset \in Honest(x) /\ reply.faults = q.faults
  BY <1>1 DEF Replies
<1> QED BY <1>2, HonestFits

\* A query that no fault has reached is where it should be.
Sound == q.faults = 0 => WalkFits /\ GenuineHolds

LEMMA ReceiveSound ==
  ASSUME Distinct, TimingInv, Receive
  PROVE  Sound'
<1> USE DEF TimingInv, SourceInv
<1>0. q = Idle /\ UNCHANGED world
  BY DEF Receive, Trusts
<1>1. PICK reply \in Replies(TheAnswer), alias \in {{}, {Alias}} :
        \/ LeaveUnchecked(Came(reply, alias))
        \/ BeginWalk(Came(reply, alias))
        \/ CheckSignature(Came(reply, alias))
  BY DEF Receive
<1> DEFINE came == Came(reply, alias)
<1>2. reply.rrset \in RRset /\ reply.faults \in 0..MaxFaults
  BY ReplyTyped, Names
<1>3. /\ came \in Query
      /\ came.strict = FALSE /\ came.left = WalkTime /\ came.faults = reply.faults
      /\ came.mixed = FALSE
      /\ came.answer.data = reply.rrset.data \cup alias
      /\ came.answer.signers = reply.rrset.signers
      /\ came.answer.expired = reply.rrset.expired
  <2>1. q.strict = FALSE /\ q.left = WalkTime /\ q.mixed = FALSE
    BY <1>0 DEF Idle
  <2> QED BY <1>2, <2>1 DEF Came, TypeOK, Query, RRset, Record
<1>4. SUFFICES ASSUME reply.faults = 0
               PROVE  WalkFits' /\ GenuineHolds'
  <2>1. q'.faults = reply.faults
    BY <1>1, <1>3 DEF LeaveUnchecked, BeginWalk, CheckSignature, Query
  <2> QED BY <1>4, <2>1 DEF Sound
<1>5. /\ ~came.answer.expired
      /\ came.answer.data = {Public} \cup alias
      /\ Fits(apex[Depth], came.answer.signers, WalkTime)
  <2>1. Good(TheAnswer, reply.rrset, WalkTime)
    BY <1>4, NoFault, Names DEF TheAnswer, Absent
  <2> QED BY <1>3, <2>1 DEF Good, TheAnswer
<1>6. CASE LeaveUnchecked(came)
  BY <1>3, <1>6 DEF LeaveUnchecked, Query, WalkFits, GenuineHolds
<1>7. CASE BeginWalk(came)
  <2>1. /\ q'.stage = "root" /\ q'.strict = TRUE /\ q'.answer = came.answer
        /\ q'.left = WalkTime /\ q'.mixed = FALSE
    BY <1>3, <1>7 DEF BeginWalk, Query
  <2>2. came.answer.data \ {Alias} = {Public}
    BY <1>5 DEF Alias, Public
  <2>3. PICK S, z : S = came.answer.signers /\ z = apex[Depth]
    OBVIOUS
  <2>4. Fits(z, S, WalkTime)
    BY <1>5, <2>3
  <2>5. Fits(z, S, WalkTime)' /\ apex'[Depth] = z
    BY <1>0, <2>3, <2>4 DEF Fits, OwnKeys, Wait, world
  <2>6. ~q'.answer.expired /\ q'.answer.data \ {Alias} = {Public}
    BY <1>5, <2>1, <2>2
  <2>7. WalkFits'
    BY <2>1, <2>3, <2>5, <2>6 DEF WalkFits, Alias, Public
  <2> QED BY <2>1, <2>7 DEF GenuineHolds
<1>8. CASE CheckSignature(came)
  <2>0. PICK brought \in Honest(Keys(apex[Depth])) :
          \E v \in validate_rrset(came.answer, brought.data) :
            q' = [came EXCEPT !.stage = "done", !.verdict = v]
    BY <1>8 DEF CheckSignature
  <2>1. PICK v \in validate_rrset(came.answer, brought.data) :
            q' = [came EXCEPT !.stage = "done", !.verdict = v]
    BY <2>0
  <2>2. /\ q'.stage = "done" /\ q'.strict = FALSE /\ q'.answer = came.answer
        /\ q'.verdict = v
    BY <1>3, <2>1 DEF Query
  <2>3. ASSUME Alias \notin came.answer.data PROVE v = "secure"
    <3>0. apex[Depth] \in Level /\ apex[Depth] \in Apexes
      BY ApexTyped, Names
    <3>1. Fits(apex[Depth], brought.data, WalkTime)
      BY <3>0, HonestFits, Names DEF Good, Keys, Absent
    <3>2. \E k \in came.answer.signers : k \in brought.data
      BY <1>5, <3>0, <3>1, FitsMeet
    <3>3. /\ came.answer.signers \subseteq OwnKeys(apex[Depth])
          /\ brought.data \subseteq OwnKeys(apex[Depth])
      BY <1>5, <3>1 DEF Fits
    <3>4. came.answer.data # {}
      BY <1>5
    <3>5. came.answer.data \cap (Foreign \cup {Alias}) = {}
      BY <1>5, <2>3, OwnOrForeign
    <3> QED BY <1>5, <2>1, <3>0, <3>2, <3>3, <3>4, <3>5, SecureVerdict
  <2> QED BY <2>2, <2>3 DEF WalkFits, GenuineHolds, Alias
<1> QED BY <1>1, <1>6, <1>7, <1>8

LEMMA FitsNow ==
  ASSUME UNCHANGED world, NEW i, NEW K, NEW r
  PROVE  /\ Fits(i, K, r) => Fits(i, K, r)'
         /\ FitsDs(i, K, r) => FitsDs(i, K, r)'
  BY DEF Fits, FitsDs, OwnKeys, Wait, world

\* What fits for a whole walk fits for the rest of one.
LEMMA FitsOn ==
  ASSUME TypeOK, NEW i \in Level, NEW K
  PROVE  /\ Fits(i, K, WalkTime) => Fits(i, K, q.left)
         /\ FitsDs(i, K, WalkTime) => FitsDs(i, K, q.left)
<1>1. q.left \in 0..WalkTime /\ WalkTime \in Nat
  BY ChainAssumption DEF TypeOK, Query
<1> QED BY <1>1, FitsLess

LEMMA RootSound ==
  ASSUME Distinct, TimingInv, FetchRootKeys
  PROVE  Sound'
<1> USE DEF TimingInv, SourceInv
<1>0. q.stage = "root" /\ UNCHANGED world /\ q.level = 0
  BY DEF FetchRootKeys, Trusts
<1>1. PICK reply \in Replies(Keys(0)) : RootReply(reply)
  BY DEF FetchRootKeys, RootReply
<1>2. PICK v \in validate_root_dnskeys(reply.rrset.data) :
        q' = IF v = "secure"
             THEN [q EXCEPT !.stage = "ds", !.faults = reply.faults,
                            !.keys = reply.rrset.data,
                            !.mixed = Mixes(0, reply.rrset.data)]
             ELSE End("bogus", reply.faults)
  BY <1>1 DEF RootReply
<1>3. SUFFICES ASSUME reply.faults = 0
               PROVE  WalkFits' /\ GenuineHolds'
  <2>1. q'.faults = reply.faults
    BY <1>2 DEF End, TypeOK, Query
  <2> QED BY <1>3, <2>1 DEF Sound
<1>4. PICK K : K = reply.rrset.data
  OBVIOUS
<1>5. q.faults = 0 /\ Fits(0, K, WalkTime)
  BY <1>3, <1>4, NoFault, Names DEF Good, Keys, Absent, Apexes
<1>6. v = "secure"
  <2>1. K \subseteq Key /\ Anchors \subseteq Key
    BY <1>5, ChainAssumption DEF Fits, OwnKeys, Key, Level, Anchors
  <2>2. <<0, gen[0]>> \in Anchors /\ <<0, gen[0]>> \in K
    BY <1>5 DEF RootPinned, Fits
  <2> QED BY <1>2, <1>4, <2>1, <2>2, SecureChain DEF validate_root_dnskeys
<1>7. /\ q'.stage = "ds" /\ q'.level = 0 /\ q'.keys = K /\ q'.left = q.left
      /\ q'.answer = q.answer /\ q'.strict = q.strict /\ ~q'.mixed
  <2>1. ~Mixes(0, K)
    BY <1>5, OwnOrForeign, Names DEF Fits, Mixes
  <2> QED BY <1>0, <1>2, <1>4, <1>6, <2>1 DEF TypeOK, Query
<1>8. PICK S, r, z : S = q.answer.signers /\ r = q.left /\ z = apex[Depth]
  OBVIOUS
<1>9. Fits(0, K, r)' /\ Fits(z, S, r)' /\ apex'[Depth] = z
  <2>1. Fits(0, K, r) /\ Fits(z, S, r)
    BY <1>0, <1>5, <1>8, FitsOn, Names DEF WalkFits
  <2> QED BY <1>0, <1>8, <2>1, FitsNow DEF world
<1>10. q.strict /\ ~q.mixed /\ ~q.answer.expired /\ q.answer.data \ {Alias} = {Public}
  BY <1>0, <1>5 DEF WalkFits
<1>11. WalkFits'
  BY <1>7, <1>8, <1>9, <1>10 DEF WalkFits, Alias, Public
<1> QED BY <1>7, <1>11 DEF GenuineHolds

LEMMA DsSound ==
  ASSUME Distinct, TimingInv, FetchDs
  PROVE  Sound'
<1> USE DEF TimingInv, SourceInv
<1>0. PICK n : n = q.level + 1
  OBVIOUS
<1>1. /\ q.stage = "ds" /\ UNCHANGED world /\ q.level \in Level /\ n \in 1..Depth
      /\ n \in Level /\ n - 1 = q.level /\ Ds(n) \in Name
  <2>1. q.stage = "ds" /\ UNCHANGED world
    BY DEF FetchDs
  <2>2. q.level \in Level /\ q.level < Depth
    BY <2>1 DEF TypeOK, Query
  <2>3. n \in 1..Depth /\ n \in Level /\ n - 1 = q.level
    BY <1>0, <2>2, ChainAssumption DEF Level
  <2> QED BY <2>1, <2>2, <2>3, Names
<1>2. PICK reply \in Replies(Ds(n)) : DsReply(reply)
  BY <1>0 DEF FetchDs, DsReply
<1>3. PICK v \in validate_rrset(reply.rrset, q.keys) :
        q' = IF reply.rrset.data = {} THEN End("insecure", reply.faults)
             ELSE IF v # "secure" THEN End("bogus", reply.faults)
             ELSE [q EXCEPT !.stage = "keys", !.faults = reply.faults,
                            !.ds = reply.rrset.data]
  BY <1>2 DEF DsReply
<1>4. SUFFICES ASSUME reply.faults = 0
               PROVE  WalkFits' /\ GenuineHolds'
  <2>1. q'.faults = reply.faults
    BY <1>3 DEF End, TypeOK, Query
  <2> QED BY <1>4, <2>1 DEF Sound
<1>5. /\ q.faults = 0
      /\ Good(Ds(n), reply.rrset, WalkTime) \/ (n \notin secured /\ reply.rrset = Nothing)
  BY <1>1, <1>4, NoFault DEF Ds, Absent
<1>6. CASE n \notin secured /\ reply.rrset = Nothing
  <2>1. q'.stage = "done" /\ q'.verdict = "insecure" /\ q'.strict = TRUE
    <3>1. reply.rrset.data = {} /\ q.strict
      BY <1>1, <1>5, <1>6 DEF Nothing, Signed, WalkFits
    <3> QED BY <1>3, <3>1 DEF End, TypeOK, Query
  <2>2. secured' # 1..Depth
    BY <1>1, <1>6 DEF world
  <2> QED BY <2>1, <2>2 DEF WalkFits, GenuineHolds
<1>7. CASE Good(Ds(n), reply.rrset, WalkTime)
  <2>1. PICK D, K, S, r, z : /\ D = reply.rrset.data /\ K = q.keys
                             /\ S = q.answer.signers /\ r = q.left
                             /\ z = apex[Depth]
    OBVIOUS
  <2>2. /\ n \in secured /\ ~reply.rrset.expired
        /\ FitsDs(n, D, WalkTime) /\ Fits(q.level, reply.rrset.signers, WalkTime)
    <3>1. apex[q.level] = q.level
      <4>1. q.level = 0 \/ q.level \in 1..q.level
        BY <1>1 DEF Level
      <4>2. Delegated(q.level)
        BY <1>1, <1>5 DEF WalkFits, Trusts, Chained
      <4> QED BY <1>1, <4>1, <4>2, ApexTyped DEF Delegated
    <3> QED BY <1>1, <1>7, <2>1, <3>1 DEF Good, Ds
  <2>3. Fits(q.level, K, r) /\ Fits(z, S, r)
    BY <1>1, <1>5, <2>1 DEF WalkFits
  <2>4. D # {} /\ D \cap (Foreign \cup {Alias}) = {}
    <3>1. <<n, gen[n]>> \in OwnKeys(n)
      BY <1>1 DEF TypeOK, OwnKeys
    <3>2. phase[n] = "swapped" => <<n, gen[n] + 1>> \in OwnKeys(n)
      BY <1>1, ChainAssumption DEF TypeOK, OwnKeys, Replacing
    <3> QED BY <1>1, <2>2, <3>1, <3>2, OwnOrForeign DEF FitsDs
  <2>5. v = "secure"
    <3>1. \E k \in reply.rrset.signers : k \in K
      BY <1>1, <2>2, <2>3, FitsMeet
    <3>2. reply.rrset.signers \subseteq OwnKeys(q.level) /\ K \subseteq OwnKeys(q.level)
      BY <2>2, <2>3 DEF Fits
    <3> QED BY <1>1, <1>3, <2>1, <2>2, <2>4, <3>1, <3>2, SecureVerdict
  <2>6. /\ q'.stage = "keys" /\ q'.level = q.level /\ q'.keys = K /\ q'.ds = D
        /\ q'.left = r /\ q'.answer = q.answer /\ q'.strict = q.strict
        /\ q'.mixed = q.mixed
    BY <1>3, <2>1, <2>4, <2>5 DEF TypeOK, Query
  <2>7. PICK l : l = q.level
    OBVIOUS
  <2>8. /\ Fits(l, K, r)' /\ Fits(z, S, r)' /\ FitsDs(l + 1, D, r)'
        /\ apex'[Depth] = z
    <3>1. FitsDs(n, D, r)
      BY <1>1, <2>1, <2>2, FitsOn
    <3> QED BY <1>0, <1>1, <2>1, <2>3, <2>7, <3>1, FitsNow DEF world
  <2>9. q.strict /\ ~q.mixed /\ ~q.answer.expired /\ q.answer.data \ {Alias} = {Public}
    BY <1>1, <1>5 DEF WalkFits
  <2>10. WalkFits'
    BY <2>1, <2>6, <2>7, <2>8, <2>9 DEF WalkFits, Alias, Public
  <2> QED BY <2>6, <2>10 DEF GenuineHolds
<1> QED BY <1>5, <1>6, <1>7

LEMMA KeysSound ==
  ASSUME Distinct, TimingInv, FetchKeys
  PROVE  Sound'
<1> USE DEF TimingInv, SourceInv
<1>0. PICK n : n = q.level + 1
  OBVIOUS
<1>1. /\ q.stage = "keys" /\ UNCHANGED world /\ q.level \in Level /\ n \in 1..Depth
      /\ n \in Level /\ Keys(n) \in Name
  <2>1. q.stage = "keys" /\ UNCHANGED world
    BY DEF FetchKeys
  <2>2. q.level \in Level /\ q.level < Depth
    BY <2>1 DEF TypeOK, Query
  <2>3. n \in 1..Depth /\ n \in Level
    BY <1>0, <2>2, ChainAssumption DEF Level
  <2> QED BY <2>1, <2>2, <2>3, Names
<1>2. PICK reply \in Replies(Keys(n)) :
        Condemn(reply) \/ Descend(reply) \/ Conclude(reply)
  BY <1>0 DEF FetchKeys
<1>3. SUFFICES ASSUME reply.faults = 0
               PROVE  WalkFits' /\ GenuineHolds'
  <2>1. q'.faults = reply.faults
    BY <1>2 DEF Condemn, Descend, Conclude, End, TypeOK, Query
  <2> QED BY <1>3, <2>1 DEF Sound
<1>4. PICK K, S, r, z : /\ K = reply.rrset.data /\ S = q.answer.signers
                        /\ r = q.left /\ z = apex[Depth]
  OBVIOUS
<1>5. /\ q.faults = 0 /\ Chained
      /\ K = reply.rrset.signers /\ ~reply.rrset.expired
      /\ Fits(n, K, WalkTime)
  <2>1. q.faults = 0
    BY <1>1, <1>3, NoFault
  <2>2. Chained
    BY <1>1, <2>1 DEF WalkFits, Trusts
  <2>3. n \in Apexes
    BY <1>0, <1>1, <2>2, ApexTyped DEF Chained
  <2> QED BY <1>1, <1>3, <1>4, <2>1, <2>2, <2>3, NoFault DEF Good, Keys, Absent
<1>6. /\ q.strict /\ ~q.mixed /\ ~q.answer.expired /\ q.answer.data \ {Alias} = {Public}
      /\ Fits(z, S, r) /\ FitsDs(n, q.ds, r)
  BY <1>0, <1>1, <1>4, <1>5 DEF WalkFits
<1>7. /\ K # {} /\ K \subseteq OwnKeys(n) /\ K \subseteq Key
      /\ K \cap (Foreign \cup {Alias}) = {}
  <2>1. K # {} /\ K \subseteq OwnKeys(n)
    BY <1>5 DEF Fits
  <2> QED BY <1>1, <2>1, OwnOrForeign, KeysTyped
<1>8. ~Condemn(reply)
  <2>1. validate_dnskey_with_ds(K, q.ds) = {"secure"}
    <3>1. \E k \in q.ds : k \in K
      BY <1>1, <1>5, <1>6, FitsMeet
    <3>2. q.ds \in SUBSET Key
      BY <1>0, <1>1, <1>5, KeysTyped DEF Chained
    <3> QED BY <1>7, <3>1, <3>2, SecureChain
  <2>2. validate_rrset(reply.rrset, K) = {"secure"}
    BY <1>1, <1>4, <1>5, <1>7, SecureVerdict
  <2> QED BY <1>4, <1>7, <2>1, <2>2 DEF Condemn, Breaks
<1>9. CASE Descend(reply)
  <2>1. /\ q'.stage = "ds" /\ q'.level = n /\ q'.keys = K /\ q'.left = r
        /\ q'.answer = q.answer /\ q'.strict = q.strict /\ ~q'.mixed
    <3>1. ~Mixes(n, K)
      BY <1>7 DEF Mixes
    <3> QED BY <1>0, <1>1, <1>4, <1>6, <1>9, <3>1 DEF Descend, TypeOK, Query
  <2>2. Fits(n, K, r)' /\ Fits(z, S, r)' /\ apex'[Depth] = z
    <3>1. Fits(n, K, r)
      BY <1>1, <1>4, <1>5, FitsOn
    <3> QED BY <1>1, <1>4, <1>6, <3>1, FitsNow DEF world
  <2>3. WalkFits'
    BY <1>4, <1>6, <2>1, <2>2 DEF WalkFits, Alias, Public
  <2> QED BY <2>1, <2>3 DEF GenuineHolds
<1>10. CASE Conclude(reply)
  <2>1. PICK v \in validate_rrset(q.answer, K) :
          q' = [End(v, reply.faults) EXCEPT !.level = @ + 1,
                  !.mixed = @ \/ Mixes(q.level + 1, K)]
    BY <1>4, <1>10 DEF Conclude
  <2>2. /\ q'.stage = "done" /\ q'.verdict = v /\ q'.answer = q.answer
        /\ q'.strict = TRUE
    BY <1>6, <2>1 DEF End, TypeOK, Query
  <2>3. n = Depth /\ secured' = 1..Depth /\ z = n
    <3>1. n = Depth
      BY <1>0, <1>10 DEF Conclude
    <3>2. Delegated(q.level) /\ n \in secured
      BY <1>0, <1>1, <1>5 DEF Chained
    <3>3. 1..Depth \subseteq secured
      <4>1. \A i \in 1..Depth : i \in 1..q.level \/ i = n
        BY <1>0, <1>1, <3>1, ChainAssumption DEF Level
      <4> QED BY <3>2, <4>1 DEF Delegated
    <3>4. secured = 1..Depth
      BY <3>3 DEF TypeOK, Cuts
    <3> QED BY <1>1, <1>4, <3>1, <3>2, <3>4, ApexTyped DEF world
  <2>4. ASSUME Alias \notin q.answer.data PROVE v = "secure"
    <3>1. \E k \in S : k \in K
      BY <1>1, <1>5, <1>6, <2>3, FitsMeet
    <3>2. S \subseteq OwnKeys(n) /\ q.answer.data # {}
      BY <1>6, <2>3, <2>4 DEF Fits
    <3>3. q.answer.data \cap (Foreign \cup {Alias}) = {}
      BY <1>6, <2>4, OwnOrForeign
    <3> QED BY <1>1, <1>4, <1>6, <1>7, <2>1, <3>1, <3>2, <3>3, SecureVerdict
  <2> QED BY <2>2, <2>3, <2>4 DEF WalkFits, GenuineHolds, Alias
<1> QED BY <1>2, <1>8, <1>9, <1>10

LEMMA TimingStep ==
  ASSUME Distinct, TimingInv, [Next]_vars
  PROVE  TimingInv'
<1> USE DEF TimingInv
<1>1. SourceInv' /\ PastFits' /\ RootPinned'
  BY SourceStep, PastFitsStep, PinnedStep DEF SourceInv
<1>2. Sound'
  <2>1. CASE UNCHANGED vars
    <3>1. UNCHANGED world /\ q' = q
      BY <2>1 DEF vars
    <3> QED BY <3>1 DEF Sound, WalkFits, GenuineHolds, Fits, FitsDs, OwnKeys, Wait,
                        world, Alias, Public
  <2>2. CASE Environment
    <3>1. /\ q'.stage = q.stage /\ q'.verdict = q.verdict /\ q'.answer = q.answer
          /\ q'.strict = q.strict /\ q'.faults = q.faults /\ secured' = secured
      BY <2>2 DEF Environment, Prepublish, SwapDs, Retire, Tick, SourceInv, TypeOK, Query
    <3>2. GenuineHolds'
      BY <3>1 DEF GenuineHolds, Alias
    <3>3. q.faults = 0 => WalkFits'
      BY <2>2, WalkFitsKept
    <3> QED BY <3>1, <3>2, <3>3 DEF Sound
  <2>3. CASE Receive
    BY <2>3, ReceiveSound
  <2>4. CASE Walk
    BY <2>4, RootSound, DsSound, KeysSound DEF Walk
  <2>5. CASE Deliver
    <3>1. q'.stage = "idle"
      BY <2>5 DEF Deliver, Idle
    <3> QED BY <3>1 DEF Sound, WalkFits, GenuineHolds
  <2> QED BY <2>1, <2>2, <2>3, <2>4, <2>5 DEF Next
<1> QED BY <1>1, <1>2 DEF Sound, GenuineHolds

\* While zones replace their keys as Wait asks for and forwarders are honest, no
\* answer of theirs is refused, at every depth and for every time to live.
THEOREM GenuineAnswersHold == Distinct => (Spec => []GenuineHolds)
<1> SUFFICES ASSUME Distinct PROVE Spec => []GenuineHolds
  OBVIOUS
<1>1. Init => TimingInv
  <2> SUFFICES ASSUME Init PROVE TimingInv
    OBVIOUS
  <2>1. q.stage = "idle"
    BY DEF Init, Idle
  <2>2. RootPinned
    BY Names DEF Init, RootPinned, Replacing, Anchors
  <2> QED BY <2>1, <2>2, SourceInit
          DEF Init, TimingInv, PastFits, WalkFits, GenuineHolds
<1>2. TimingInv /\ [Next]_vars => TimingInv'
  BY TimingStep
<1>3. TimingInv => GenuineHolds
  BY DEF TimingInv
<1> QED BY <1>1, <1>2, <1>3, PTL DEF Spec

=============================================================================
