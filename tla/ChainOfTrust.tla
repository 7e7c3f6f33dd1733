---------------------------- MODULE ChainOfTrust ----------------------------
(***************************************************************************)
(* DNSSEC validation of an answer from upstream: the choice handle_query    *)
(* makes between no validation, the signature alone and the walk from the   *)
(* pinned root keys (chain_validate), while the zones on the way replace    *)
(* their keys and forwarders answer from caches.                            *)
(*                                                                         *)
(* The zones are those of the ancestors of one name: level 0 is the root,   *)
(* level Depth the name asked for, and some levels in between are zones of  *)
(* their own.  An RRset arrives as some server published it, or put         *)
(* together from what servers of two views published; a signature verifies  *)
(* with the key that made it and with no other, over what its zone signed.  *)
(* Every signature was made in the past, so that only its expiry is of      *)
(* interest.                                                                *)
(***************************************************************************)
EXTENDS Naturals

CONSTANTS
  Depth,      \* labels of the name asked for
  MaxGen,     \* bound: keys a zone has one after the other
  Tag,        \* Tag[k]: key tag and algorithm of key k
  Known,      \* keys of an algorithm that verify_signature supports
  TTL,        \* ticks that a forwarder may keep an RRset
  WalkTime,   \* bound: ticks that pass during a walk
  MaxFaults   \* bound: lost, late and foreign replies during a walk

Level == 0..Depth

\* The keys that the zone at level i has had or will have.
OwnKeys(i) == {<<i, g>> : g \in 1..MaxGen}

\* The key of a zone of the same name in another view: a private copy of the
\* zone inside a network, that no parent outside knows of.
PrivateKey(i) == <<i, 0>>

Key == Level \X (0..MaxGen)

\* root_anchors(): the KSKs of 2017 and of 2024.
Anchors == {<<0, 1>>, <<0, 2>>}

ASSUME ChainAssumption ==
  /\ Depth \in Nat \ {0}
  /\ MaxGen \in Nat /\ MaxGen >= 2
  /\ DOMAIN Tag = Key
  /\ Known \subseteq Key
  /\ TTL \in Nat
  /\ WalkTime \in Nat
  /\ MaxFaults \in Nat

VARIABLES
  apex,      \* apex[i]: level of the zone that the name at level i is in
  secured,   \* zones of which the parent publishes a DS RRset
  gen,       \* gen[i]: the key in use at level i
  phase,     \* phase[i]: how far its replacement is
  since,     \* ticks since the last step of a replacement
  past,      \* replaced RRsets that caches may still hold
  q          \* the query being validated

world == <<apex, secured, gen, phase, since, past>>
vars == <<world, q>>

-----------------------------------------------------------------------------
(* RRsets.                                                                  *)

\* What is asked for: the keys and the DS records of a level, and the answer.
Keys(i) == [type |-> "DNSKEY", level |-> i]
Ds(i) == [type |-> "DS", level |-> i]
TheAnswer == [type |-> "ANSWER", level |-> Depth]

Name == {Keys(i) : i \in Level} \cup {Ds(i) : i \in 1..Depth} \cup {TheAnswer}

\* Records of the answer: those of the public zone, for the name asked for and
\* for another one, and those of another view.  Through an alias the answer has
\* records of several names; handle_query takes them all for one RRset, which
\* no signature of the public zone covers.
Public == <<Depth + 1, 1>>
Neighbour == <<Depth + 1, 3>>
Alias == <<Depth + 1, 2>>
Other == <<Depth + 1, 0>>

Record == Key \cup {Public, Neighbour, Alias, Other}

\* What no public zone publishes, nor signs.
Foreign == {PrivateKey(i) : i \in Level} \cup {Other}

RRset == [data : SUBSET Record, signers : SUBSET Key, expired : BOOLEAN]

Signed(data, signers) ==
  [data |-> data, signers |-> signers, expired |-> FALSE]

Nothing == Signed({}, {})

\* A zone is all levels from where it begins to where the next one does.
Zoning == {f \in [Level -> Level] :
             \A i \in Level : f[i] <= i /\ \A j \in f[i]..i : f[j] = f[i]}

\* The names at which a zone begins.
Cuts == {i \in 1..Depth : apex[i] = i}

\* The names at which there are keys.
Apexes == {0} \cup Cuts

\* While a key is replaced the zone publishes both and signs with both.
KeySet(i) ==
  {<<i, g>> : g \in IF phase[i] = "steady" THEN {gen[i]}
                                           ELSE {gen[i], gen[i] + 1}}

DsSet(i) == {<<i, IF phase[i] = "swapped" THEN gen[i] + 1 ELSE gen[i]>>}

Published(x) ==
  CASE x.type = "DNSKEY" /\ x.level \in Apexes ->
         Signed(KeySet(x.level), KeySet(x.level))
    [] x.type = "ANSWER" -> Signed({Public}, KeySet(apex[x.level]))
    [] x.type = "DS" /\ x.level \in secured ->
         Signed(DsSet(x.level), KeySet(apex[x.level - 1]))
    [] OTHER -> Nothing

Private(x) ==
  CASE x.type = "DNSKEY" -> Signed({PrivateKey(x.level)}, {PrivateKey(x.level)})
    [] x.type = "ANSWER" -> Signed({Other}, {PrivateKey(x.level)})
    [] OTHER -> Signed({PrivateKey(x.level)}, {PrivateKey(x.level - 1)})

\* What was published with a key that was in use once, too old for a cache.
UsedKeys(i) == {<<i, g>> : g \in 1..gen[i]}

OldKey(i) == {{k} : k \in UsedKeys(i)}

Old(data, signers) == [data : data, signers : signers, expired : BOOLEAN]

Outdated(x) ==
  CASE x.type = "DNSKEY" /\ x.level \in Apexes ->
         UNION {Old({k}, {k}) : k \in OldKey(x.level)}
    [] x.type = "ANSWER" -> Old({{Public}}, OldKey(apex[x.level]))
    [] x.type = "DS" /\ x.level \in secured ->
         Old(OldKey(x.level), OldKey(apex[x.level - 1]))
    [] OTHER -> {}

Cached(x) == {c.rrset : c \in {d \in past : d.of = x}}

\* What the first forwarder that answers at all may say.
Honest(x) == {Published(x)} \cup Cached(x)

\* The other view's reply, or one put together from both: it may have signed
\* what the public zone published, and published what that never signed.
Mixed(x) ==
  UNION {{Signed(data, signers) :
            data \in {r.data, r.data \cup Private(x).data},
            signers \in {Private(x).signers, r.signers \cup Private(x).signers}} :
         r \in {Nothing} \cup Honest(x) \cup Outdated(x)}

\* The records of another name, for an answer: no owner name is looked at.
Aside(x) ==
  {[r EXCEPT !.data = {Neighbour}] :
     r \in IF x = TheAnswer THEN Honest(x) \cup Outdated(x) ELSE {}}

\* All forwarders fail or refuse, or one answers from somewhere else.
Faulty(x) == {Nothing} \cup Outdated(x) \cup Mixed(x) \cup Aside(x)

-----------------------------------------------------------------------------
(* dnssec.rs: the verdict on one RRset.  The records come in any order, so  *)
(* that "the first" is any.                                                 *)

\* MUTANT of Attempts: signatures are good for ever.
AttemptsLate(rrset, keys) ==
  {a \in rrset.signers \X keys : Tag[a[1]] = Tag[a[2]] /\ a[2] \in Known}

\* Signatures that are not skipped, each with the key that is found for it.
\* A key of an unknown algorithm is an error, and that signature is skipped.
Attempts(rrset, keys) ==
  {a \in rrset.signers \X keys :
     ~rrset.expired /\ Tag[a[1]] = Tag[a[2]] /\ a[2] \in Known}

\* The zones sign what they publish, one name at a time; another view signs
\* anything.
Covers(key, data) == key \in Foreign \/ data \cap (Foreign \cup {Alias}) = {}

Verifies(a, rrset) == a[1] = a[2] /\ Covers(a[1], rrset.data)

\* MUTANT of validate_rrset: a signature without its key is an error.
validate_rrset_all(rrset, keys) ==
  IF rrset.data = {} \/ rrset.signers = {} \/ keys = {} THEN {"insecure"}
  ELSE {IF a \in keys /\ Verifies(<<a, a>>, rrset) THEN "secure" ELSE "bogus" :
          a \in rrset.signers}

\* The first attempt decides.
validate_rrset(rrset, keys) ==
  IF rrset.data = {} \/ rrset.signers = {} \/ keys = {} THEN {"insecure"}
  ELSE IF Attempts(rrset, keys) = {} THEN {"bogus"}
  ELSE {IF Verifies(a, rrset) THEN "secure" ELSE "bogus" :
          a \in Attempts(rrset, keys)}

\* The first DS record and key with the same tag decide.
validate_dnskey_with_ds(keys, ds) ==
  LET Pairs == {p \in ds \X keys : Tag[p[1]] = Tag[p[2]]} IN
  IF Pairs = {} THEN {"insecure"}
  ELSE {IF p[1] = p[2] THEN "secure" ELSE "bogus" : p \in Pairs}

validate_root_dnskeys(keys) == validate_dnskey_with_ds(keys, Anchors)

-----------------------------------------------------------------------------
(* The zones and the caches (external).                                     *)

Replacing(i) == phase[i] # "steady"

\* A step of a replacement waits until no cache holds what the step before it
\* replaced, and no walk relies on that.
Wait == TTL + WalkTime

\* What is published anew leaves its predecessor in caches.
Remembered ==
  past' = past \cup {[of |-> x, rrset |-> Published(x), left |-> TTL] :
                       x \in {y \in Name : Published(y)' # Published(y)}}

\* The next key is published beside the one in use; both sign.  The root
\* takes only keys that were announced, and a zone only keys that are known.
Prepublish(i) ==
  /\ i \in Apexes
  /\ phase[i] = "steady"
  /\ gen[i] < MaxGen
  /\ i = 0 => <<i, gen[i] + 1>> \in Anchors
  /\ phase' = [phase EXCEPT ![i] = "double"]
  /\ since' = [since EXCEPT ![i] = 0]
  /\ UNCHANGED <<apex, secured, gen, q>>
  /\ Remembered

\* The parent replaces the DS record (the root has none).
SwapDs(i) ==
  /\ phase[i] = "double"
  /\ since[i] > Wait
  /\ phase' = [phase EXCEPT ![i] = "swapped"]
  /\ since' = [since EXCEPT ![i] = 0]
  /\ UNCHANGED <<apex, secured, gen, q>>
  /\ Remembered

\* The old key and its signatures are withdrawn.
Retire(i) ==
  /\ phase[i] = "swapped"
  /\ since[i] > Wait
  /\ gen' = [gen EXCEPT ![i] = @ + 1]
  /\ phase' = [phase EXCEPT ![i] = "steady"]
  /\ since' = [since EXCEPT ![i] = 0]
  /\ UNCHANGED <<apex, secured, q>>
  /\ Remembered

\* A walk has so many fetches, each of which ends by its timeouts.
Tick ==
  /\ q.stage \in {"idle", "done"} \/ q.left > 0
  /\ since' = [i \in Level |-> IF Replacing(i) /\ since[i] <= Wait
                               THEN since[i] + 1 ELSE since[i]]
  /\ past' = {[c EXCEPT !.left = @ - 1] : c \in {d \in past : d.left > 0}}
  /\ q' = [q EXCEPT !.left = IF q.stage \in {"idle", "done"} THEN @ ELSE @ - 1]
  /\ UNCHANGED <<apex, secured, gen, phase>>

-----------------------------------------------------------------------------
(* The query.                                                               *)

\* mixed is history: whether the walk has taken a key set with a foreign key
\* beside one of the zone's own.
Idle == [stage |-> "idle", level |-> 0, strict |-> FALSE, answer |-> Nothing,
         keys |-> {}, ds |-> {}, verdict |-> "none", faults |-> 0,
         left |-> WalkTime, mixed |-> FALSE]

Query == [stage : {"idle", "root", "ds", "keys", "done"}, level : Level,
          strict : BOOLEAN, answer : RRset, keys : SUBSET Record,
          ds : SUBSET Record,
          verdict : {"none", "unchecked", "secure", "insecure", "bogus"},
          faults : 0..MaxFaults, left : 0..WalkTime, mixed : BOOLEAN]

Mixes(i, keys) == keys \cap Foreign # {} /\ keys \cap OwnKeys(i) # {}

\* What may come back when x is asked for; faults counts the replies that do
\* not come from an honest forwarder.
Replies(x) ==
  {[rrset |-> r, faults |-> q.faults] : r \in Honest(x)} \cup
  {[rrset |-> r, faults |-> q.faults + 1] :
     r \in IF q.faults < MaxFaults THEN Faulty(x) ELSE {}}

\* Only if the client set DO, and signatures and keys came with the answer, is
\* it validated: by the walk in strict mode, or else with the keys it brought.
LeaveUnchecked(came) ==
  q' = [came EXCEPT !.stage = "done", !.verdict = "unchecked"]

BeginWalk(came) ==
  q' = [came EXCEPT !.stage = "root", !.strict = TRUE]

CheckSignature(came) ==
  \E brought \in Honest(Keys(apex[Depth])) :
  \E v \in validate_rrset(came.answer, brought.data) :
    q' = [came EXCEPT !.stage = "done", !.verdict = v]

\* An answer has come from upstream, maybe through an alias.  (A foreign reply
\* with records that no signature of the zone covers is one of Mixed.)
Came(reply, alias) ==
  [q EXCEPT !.answer = [reply.rrset EXCEPT !.data = @ \cup alias],
            !.faults = reply.faults]

Receive ==
  /\ q.stage = "idle"
  /\ \E reply \in Replies(TheAnswer), alias \in {{}, {Alias}} :
       /\ reply.rrset # Nothing
       /\ reply.faults = 0 \/ alias = {}
       /\ \/ LeaveUnchecked(Came(reply, alias))
          \/ /\ reply.rrset.signers # {}
             /\ BeginWalk(Came(reply, alias)) \/ CheckSignature(Came(reply, alias))
  /\ UNCHANGED world

\* chain_validate returns, and what it fetched is dropped.
End(verdict, faults) ==
  [q EXCEPT !.stage = "done", !.verdict = verdict, !.faults = faults,
            !.keys = {}, !.ds = {}]

\* The root's keys must hold a pinned one.
FetchRootKeys ==
  /\ q.stage = "root"
  /\ \E reply \in Replies(Keys(0)) :
       LET keys == reply.rrset.data IN
       \E v \in validate_root_dnskeys(keys) :
         q' = IF v = "secure"
              THEN [q EXCEPT !.stage = "ds", !.faults = reply.faults,
                             !.keys = keys, !.mixed = Mixes(0, keys)]
              ELSE End("bogus", reply.faults)
  /\ UNCHANGED world

\* The DS records of the next level, which the parent's keys must have signed;
\* if there are none the rest is insecure.
FetchDs ==
  /\ q.stage = "ds"
  /\ \E reply \in Replies(Ds(q.level + 1)) :
       LET ds == reply.rrset.data IN
       \E v \in validate_rrset(reply.rrset, q.keys) :
         q' = IF ds = {} THEN End("insecure", reply.faults)
              ELSE IF v # "secure" THEN End("bogus", reply.faults)
              ELSE [q EXCEPT !.stage = "keys", !.faults = reply.faults, !.ds = ds]
  /\ UNCHANGED world

\* The keys of the next level, of which the DS records must name one and which
\* must sign themselves.  Those of the last level decide on the answer.
Chains(keys) ==
  /\ "secure" \in validate_dnskey_with_ds(keys.data, q.ds)
  /\ "secure" \in validate_rrset(keys, keys.data)

Breaks(keys) ==
  \/ keys.data = {}
  \/ validate_dnskey_with_ds(keys.data, q.ds) # {"secure"}
  \/ validate_rrset(keys, keys.data) # {"secure"}

Condemn(reply) ==
  /\ Breaks(reply.rrset)
  /\ q' = End("bogus", reply.faults)

\* MUTANT of Descend: the walk does not stop at the owner.
DescendPastOwner(reply) ==
  /\ Chains(reply.rrset)
  /\ q' = [q EXCEPT !.faults = reply.faults, !.ds = {}, !.level = @ + 1,
                    !.keys = reply.rrset.data, !.stage = "ds",
                    !.mixed = @ \/ Mixes(q.level + 1, reply.rrset.data)]

Descend(reply) ==
  /\ Chains(reply.rrset)
  /\ q.level + 1 < Depth
  /\ q' = [q EXCEPT !.faults = reply.faults, !.ds = {}, !.level = @ + 1,
                    !.keys = reply.rrset.data, !.stage = "ds",
                    !.mixed = @ \/ Mixes(q.level + 1, reply.rrset.data)]

Conclude(reply) ==
  /\ Chains(reply.rrset)
  /\ q.level + 1 = Depth
  /\ \E v \in validate_rrset(q.answer, reply.rrset.data) :
       q' = [End(v, reply.faults) EXCEPT !.level = @ + 1,
               !.mixed = @ \/ Mixes(q.level + 1, reply.rrset.data)]

FetchKeys ==
  /\ q.stage = "keys"
  /\ \E reply \in Replies(Keys(q.level + 1)) :
       Condemn(reply) \/ Descend(reply) \/ Conclude(reply)
  /\ UNCHANGED world

\* The client has its answer, or SERVFAIL if the verdict is bogus.
Deliver ==
  /\ q.stage = "done"
  /\ q' = Idle
  /\ UNCHANGED world

-----------------------------------------------------------------------------
Init ==
  /\ apex \in Zoning
  /\ secured \in SUBSET Cuts
  /\ gen = [i \in Level |-> 1]
  /\ phase = [i \in Level |-> "steady"]
  /\ since = [i \in Level |-> 0]
  /\ past = {}
  /\ q = Idle

Environment ==
  \/ \E i \in Level : Prepublish(i) \/ SwapDs(i) \/ Retire(i)
  \/ Tick

Walk == FetchRootKeys \/ FetchDs \/ FetchKeys

Next == Environment \/ Receive \/ Walk \/ Deliver

Spec == Init /\ [][Next]_vars

-----------------------------------------------------------------------------
(* Properties.                                                              *)

TypeOK ==
  /\ apex \in Zoning
  /\ secured \subseteq Cuts
  /\ gen \in [Level -> 1..MaxGen]
  /\ phase \in [Level -> {"steady", "double", "swapped"}]
  /\ \A i \in Level : Replacing(i) => gen[i] < MaxGen
  /\ since \in [Level -> 0..(Wait + 1)]
  /\ past \subseteq [of : Name, rrset : RRset, left : 0..TTL]
  /\ q \in Query
  /\ q.stage # "done" => q.level < Depth

\* An answer that chain_validate calls secure was published by the zone that
\* the delegations from the pinned keys lead to, under a signature that still
\* runs, whichever RRsets of whatever views forwarders sent or put together:
\* unless a key set had a foreign key beside a genuine one.  Of a root key set
\* the code looks at no signature, and of the others at one by any key in them,
\* so that such a set is taken and nothing is claimed of what it signs; a key
\* set without a genuine key never is.  Nor is it claimed that the records are
\* those of the name asked for, since no owner name is compared.
SecureIsGenuine ==
  q.verdict = "secure" /\ q.strict /\ ~q.mixed
    => /\ secured = 1..Depth
       /\ q.answer.data \in {{Public}, {Neighbour}}
       /\ q.answer.signers \cap OwnKeys(Depth) # {}
       /\ ~q.answer.expired

\* While every zone replaces its keys with due patience, and forwarders are
\* honest, the walk never refuses what is genuine: it takes each key set, each
\* DS record and each signature from another moment, and they fit all the same.
GenuineHolds ==
  q.stage = "done" /\ q.faults = 0 /\ Alias \notin q.answer.data
    => q.verdict \in {"unchecked",
                      IF q.strict /\ secured # 1..Depth THEN "insecure" ELSE "secure"}

\* "Walk down from root to owner, validating DS @ parent then DNSKEY @ child at
\* each zone cut", says dnssec.rs of chain_validate: an answer from a zone that
\* signed delegations lead to is not insecure.
SignedZonesValidate ==
  q.verdict = "insecure" => secured # Cuts
=============================================================================
