# A verification development for ironbind

ironbind is a DNS server in Rust: authoritative zones, a caching recursive
resolver, zone transfers, DNSSEC, TSIG, DoT and DoH, on plain threads.  This
directory holds TLA+ models of it, the TLC configurations that check them, and
theorems about them that TLAPS checks.  Line numbers are those of the files
under `src/src/`.

## 1. Inventory

| component | source | state it keeps | operations |
|---|---|---|---|
| zone manager | `zone_manager.rs` | `zones`, `zone_files`, `versions`, `history` (32 deltas a zone) | `load_zone`, `reload_all`, `ixfr_chain`, `sign_zone`, `get_zones` |
| zone transfer | `axfr.rs`, `server.rs` 709-755 | none | `axfr_stream`, `ixfr_stream`, `maybe_zone_transfer` |
| reload watcher, signals | `signals.rs`, `server.rs` 137-158 | `RELOAD_SIGNAL`, `last_signed` | `handle_sighup`, `should_reload`, the watcher loop |
| supervisor | `server.rs` 298-318 | the delay of one thread | `run_supervised` |
| thread pools | `threadpool.rs` | a bounded channel, the workers | `submit`, the worker loop |
| rate limiter | `ratelimit.rs` | 64 shards of token buckets, a global window and count | `check_source`, `check_global` |
| query pipeline | `server.rs` 58-116, 249-296, 332-613 | the published zones (shared), a query in progress | `admit`, `handle_query`, defer and resume |
| cache | `cache.rs` | entries with an expiry | `get`, `insert_positive`, `insert_negative`, `evict_expired` |
| metrics | `metrics.rs`, `server.rs` 645-664 | atomic counters | `record_*`, `export_prometheus` |
| listeners | `server.rs` 193-217, 666-704, `dot.rs`, `doh.rs` | sockets | accept, submit to the connection pool, serve |
| resolver | `resolver.rs` | none but constants | `resolve`, `iterative_resolve`, `udp_exchange`, `tcp_exchange` |
| zones | `zone.rs` | records by name and type, NSEC chain | `lookup`, `name_exists`, `nsec_*`, `load_file` |
| DNSSEC validation | `dnssec.rs`, `anchor.rs`, `server.rs` 518-560 | none but the pinned keys | `validate_rrset`, `chain_validate`, `fetch_with_rrsig` |
| zone signing | `zone_signing.rs` | keys | `sign_rrset_with_key` |
| TSIG | `tsig.rs`, `server.rs` 709-789 | keyring | `verify_message`, `sign_message` |
| configuration | `config.rs`, `main.rs` | `ServerConfig` | `load`, `Network::contains` |
| wire format | `proto.rs` | none | `parse`, `serialize` |
| unused | `advanced.rs` | | |

The parts meet in these places.  UDP receivers and connection workers run the
query pipeline; a receiver that needs an upstream lookup hands the query to the
recursion pool, which runs the pipeline again from its start.  The reload
watcher holds the zone manager's write lock while it loads every zone, then
replaces `State.zones`; queries and transfers clone that vector, and an
incremental transfer asks the manager for its history only afterwards.  The
cache, the metrics and the rate limiter are shared by all threads, through a
lock, through atomics one by one, and through sharded locks and two atomics.

What is hard here, and what makes each part correct:

| part | hard behaviour | what must hold |
|---|---|---|
| zone manager, transfer | a reload between the snapshot and the history of one transfer; a bounded history that is lost at a restart; signatures that change under an unchanged serial; a panic half-way through the files | a transfer brings exactly the published zone; a secondary never goes back and does converge; no zone goes out of service; no SIGHUP is lost |
| thread pools, connections | workers that wait for one lock; a queue that is full or becomes free while a job is submitted; clients that stay for ever, are idle or disappear | an accepted job is run once and ends; the pool is a bounded queue served in order |
| supervisor | listeners that fail or panic again and again, receivers that die one by one | every loop comes back, and its backoff stays bounded |
| rate limiter | a clock read before the lock; a table at its limit; three atomic operations that interleave at the edge of a second | a source is never held below its rate; pruning forgets no debt; the global cap is exceeded by a bounded factor only |
| query pipeline, cache, metrics | a query that runs twice, with reloads, expiry and other answers in between; upstream that never answers | answers by what is published; no answer is older than the caps on TTL and validation allow together; each counter is the number of the queries it stands for; receivers never wait |
| resolver | nested calls, referrals, aliases and glue from servers that may say anything; late, lost and truncated replies | it ends; no server has a say outside its zones; what can be resolved is, rightly |
| zones | aliases that form loops; empty names; wildcards; the wrap of the NSEC chain | every query is answered; a negative answer of a signed zone proves itself |
| validation | keys that are replaced while forwarders answer from caches; replies lost, late, from another view or put together from two in the middle of a walk | what is called secure was published by the zones on the way, as long as no key set mixes their keys with others; with honest forwarders nothing genuine is refused |
| transfer stream, TSIG | records that fall on the boundary of two messages; a connection that breaks in between; clocks that differ | a secondary takes a stream for complete exactly when it is; a time is not rejected within the window |

## 2. Plan

Modules in the order of the plan.  Those of steps 1 to 8 are written.

1. `ZoneHistory` (deltas, history and transfer streams as pure operators),
   `ZoneReload` on top of it (manager, watcher, snapshot, secondaries).
2. `JobService` (what a bounded pool promises), `ThreadPool` (the workers; it
   implements `JobService`), `Connections` on top of it (listeners, supervisor,
   connection loops).
3. `RateLimiter`.
4. `QueryPipeline`, which stands on `JobService` and so on what `ThreadPool` is
   shown to implement: receivers, `handle_query`, cache, counters.
5. `Resolver`, whose results `QueryPipeline` takes as outcomes.
6. `ZoneAnswer` and `NameOrder`: the part of `handle_query` that answers from a zone.
7. `ChainOfTrust`: `chain_validate` and the choice in `handle_query` between it,
   `validate_rrset` and no validation.
8. `Delivery` (what a transfer promises a secondary) and `TransferStream`: the
   division of a transfer into messages, and the signatures of request and answer;
   it implements `Delivery`.
9. Left: `ZoneFile`, the part of `load_file` with control (`$ORIGIN`, blank owners,
   parentheses), with zones that signing leaves half signed; the decompression of
   names in `proto.rs` with its bound on pointers; a cap of zero in the rate
   limiter; NSEC3.

Runs: one per question, twelve in all.  Proofs: every safety invariant that a run
checks is the subject of a theorem (section 6).  A `...Proofs` module extends the
module that it is about.

## 3. Modules and code

**`ZoneHistory`.**  `Version`, `Delta` and `Answer` are the zone as a secondary
sees it, `ZoneDelta` and the stream of `axfr.rs`.  `build_delta`, `Remember`,
`ixfr_chain`, `axfr_stream` and `ixfr_stream` are the functions of those names;
`Apply` is what RFC 1995 has a secondary do.  A record is an opaque value with a
`Key` (owner, type, rdata): `build_delta` compares keys, and so overlooks a TTL.
Serials are only compared for equality, in the code as in the model.

**`ZoneReload`.**  `zones`, `zone_files` and `history` are the fields of
`ZoneManager`, `published` is `State.zones`, `reload_signal` the atomic flag.
`watcher = "reloading"` is the time during which the watcher holds the manager's
write lock; `todo` are the files it has still to read.  The steps of the watcher
are the polls, the loads (which succeed, fail or panic), the publication and the
restart by the supervisor.  A transfer is `Ask`, `TakeSnapshot`, `ReadHistory`
and `Install`: the two clones of shared state are two steps.  The operator edits,
breaks and repairs files at any time, in the ways `Failing` allows of each.  Serials
only grow: an operator who sets one back is outside the model.

**`TransferStream`.**  The two ways in which `axfr.rs` cuts a stream are `Pack` (the
loop of `axfr_stream`, which pushes a message before the record that does not fit)
and `chunks` (`ixfr_stream`).  `Serve` is `maybe_zone_transfer` behind the check of
the keyring in `handle_query`: `Refuse`, or `Transfer` with each of the four
answers; `Write` is the loop of `handle_tcp` over the packets.  `ring` is
`State.tsig_keys`, any subset of the keys since `main` goes on without a key that it
cannot load.  The secondary is external: it finds the end by the SOA records alone,
as RFC 5936 and RFC 1995 have it, and checks the key and time of each message when
it has signed its request.  `skew` is the difference of the two clocks; `Tick` lets
a request or an answer be on its way.  `Delivery` is a transfer without messages:
`Request`, `Answer`, `Lose`, `Take` and `End`.  The mapping takes `meant` for the
answer, a connection that is closed or a message that is not accepted for a loss,
and the records of a secondary that is done for what it took.  It is the transfer that
`ZoneReload` takes for granted: `Ask`, the answer, then `Install` or `Cut`.

**`JobService`, `ThreadPool`.**  The promise is a queue, a set of slots, and four
actions.  The implementation has the mutex around the channel's receiver: `Lock`,
`Receive`, `Unlock`, `Finish` are the lines of the worker loop, `SubmitAccepted`
and `SubmitRefused` the outcomes of `try_send`.

**`Connections`.**  `loop` and `delay` are the states of `run_supervised`; a
connection is a job of the pool, submitted by the accept loop of its listener
(`Accept`), which answers what is in its `inbox` one at a time (`Answer`,
`AnswerOnce` for DoH) and ends for want of a query, by an error or a panic
(`EndOfQueries`, `BreakOff`).

**`RateLimiter`.**  `Arrive` reads the clock; `PassUntracked`, `Take` and `Deny`
are the outcomes of `check_source` under the lock of a shard, each with the prune
that may come first.  `ReadWindow`, `Swap`, `Reset` and `Count` are the atomic
operations of `check_global`.  Two ghosts: `fair`, a bucket that nothing is ever
forgotten of, and `passed`, what was let through in this second.

**`QueryPipeline`.**  The stages of a query are the places at which
`handle_query` reads shared state: the zones, the cache, the hand-off, the pool,
upstream, and the cache again.  `mode` is the `Recursion` argument; a deferred
query runs again from its start with `mode = "resume"`.  The traits of a query
say what it is like (a stream connection, not parsable, refused, without RD, and
so on).  An answer has the `rcode` it is sent with, whether that has a counter or is
passed on from another server; the cache keeps NOERROR and NXDOMAIN.  The ghost
`seen` holds what was published since the present run began.

**`Resolver`.**  `stack` is the call stack of `iterative_resolve`: name, servers,
zone and the counters of each call.  `SendTo` begins an exchange; the replies are
actions that differ as the branches of the code do.  Servers are part of the
model: those that work answer from the zones they host, those in `Broken` with any
of `Junk`.  Packets hold sets, so that "the first record" is any record.  `Sound`
are the names that working servers alone have a say in, and `Healthy` those of them
that the limits of the code allow to be reached: `Detour` counts the aliases and
referrals that come after the first alias on the way to a name, `Nesting` the nested
lookups of nameservers.  None of these is known to the resolver; the properties speak
of them.

**`ZoneAnswer`, `NameOrder`.**  `FollowAlias`, `LeaveZone`, `Found`, `NoData` and
`NxDomain` are the loop and the two negative answers of `handle_query`.
`nsec_covering_owner` and `closest_encloser` search by order and by labels as
`zone.rs` does.  The module sees names through `Under` and `Rank`; `NameOrder`
has the labels, and gives `MCZoneAnswer` its order.

**`ChainOfTrust`.**  The zones are those on the path from the root to one name:
level *i* is its ancestor of *i* labels, `apex` says which levels begin a zone and
`secured` which of these have DS records with their parent.  `FetchRootKeys`,
`FetchDs` and `FetchKeys` are the steps of `chain_validate`, one query each;
`validate_rrset`, `validate_dnskey_with_ds` and `validate_root_dnskeys` are the
functions of those names, and `Receive` has the choice of `handle_query` between the
walk, the signature alone and no validation.  The zones
are external: each replaces its key by publishing both, then changing the DS, then
dropping the old one, no sooner than caches have forgotten (`TTL`).  A forwarder
answers from such a cache.  A faulty reply (`Faulty`) is lost, outdated, the RRset of
another view of the zone with keys of its own, records and signatures of both put
together (`Mixed`: a key set with a foreign key beside a genuine one among them), or,
in place of the answer, the records of another name of the zone (`Aside`).  A
signature verifies with its key alone, over what was signed: the zones sign what they
publish one name at a time, another view signs anything (`Covers`).  Two simplifications
remain: a DS record has a digest of a type that the code accepts, and a set has no
duplicates.  The history field `mixed` of a walk records that it took a key set with keys
of both views; nothing in the walk depends on it.

## 4. Runs

| run | checks | bounds, and why they are enough |
|---|---|---|
| `transfer` | `TypeOK`, `AnswerIsExact`, `CopyNeverRegresses`, `SecondaryConverges` | one zone whose file stays readable, one record, four serials, a history of two: the history overflows while a transfer is between its snapshot and its history, and a chain of several deltas is sent; one restart or cut |
| `stream` | `TypeOK`, `CompleteIsWhole`, `EndIsSeen`, `SignaturesHold`, `DeliverySpec` | messages of three records for the 64 of the code, zones and halves of a delta of up to four, up to two deltas: the last SOA, and every other record, comes first and last in a message; every keyring of two keys; clocks one tick apart in either direction, one tick on the way and a window of two, so that it is used up; one cut |
| `reload` | `ZonesStayServed`, `HangUpServed` | two zones, of which one may panic the parser, and one restart: the flag is set in every state of the watcher |
| `pool` | `ConnectionsOK`, `AcceptedInOnePlace`, `ServiceSpec`, `AcceptedJobsEnd`, `LoopsComeBack` | two workers, of which one can be held for ever, a queue of two, three connections to two listeners, two receivers, two faults, delays up to 3: the backoff reaches its cap, and the receivers are lost at different times |
| `ratelimit` | `TypeOK`, `NeverStricter`, `SpentNotForgotten`, `GlobalBounded` | two threads, two sources for a table of one, two ticks a second, two full seconds, five queries: the table is full, pruned, and windows are swapped back |
| `pipeline` | `TypeOK`, `ReloadVisible`, `CountersAddUp`, `AnswersFresh`, `FastPathFlows` | three queries for one name, one receiver, one recursion worker and a queue of one: with three deferred queries one is shed, and one is answered from what another has put into the cache since its miss; with others each ends in a way of its own |
| `resolver` | `TypeOK`, `BrokenServersContained`, `RightOrServFail`, `HealthyDataResolved`, `AlwaysAdvances`, `Terminates` | seven zones: one without glue, one broken, two that name each other's servers; six referrals, nesting of two, two lost exchanges |
| `answer` | `TypeOK`, `NxdomainProved`, `NodataProved`, `Answered` | 13 names of at most two labels, one of them `*`, 384 zones, aliases that form a loop; chains of three |
| `chain` | `TypeOK`, `SecureIsGenuine`, `GenuineHolds` | a name of two labels and so every division into up to three zones, each of which replaces one key; caches that end with the tick, walks of one tick, two faults: a walk meets the old and the new half of a replacement, and a foreign answer together with a key set that holds its key |
| `resign` | `SerialChangeRenewsSignatures` is violated | one signed zone of two serials, signed at three times |
| `nodata` | `HealthyResolved` is violated | the zones of `resolver` |
| `chain_cut` | `SignedZonesValidate` is violated | the zones of `chain`, without caches and faults |

What the passing runs show.  A transfer that is answered from a snapshot and from
a history read later is exact, because `ixfr_stream` compares the end of the chain
with the snapshot.  A signal that comes during a reload is served by the next
one, because the flag is taken before the files are read.  The pool neither loses
nor repeats a job, and connections end although one never does, as long as a
worker is left.  The rate limiter never holds a source below its rate.  At most
2N times the global limit passes in a second when N threads interleave.  A
deferred query is answered by the zones published when it is resumed.  The
resolver ends, whatever broken servers say, and takes their word only for names
in their own zones.  The NSEC records that two searches find prove each negative
answer.  A walk from the root keys that takes its parts from caches of different age
does not refuse what the zones published, and calls nothing secure that they did not,
as long as no key set it was sent has a foreign key beside a genuine one.  Wherever the records of a transfer fall on the boundaries of messages, a
secondary sees the end, and sees it only there, so that a transfer is all or
nothing to it.

What the violations show (`findings` in `PROJECT.json` has the lines):

- `resign`: serial 1 is published with one signature, transferred, and signed again
  under the same serial, which leaves no delta.  Serial 2 is then loaded.  The delta
  from 1 to 2 removes the second signature and adds the third, so that the secondary
  still has the first one beside the third, although the serial has changed and
  `zone_manager.rs` 100 promises the deltas that transform the one serial into the
  other.  The secondary is assumed to skip a deletion of what it does not have; one
  that does not will find the transfer wrong.  `README.md` 254 says of re-signing:
  "so secondaries only pick up new signatures on the next serial change".
- `nodata`: a NODATA reply has a SOA in its authority section, is taken for
  a referral, and becomes SERVFAIL.
- `chain_cut`: the walk takes every label for a zone cut, finds no DS records at a
  name inside a signed zone and calls it insecure, although the comment at
  `dnssec.rs` 188 speaks of zone cuts.

Further observations made while modelling, for which there is no run:

- The connection pool has a queue as long as the number of workers, so that a
  connection that comes while every worker is busy waits (`server.rs` 170); the
  comments at `server.rs` 208, `dot.rs` 47 and `doh.rs` 48 say that it is closed.
- More than twice the global limit may pass in a second: the window is swapped and
  the count is reset in two steps (`ratelimit.rs` 70; the comment at line 66 says
  2x).  `GlobalBounded` is the bound that does hold.
- A query that is deferred and finds the cache filled when it is resumed has been
  counted as a miss and is counted as a hit (`server.rs` 483 and 502), so that
  hits and misses together exceed the queries that were looked up.  `CountersAddUp`
  counts it in both.
- A SERVFAIL that another server said is passed on as the answer (`resolver.rs` 317,
  `server.rs` 580) and is in no rcode counter, while `metrics.rs` 26 speaks of
  "SERVFAIL responses (RCODE 2)" and `README.md` 215 of "SERVFAIL".  `CountersAddUp`
  says of `servfail_count` that it is the number of SERVFAILs of this server alone.
  An answer with another rcode comes as NOERROR once it is in the cache
  (`server.rs` 569 and 482), and is counted as success there.
- A receiver that panics outside a query is not replaced until all of them have
  stopped (`server.rs` 246; line 219 says "restarted in place if they ever stop").
- A wildcard is never expanded; the proof sent with NXDOMAIN then shows that it
  should have been.  A chain of more than eight aliases ends in a NODATA answer
  without a valid proof (`server.rs` 393).  `NxdomainProved` and `NodataProved`
  except these two.
- An answer that was cached for a client without DO is given to one with DO,
  unvalidated (`server.rs` 481); `build_query` does not set DO, so that upstream
  seldom sends what validation needs (`resolver.rs` 337).
- A server's REFUSED or SERVFAIL is taken for the answer (`resolver.rs` 316), and
  the aliases that were followed are not part of it (`resolver.rs` 226).
- A transfer is answered from the first zone that contains the name, in the order of
  a hash map; `server.rs` 381 says for queries "The most specific zone wins".  With a
  zone nested in another the secondary may so be given the parent.
- A line that panics the parser in one file leaves the new versions of all other
  zones unpublished (`server.rs` 150), although they are loaded.
- An empty reply stands for a lost one in `fetch_with_rrsig` (`resolver.rs` 122): an
  unanswered query for DS records makes an answer insecure rather than bogus.
- Of two keys with one key tag the first decides, though the other may verify (`dnssec.rs` 107 and 155).
- Records that were reached through an alias are validated as one RRset with the
  alias, which no signature covers (`server.rs` 523).
- Of a root key set only a pinned key is looked for, not its signature (`dnssec.rs`
  180), and other key sets may be signed by any key among them (`dnssec.rs` 219).  A
  set that has a foreign key beside a genuine one is therefore taken, and what the
  foreign key signed can become secure.  `SecureIsGenuine` excepts such walks and
  claims the rest.
- The owner names of answer records are not compared with the question (`server.rs`
  523): the signed records of another name of the zone become secure.
  `SecureIsGenuine` says of the records that the zone published them, not for which name.
- Answers are signed only with a key of the fixed name `transfer-key.`
  (`server.rs` 749), while the comment at 747 says "TSIG-sign every outgoing packet
  when the request itself was signed"; the MAC of the request is not part of what is
  signed, as RFC 8945 has it.  A key that cannot be loaded leaves the keyring empty
  and transfers unsigned (`main.rs` 118; `README.md` 185 says "With a TSIG key
  configured, transfers must be signed").
- The length of a message is cut to 16 bits (`server.rs` 691).  A transfer of a zone
  without a SOA record is answered by silence.
- The history of deltas is kept in memory; `README.md` 17 calls it on-disk.
- Zone files: a line `NS` or `DS` without TTL and class is read as a TTL, an owner
  named like a type or class is misread, `$ORIGIN` overwrites the origin of the
  zone, and a TTL may overflow in `parse_ttl`.  Names are written without the
  compression that the comment at `Builder` in `proto.rs` announces, and a label with
  a dot in it is read as two.

## 5. Fairness

No liveness property rests on the goodwill of a client, an upstream server or an
operator, except where the property is about them (a secondary that keeps
polling).

- Reload and transfer: the watcher polls every second and takes every step it can (WF).  Timer
  and signals are not fair.  A connection worker goes on with a transfer (WF);
  reading the history waits for the manager's lock, which reloads take again and
  again, so this step is strongly fair: the lock is free for a second between two
  reloads, and the kernel wakes those who wait.
- Pool and connections: one of the workers gets a free mutex, and each goes on
  with what it holds (WF); a read ends within `tcp_timeout_ms`, so that a worker
  with nothing to read ends the connection.  A bind that can succeed does so at
  last: failures are bounded by `MaxFaults`.
- Pipeline: only the receivers are fair.  Lookups may never return, and the
  property holds all the same.
- Resolver: WF on the next step; each exchange ends by its timeout.  A datagram
  that is ignored is no step.  Answering from a zone: the thread runs on (WF).

## 6. Proofs

TLAPS checks these for every value of the constants, from the named assumptions
beside the CONSTANTS of each module.  TLC has checked each invariant first.

| module | theorem | argument |
|---|---|---|
| `ZoneReloadProofs` | `ChainIsExact` | one more delta removes and adds its records (`AppliedRangeStep`); the first position at which the result were wrong contradicts that (`LeastNat` stands in for induction) |
| | `TypeCorrect` | each action keeps the types; `Trim` keeps a history within its cap |
| | `CopiesOnlyAdvance` | for zones of which none lies within another (`NoNesting`): no serial is ahead of the place it came from, from the files through the manager, the published zones and a snapshot to the copy (`SerialInv`) |
| | `TransfersAreExact` | for such zones, when `Key` tells records apart and none is signed at load: whatever has a serial is what the operator wrote as that serial, and a delta is the difference of two such (`ContentInv`); then `ChainIsExact` |
| | `ServedForGood` | what is published is loaded, and only a restart unloads (`StaysLoaded`) |
| `ThreadPoolProofs` | `NoJobLost`, `PoolImplementsService`, `ConnectionsAreServed` | the invariant adds to the type that a worker holds the mutex exactly while it receives, and holds a job exactly afterwards; each step of the pool, and of the connections above it, is a step of `JobService` or stutters |
| | `ConnectionsStayTyped` | loops and backoffs keep within their bounds (`Around`) whatever the pool does; a step that puts a query in an inbox, or leaves one there, needs an accepted connection, and what it adds it takes from the budget (`QueriesOK`).  Clients in `Endless` have none, and of the number of answers it says nothing |
| `RateLimiterProofs` | `TableBounded`, `RateHonoured`, `PruneForgetsNothing` | no bucket is ahead of the clock, nor are the times that threads have read; then `fair` never exceeds what a bucket holds when it is refilled now |
| | `GlobalCapBounded` | a potential: each reset of the count allows one more limit, and a thread can bring about at most two in a second, one that it was about to make and one by putting a late window in place (`Resets`); what passed, what is left and what those resets allow never grow together |
| `QueryPipelineProofs` | `QueueBounded`, `ReloadsAreVisible` | what the zones say now is in `seen` of every run in progress, and a run beyond the zones has seen that none holds its name |
| | `CountersAgree` | a counter is the cardinality of a set of queries, and a step that lets one query into the set adds one to it (`KeepsPace`): a query is received once, and its end puts it into the sets of its rcode and source for good (`CountedFinish`); a miss puts it among those that are past the cache, where one that is resumed is already (`CountedMiss`) |
| | `AnswersStayFresh` | an entry expires no later than the cap on TTL after it was put in, which is at most the time of validation after it was asked for (`AgeOK`) |
| `ResolverProofs` | `TypeCorrect`, `BrokenServersAreContained` | a call that may listen to a broken server is in a zone without sound names (`Safe`), and a nested call is for a working nameserver unless it is made for such a zone (`Calls`).  Servers that work tell the truth (`HonestIsTrue`), and delegations keep both (`DelegationIsSafe`) |
| | `RightOrServFailHolds` | the call at the bottom of the stack has the name that the aliases of the question lead to so far, and is in a zone that its servers are loaded with (`Right`); what such a server answers to that name is `Truth`, since `Canonical` is the same all along the aliases |
| | `HealthyDataIsResolved` | a budget for each call (`Going`): the referrals and aliases made, and those still to come by the assumption, stay below `MaxReferrals`; a zone on the way has glue, or a nameserver not tried yet whose own lookup nests less deep; a server that was asked for the name has no zone as deep as the one ahead (`Tried`), so that the set of visited servers stops no walk that can go on |
| | `ResolutionAdvances`, `ResolutionIsFinite` | a measure with two places for each depth of nesting (`Remaining`): the referrals a call has left outweigh the servers and nameservers it may try in its zone, and a call pays for the calls it makes.  Each step lowers it in the lexicographic order of these places (`Advance`), which is well-founded, since packets and so names and addresses are finite (`FiniteAssumption`) |
| `ChainOfTrustProofs` | `TypeCorrect`, `SecureAnswersAreGenuine` | what a walk has come to trust are keys of the public zone at its level, to which unbroken delegations lead (`Trusts`), since a signature by such a key covers only what that zone published (`PastGenuine` for caches).  Whatever is put together from two views, a key set that is taken without a foreign key is the zone's own, and one with a foreign key has a genuine one beside it, so that the walk is `mixed` (`OwnOrMixed`) and nothing more is claimed.  No assumption on key tags |
| | `GenuineAnswersHold` | when keys have tags of their own and public zones use known algorithms (`Distinct`): what a walk holds goes with all that is published until the walk ends (`WalkFits`), because what a cache holds does for as long as it may be kept and a walk longer (`PastFits`), and a replacement waits for both |
| `TransferStreamProofs` | `MessagesStayTyped` | both ways of cutting fill no message beyond `MaxRRs` and push none that is empty (`AxfrSliced`, `ChunksSliced`) |
| | `CompleteStreamIsWhole`, `EndOfStreamIsSeen` | what the secondary has, what is on the wire and what is still to be written are together the answer that is meant (`Flow`); the rule by which the secondary finds the end holds of the whole answer and of no shorter part of it (`EndsAtLast`), since the SOA records of increments come in pairs and the last one alone |
| | `SignaturesAreTaken` | a message is no older than `age` says, and with the skew that is within the window (`Trusted`) |
| | `TransferIsAtomic` | writing, the clock and most reads are invisible to `Delivery`; the read that completes the stream is its `Take` by `Flow`, one that is not accepted its `Lose`, and a secondary gives up without a loss only if nothing was answered (`EndSeen`, `Outcome`) |
| `ZoneAnswerProofs` | `TypeCorrect`, `NxdomainIsProved`, `NodataIsProved` | between an owner and the next one there is no other; a name that covers an existing descendant would be an ancestor of the next owner |
| | `CanonicalOrderFits` | two names are ordered at the first label in which they differ, counted from the root; whatever lies between a name and one below it shares all labels of the former.  Finite sets of names have ranks by counting what is before |

The assumptions are those that the code or DNS itself gives: positive sizes,
distinct sentinels, names that form a tree in which canonical order puts a name
before what is below it (`OrderAssumption`, which is what `CanonicalOrderFits` proves
of `canonical_order`, for all labels).  The resolver's say what its environment is, nothing of the code:

- `TreeAssumption`: names form a tree.  A name is below another or the reverse, not both.
- `SoundAssumption`: sound names are served by working servers with sound names,
  which says who is trusted.  It is enough for `BrokenServersAreContained`.
- `ServedAssumption`, for `RightOrServFailHolds`: no delegation towards a sound name is
  lame.  The code needs it, since it takes a REFUSED reply for the answer
  (`resolver.rs` 316): a lame server would make it return neither truth nor SERVFAIL.
- `HealthyAssumption`, for `HealthyDataIsResolved`, spells out what "within the limits"
  means for the names in `Healthy`.  With `Healthy` empty it asks nothing but a root
  server; in `MCResolver` four names have it, one of them behind an alias and
  three behind a zone without glue.

Induction over data is out of the provers' reach, and no theorem here needs it:
where a fold or a function over the positions of a sequence would call for it, the
least position at which the claim fails contradicts the step before (`LeastNat`, `UpTo`,
`Iterates`).

Only model-checked, because they need fairness, which the provers do not handle:
`SecondaryConverges`, `HangUpServed`, `AcceptedJobsEnd`, `LoopsComeBack`,
`FastPathFlows`, `Terminates` and `Answered`.  Of `Terminates`, `ResolutionIsFinite`
leaves only that a step that can be taken is taken.  No module uses a RECURSIVE operator.

## 7. Not modelled

Parsing and serialising of packets (`proto.rs`), of the configuration
(`config.rs`) and of zone files are functions over bytes; signatures, digests and
message authentication (`dnssec.rs`, `zone_signing.rs`, `tsig.rs`) are
cryptography and appear only as outcomes: a signature verifies with the key that made
it.  `$ORIGIN` and NSEC3 are in the plan.  `advanced.rs` is called from nowhere.  The
metrics listener and the eviction thread have no state but the counters and the
cache, which `QueryPipeline` has.
