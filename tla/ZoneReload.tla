----------------------------- MODULE ZoneReload -----------------------------
(***************************************************************************)
(* Hot reload and zone transfer: the zone manager, the reload watcher       *)
(* thread that SIGHUP and the daily re-signing wake, the snapshot of zones  *)
(* the receivers answer from, and secondaries that transfer a zone while    *)
(* the watcher replaces it.                                                 *)
(*                                                                         *)
(* The write lock on the manager is held from the moment the watcher wakes  *)
(* until it publishes or panics: watcher = "reloading".  A transfer clones  *)
(* state.zones first and asks the manager for its history afterwards, so a  *)
(* whole reload fits between the two.                                       *)
(***************************************************************************)
EXTENDS ZoneHistory

CONSTANTS
  Origins,     \* origins of the configured zone files
  Within,      \* Within[z]: origins of the zones that contain name z (z too)
  Rank,        \* Rank[z]: position of z in the published vector
  Clients,     \* secondaries
  Follows,     \* Follows[c]: the origin that secondary c transfers
  Signed,      \* origins with a zone-signing key in the key directory
  Sigs,        \* records that signing may add, one per signing time
  Failing,     \* Failing[z]: how the file of z may come to fail
  MaxSerial,   \* bound: versions the operator writes of a zone
  MaxFaults    \* bound: cut transfers and server restarts

ASSUME ReloadAssumption ==
  /\ Within \in [Origins -> SUBSET Origins]
  /\ \A z \in Origins : z \in Within[z]
  /\ Rank \in [Origins -> Nat]
  /\ \A y, z \in Origins : Rank[y] = Rank[z] => y = z
  /\ Follows \in [Clients -> Origins]
  /\ Signed \subseteq Origins
  /\ Failing \in [Origins -> SUBSET {"unreadable", "malformed"}]
  /\ Sigs \subseteq Rec
  /\ MaxSerial \in Nat
  /\ MaxFaults \in Nat

VARIABLES
  disk,           \* the zone files
  edition,        \* edition[z][s]: what the operator wrote as serial s
  zones,          \* ZoneManager.zones
  zone_files,     \* keys of ZoneManager.zone_files
  history,        \* ZoneManager.history
  published,      \* State.zones
  reload_signal,  \* RELOAD_SIGNAL
  watcher,        \* what the reload watcher is doing
  todo,           \* zones reload_all has still to load
  xfer,           \* a transfer in progress, per secondary
  copy,           \* the version each secondary holds
  faults          \* faults so far

manager == <<zones, zone_files, history>>
thread == <<reload_signal, watcher, todo>>
vars == <<disk, edition, manager, published, thread, xfer, copy, faults>>

Files == [kind : {"zone", "unreadable", "malformed"}, ver : Version]

Idle(c) == [stage |-> "idle", kind |-> "AXFR", serial |-> Absent,
            zone |-> Follows[c], snap |-> Unloaded, answer |-> NoAnswer]

Transfers == [stage : {"idle", "asked", "snapshot", "answered"},
              kind : {"AXFR", "IXFR"}, serial : Int, zone : Origins,
              snap : Version, answer : Answer]

TypeOK ==
  /\ disk \in [Origins -> Files]
  /\ edition \in [Origins -> Seq(SUBSET Rec)]
  /\ zones \in [Origins -> Version]
  /\ zone_files \subseteq Origins
  /\ history \in [Origins -> Seq(Delta)]
  /\ \A z \in Origins : Len(history[z]) <= HistoryCap
  /\ published \in [Origins -> Version]
  /\ reload_signal \in BOOLEAN
  /\ watcher \in {"sleeping", "reloading", "backoff"}
  /\ todo \subseteq Origins
  /\ xfer \in [Clients -> Transfers]
  /\ copy \in [Clients -> Version]
  /\ faults \in Nat

Plain == Rec \ Sigs

-----------------------------------------------------------------------------
(* Loading: Zone::load_file, and sign_zone when the zone has a key.         *)

\* sign_zone adds records that depend on the time of signing, or fails: it is
\* then logged, and the zone is kept as it is.
sign_zone(ver) ==
  {[ver EXCEPT !.recs = @ \cup S] : S \in {{}} \cup {{g} : g \in Sigs}}

\* What loading version ver of z may produce.
Loaded(z, ver) == IF z \in Signed THEN sign_zone(ver) ELSE {ver}

\* The configured zones as main() loads them: a file that cannot be read
\* leaves its origin out of the manager.
Startups ==
  LET Outcome(z) == IF disk[z].kind = "zone" THEN Loaded(z, disk[z].ver)
                                            ELSE {Unloaded}
  IN  {f \in [Origins -> UNION {Outcome(z) : z \in Origins}] :
         \A z \in Origins : f[z] \in Outcome(z)}

Tracked(f) == {z \in Origins : f[z] # Unloaded}

Init ==
  /\ edition \in [Origins -> {<<R>> : R \in SUBSET Plain}]
  /\ \E Missed \in SUBSET {z \in Origins : "unreadable" \in Failing[z]} :
       disk = [z \in Origins |->
                 [kind |-> IF z \in Missed THEN "unreadable" ELSE "zone",
                  ver  |-> [serial |-> 1, recs |-> edition[z][1]]]]
  /\ zones \in Startups
  /\ zone_files = Tracked(zones)
  /\ history = [z \in Origins |-> <<>>]
  /\ published = zones
  /\ reload_signal = FALSE
  /\ watcher = "sleeping"
  /\ todo = {}
  /\ xfer = [c \in Clients |-> Idle(c)]
  /\ copy = [c \in Clients |-> Unloaded]
  /\ faults = 0

-----------------------------------------------------------------------------
(* The operator and the operating system (external).                        *)

\* A new version is written with the next serial.
Edit(z) ==
  /\ Len(edition[z]) < MaxSerial
  /\ \E R \in SUBSET Plain :
       /\ edition' = [edition EXCEPT ![z] = Append(@, R)]
       /\ disk' = [disk EXCEPT ![z] =
                     [kind |-> "zone",
                      ver  |-> [serial |-> Len(edition[z]) + 1, recs |-> R]]]
  /\ UNCHANGED <<manager, published, thread, xfer, copy, faults>>

\* The SOA record is lost from the file.
DropSoa(z) ==
  /\ disk[z].ver.serial # NoSoa
  /\ disk' = [disk EXCEPT ![z].ver.serial = NoSoa]
  /\ UNCHANGED <<edition, manager, published, thread, xfer, copy, faults>>

\* The file cannot be read, or gets a line that panics the parser.
Break(z) ==
  /\ disk[z].kind = "zone"
  /\ \E k \in Failing[z] : disk' = [disk EXCEPT ![z].kind = k]
  /\ UNCHANGED <<edition, manager, published, thread, xfer, copy, faults>>

Repair(z) ==
  /\ disk[z].kind # "zone"
  /\ disk' = [disk EXCEPT ![z].kind = "zone"]
  /\ UNCHANGED <<edition, manager, published, thread, xfer, copy, faults>>

handle_sighup ==
  /\ ~reload_signal
  /\ reload_signal' = TRUE
  /\ UNCHANGED <<disk, edition, manager, published, watcher, todo, xfer, copy,
                 faults>>

\* The server stops and is started again: only the files survive.  A file
\* that panics the parser keeps it from starting.
Restart ==
  /\ faults < MaxFaults
  /\ \A z \in Origins : disk[z].kind # "malformed"
  /\ zones' \in Startups
  /\ zone_files' = Tracked(zones')
  /\ history' = [z \in Origins |-> <<>>]
  /\ published' = zones'
  /\ reload_signal' = FALSE
  /\ watcher' = "sleeping"
  /\ todo' = {}
  /\ xfer' = [c \in Clients |-> Idle(c)]
  /\ faults' = faults + 1
  /\ UNCHANGED <<disk, edition, copy>>

-----------------------------------------------------------------------------
(* The reload watcher.                                                      *)

StartReload ==
  /\ watcher' = "reloading"
  /\ todo' = zone_files
  /\ UNCHANGED <<disk, edition, manager, published, xfer, copy, faults>>

\* should_reload(): the flag is taken before anything is read.
WakeOnSignal ==
  /\ watcher = "sleeping"
  /\ reload_signal
  /\ reload_signal' = FALSE
  /\ StartReload

\* A day has passed since the last reload; no signal was found.
WakeOnTimer ==
  /\ watcher = "sleeping"
  /\ ~reload_signal
  /\ StartReload
  /\ UNCHANGED reload_signal

LoadOk(z) ==
  /\ watcher = "reloading"
  /\ z \in todo
  /\ disk[z].kind = "zone"
  /\ todo' = todo \ {z}
  /\ \E new \in Loaded(z, disk[z].ver) :
       /\ history' = [history EXCEPT ![z] = Remember(@, zones[z], new)]
       /\ zones' = [zones EXCEPT ![z] = new]
  /\ UNCHANGED <<disk, edition, zone_files, published, reload_signal, watcher,
                 xfer, copy, faults>>

\* MUTANT of LoadErr: the zone that failed to load is dropped.
LoadErrDropsZone(z) ==
  /\ watcher = "reloading"
  /\ z \in todo
  /\ disk[z].kind = "unreadable"
  /\ todo' = todo \ {z}
  /\ zones' = [zones EXCEPT ![z] = Unloaded]
  /\ UNCHANGED <<disk, edition, zone_files, history, published, reload_signal,
                 watcher, xfer, copy, faults>>

\* The file cannot be read: the old version stays.
LoadErr(z) ==
  /\ watcher = "reloading"
  /\ z \in todo
  /\ disk[z].kind = "unreadable"
  /\ todo' = todo \ {z}
  /\ UNCHANGED <<disk, edition, manager, published, reload_signal, watcher,
                 xfer, copy, faults>>

\* The parser panics: the watcher unwinds to its supervisor, releasing the
\* lock, with some zones loaded and nothing published.
LoadPanic(z) ==
  /\ watcher = "reloading"
  /\ z \in todo
  /\ disk[z].kind = "malformed"
  /\ watcher' = "backoff"
  /\ todo' = {}
  /\ UNCHANGED <<disk, edition, manager, published, reload_signal, xfer, copy,
                 faults>>

\* The supervisor starts the loop again after its delay.
Respawn ==
  /\ watcher = "backoff"
  /\ watcher' = "sleeping"
  /\ UNCHANGED <<disk, edition, manager, published, reload_signal, todo, xfer,
                 copy, faults>>

\* MUTANT of Publish: the flag is cleared when the reload is complete.
PublishClearingFlag ==
  /\ watcher = "reloading"
  /\ todo = {}
  /\ watcher' = "sleeping"
  /\ reload_signal' = FALSE
  /\ published' = zones
  /\ UNCHANGED <<disk, edition, manager, todo, xfer, copy, faults>>

Publish ==
  /\ watcher = "reloading"
  /\ todo = {}
  /\ watcher' = "sleeping"
  /\ published' = IF Tracked(zones) = {} THEN published ELSE zones
  /\ UNCHANGED <<disk, edition, manager, reload_signal, todo, xfer, copy,
                 faults>>

-----------------------------------------------------------------------------
(* Transfers.                                                               *)

\* A secondary (external) asks for the zone, incrementally if it has one.
Ask(c) ==
  /\ xfer[c].stage = "idle"
  /\ \E k \in {"AXFR"} \cup (IF copy[c].serial >= 0 THEN {"IXFR"} ELSE {}) :
       xfer' = [xfer EXCEPT ![c] = [Idle(c) EXCEPT !.stage = "asked", !.kind = k,
                                                  !.serial = copy[c].serial]]
  /\ UNCHANGED <<disk, edition, manager, published, thread, copy, faults>>

\* The published zones authoritative for name q, and the one found first.
Authoritative(q) == {z \in Within[q] : published[z] # Unloaded}
FirstZone(q) ==
  CHOOSE z \in Authoritative(q) :
    \A y \in Authoritative(q) : Rank[z] <= Rank[y]

\* maybe_zone_transfer up to the clone of state.zones; an AXFR needs no more.
TakeSnapshot(c) ==
  /\ xfer[c].stage = "asked"
  /\ xfer' = [xfer EXCEPT ![c] =
       LET first == FirstZone(Follows[c])
           found == [xfer[c] EXCEPT !.zone = first, !.snap = published[first]]
       IN  CASE Authoritative(Follows[c]) = {} -> Idle(c)
             [] Authoritative(Follows[c]) # {} /\ xfer[c].kind = "AXFR" ->
                  [found EXCEPT !.stage  = "answered",
                                !.answer = axfr_stream(published[first])]
             [] OTHER -> [found EXCEPT !.stage = "snapshot"]]
  /\ UNCHANGED <<disk, edition, manager, published, thread, copy, faults>>

\* The rest of an IXFR: the history is read under the manager's read lock,
\* for the name asked, and the stream is built from the earlier snapshot.
ReadHistory(c) ==
  /\ xfer[c].stage = "snapshot"
  /\ watcher # "reloading"
  /\ LET x == xfer[c]
         chain == ixfr_chain(history[Follows[c]], x.serial)
     IN  xfer' = [xfer EXCEPT ![c].stage  = "answered",
                              ![c].answer = ixfr_stream(x.snap, x.serial, chain)]
  /\ UNCHANGED <<disk, edition, manager, published, thread, copy, faults>>

\* The secondary (external) installs what it received.
Install(c) ==
  /\ xfer[c].stage = "answered"
  /\ copy' = [copy EXCEPT ![c] = Apply(@, xfer[c].answer)]
  /\ xfer' = [xfer EXCEPT ![c] = Idle(c)]
  /\ UNCHANGED <<disk, edition, manager, published, thread, faults>>

\* The connection is lost before the answer is complete.
Cut(c) ==
  /\ faults < MaxFaults
  /\ xfer[c].stage # "idle"
  /\ xfer' = [xfer EXCEPT ![c] = Idle(c)]
  /\ faults' = faults + 1
  /\ UNCHANGED <<disk, edition, manager, published, thread, copy>>

-----------------------------------------------------------------------------
Watcher ==
  \/ WakeOnSignal
  \/ WakeOnTimer
  \/ \E z \in Origins : LoadOk(z) \/ LoadErr(z) \/ LoadPanic(z)
  \/ Publish
  \/ Respawn

Next ==
  \/ \E z \in Origins : Edit(z) \/ DropSoa(z) \/ Break(z) \/ Repair(z)
  \/ handle_sighup
  \/ Restart
  \/ Watcher
  \/ \E c \in Clients : Ask(c) \/ TakeSnapshot(c) \/ ReadHistory(c)
                          \/ Install(c) \/ Cut(c)

Spec == Init /\ [][Next]_vars

\* The watcher polls every second, and a thread that holds no lock another
\* waits for runs on.  The daily timer and the signals may never come.
WatcherFairness ==
  /\ WF_vars(WakeOnSignal)
  /\ WF_vars(\E z \in Origins : LoadOk(z) \/ LoadErr(z) \/ LoadPanic(z))
  /\ WF_vars(Publish)
  /\ WF_vars(Respawn)

\* A connection worker runs until it has answered; a secondary refreshes
\* from time to time.  A reload makes ReadHistory wait, but not forever.
TransferFairness ==
  \A c \in Clients :
    /\ WF_vars(Ask(c))
    /\ WF_vars(TakeSnapshot(c))
    /\ SF_vars(ReadHistory(c))
    /\ WF_vars(Install(c))

FairSpec == Spec /\ WatcherFairness /\ TransferFairness

-----------------------------------------------------------------------------
(* Properties.                                                              *)

Answered(c) == xfer[c].stage = "answered" /\ xfer[c].answer.kind # "empty"

\* A finished transfer leaves the secondary with exactly the version that was
\* published when the server took its snapshot, although the history was read
\* later, possibly after another reload (maybe_zone_transfer, ixfr_stream).
AnswerIsExact ==
  \A c \in Clients :
    Answered(c) => Apply(copy[c], xfer[c].answer) = xfer[c].snap

\* Deltas that take away the signatures of each version they replace leave the
\* secondary with those of one signing.  README.md grants that re-signing keeps the
\* serial, "so secondaries only pick up new signatures on the next serial change", and
\* ixfr_chain promises the deltas that transform the serial a secondary holds into the
\* current one: with the new serial the old signatures are gone.  What a re-signing
\* does once the new serial is loaded is no matter here.
SerialChangeRenewsSignatures ==
  \A c \in Clients :
    LET sent == xfer[c].answer
    IN  (/\ sent.kind = "deltas"
         /\ \A i \in DOMAIN sent.deltas : sent.deltas[i].removed \cap Sigs # {})
          => \A g, h \in Apply(copy[c], sent).recs \cap Sigs : g = h

\* A secondary never goes back to an older version of the zone, whatever
\* reloads and cut transfers come in between.
CopyNeverRegresses ==
  [][\A c \in Clients : copy'[c].serial >= copy[c].serial]_copy

\* Once a zone is served no reload takes it out of service: a file that has
\* become unreadable, or that panics the parser, leaves the last version.
ZonesStayServed ==
  [][ faults' = faults =>
      \A z \in Origins : published[z] # Unloaded => published'[z] # Unloaded
    ]_published

DiskAt(z, s) == disk[z].kind = "zone" /\ disk[z].ver.serial = s
SomeMalformed == \E z \in Origins : disk[z].kind = "malformed"

\* A SIGHUP publishes each tracked file as it was when the signal came, unless
\* it is edited again first, the server restarts, or a file panics the parser.
HangUpServed ==
  \A z \in Origins : \A s \in 1..MaxSerial :
    (reload_signal /\ DiskAt(z, s) /\ z \in zone_files)
      ~> (published[z].serial = s \/ ~DiskAt(z, s) \/ SomeMalformed
          \/ z \notin zone_files)

\* A secondary that keeps refreshing holds the published version again and
\* again, whatever history the server has kept or lost.
SecondaryConverges ==
  \A c \in Clients :
    []<>(copy[c] = published[Follows[c]] \/ published[Follows[c]].serial < 0)
=============================================================================
