----------------------------- MODULE ZoneHistory -----------------------------
(***************************************************************************)
(* The pure part of zone transfer: how ZoneManager::load_zone turns two     *)
(* loaded versions of a zone into a delta, how the bounded history answers  *)
(* an IXFR, and which response axfr.rs builds from a snapshot and a chain.  *)
(*                                                                         *)
(* A record is an opaque value.  Two records that differ only in their TTL  *)
(* have the same Key: (owner name, type, rdata) is what build_delta hashes. *)
(* A version of a zone is its SOA serial and its records other than the     *)
(* SOA; only equality of serials is ever tested, so the 32-bit width does   *)
(* not matter.                                                             *)
(***************************************************************************)
EXTENDS Integers, Sequences

CONSTANTS
  Rec,         \* the records a zone may hold, its SOA aside
  Key,         \* Key[r]: owner name, type and rdata of record r
  HistoryCap   \* deltas retained per zone (32 in the code)

ASSUME HistoryAssumption ==
  /\ HistoryCap \in Nat \ {0}
  /\ DOMAIN Key = Rec

\* The serial of a zone without a SOA record, and of no zone at all.
NoSoa == -1
Absent == -2

Version == [serial : Int, recs : SUBSET Rec]
Unloaded == [serial |-> Absent, recs |-> {}]

Delta == [from : Int, to : Int, removed : SUBSET Rec, added : SUBSET Rec]

-----------------------------------------------------------------------------
(* zone_manager.rs *)

\* The records of S none of which is in T, compared by name, type and rdata.
Missing(S, T) == {r \in S : \A q \in T : Key[q] # Key[r]}

build_delta(old, new) ==
  [from    |-> old.serial,
   to      |-> new.serial,
   removed |-> Missing(old.recs, new.recs),
   added   |-> Missing(new.recs, old.recs)]

\* Only a change of serial between two versions with a SOA is remembered.
Recorded(old, new) ==
  /\ old.serial >= 0
  /\ new.serial >= 0
  /\ old.serial # new.serial

\* MUTANT of Trim: the oldest delta is never dropped.
TrimNothing(h) == h

Trim(h) == IF Len(h) > HistoryCap THEN Tail(h) ELSE h

\* The history after version "old" was replaced by version "new".
Remember(h, old, new) ==
  IF Recorded(old, new) THEN Trim(Append(h, build_delta(old, new))) ELSE h

Starts(h, serial) == {i \in DOMAIN h : h[i].from = serial}

\* The deltas from "serial" to the end of the history; <<>> stands for None.
ixfr_chain(h, serial) ==
  IF Starts(h, serial) = {}
  THEN <<>>
  ELSE LET start == CHOOSE i \in Starts(h, serial) :
                      \A j \in Starts(h, serial) : i <= j
       IN  IF \A k \in (start + 1)..Len(h) : h[k].from = h[k - 1].to
           THEN SubSeq(h, start, Len(h))
           ELSE <<>>

-----------------------------------------------------------------------------
(* axfr.rs *)

AnswerKind == {"none", "empty", "uptodate", "deltas", "full"}

Answer == [kind : AnswerKind, serial : Int, recs : SUBSET Rec,
           deltas : Seq(Delta)]

NoAnswer == [kind |-> "none", serial |-> Absent, recs |-> {}, deltas |-> <<>>]

\* MUTANT of axfr_stream: a zone without a SOA is sent all the same.
axfr_stream_any(zone) ==
  [kind |-> "full", serial |-> zone.serial, recs |-> zone.recs,
   deltas |-> <<>>]

\* A zone without a SOA produces an empty stream.
axfr_stream(zone) ==
  [kind   |-> IF zone.serial < 0 THEN "empty" ELSE "full",
   serial |-> zone.serial,
   recs   |-> zone.recs,
   deltas |-> <<>>]

\* MUTANT of ixfr_stream: the end of the chain is not compared with the zone.
ixfr_stream_unchecked(zone, serial, chain) ==
  IF zone.serial < 0 \/ chain = <<>>
  THEN axfr_stream(zone)
  ELSE [kind |-> "deltas", serial |-> zone.serial, recs |-> {},
        deltas |-> chain]

\* MUTANT of ixfr_stream: no chain is taken for "nothing has changed".
ixfr_stream_lazy(zone, serial, chain) ==
  IF chain = <<>>
  THEN [kind |-> "uptodate", serial |-> serial, recs |-> {}, deltas |-> <<>>]
  ELSE ixfr_stream_unchecked(zone, serial, chain)

\* Up to date, the deltas when they end at the snapshot, or the whole zone.
ixfr_stream(zone, serial, chain) ==
  IF zone.serial >= 0 /\ zone.serial = serial
  THEN [kind |-> "uptodate", serial |-> serial, recs |-> {}, deltas |-> <<>>]
  ELSE IF /\ zone.serial >= 0
          /\ chain # <<>>
          /\ chain[Len(chain)].to = zone.serial
       THEN [kind |-> "deltas", serial |-> zone.serial, recs |-> {},
             deltas |-> chain]
       ELSE axfr_stream(zone)

-----------------------------------------------------------------------------
(* The secondary, which is not part of this repository: RFC 1995 clients    *)
(* delete and add the records of each delta in turn.                        *)

\* Record r is in no removal of deltas i+1 .. j of ds.
KeptThrough(r, ds, i, j) ==
  \A k \in (i + 1)..j : \A q \in ds[k].removed : Key[q] # Key[r]

\* "base" after the deltas i .. j of ds, one after the other.
AppliedRange(base, ds, i, j) ==
  {r \in base : KeptThrough(r, ds, i - 1, j)} \cup
  {r \in Rec : \E k \in i..j : r \in ds[k].added /\ KeptThrough(r, ds, k, j)}

Apply(copy, answer) ==
  CASE answer.kind = "full"   -> [serial |-> answer.serial, recs |-> answer.recs]
    [] answer.kind = "deltas" ->
         [serial |-> answer.serial,
          recs   |-> AppliedRange(copy.recs, answer.deltas, 1,
                                  Len(answer.deltas))]
    [] OTHER                  -> copy
=============================================================================
