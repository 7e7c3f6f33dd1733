-------------------------- MODULE ZoneReloadProofs --------------------------
(***************************************************************************)
(* Facts about the operators of ZoneHistory, for every set of records, and  *)
(* theorems about ZoneReload for any number of zones, secondaries, records, *)
(* versions and faults.                                                    *)
(***************************************************************************)
EXTENDS ZoneReload, FiniteSetTheorems, TLAPS

-----------------------------------------------------------------------------
(* Facts about the operators of ZoneHistory.                                *)


\* Two records of the zone have the same name, type and rdata only if they
\* are the same record: no edit changes nothing but a TTL.
DistinctKeys == \A r, q \in Rec : Key[r] = Key[q] => r = q

\* A non-empty set of naturals has a least element.
LEMMA LeastNat ==
  ASSUME NEW S, S \subseteq Nat, S # {}
  PROVE  \E m \in S : \A n \in S : m <= n
<1> DEFINE Initial == {0..n : n \in S}
           R == StrictSubsetOrdering(Nat)
<1>1. Initial \subseteq FiniteSubsetsOf(Nat)
  <2>1. \A n \in S : IsFiniteSet(0..n)
    BY FS_Interval
  <2> QED BY <2>1 DEF FiniteSubsetsOf
<1>2. IsWellFoundedOn(R, FiniteSubsetsOf(Nat))
  BY FS_StrictSubsetOrderingWellFounded
<1>3. Initial # {}
  OBVIOUS
<1>4. PICK x \in Initial : \A y \in Initial : ~(<<y, x>> \in R)
  <2> HIDE DEF Initial, R
  <2> QED BY <1>1, <1>2, <1>3, WFMin, Zenon
<1>5. PICK m \in S : x = 0..m
  OBVIOUS
<1>6. ASSUME NEW n \in S, n < m
      PROVE  FALSE
  <2>1. 0..n \in Initial /\ 0..n \subseteq 0..m /\ 0..n # 0..m
    BY <1>6
  <2>2. <<0..n, 0..m>> \in R
    BY <2>1, <1>1, <1>5 DEF StrictSubsetOrdering, FiniteSubsetsOf
  <2> QED BY <1>4, <1>5, <2>1, <2>2
<1> QED BY <1>6

\* With distinct keys build_delta is the plain set difference.
LEMMA MissingIsDifference ==
  ASSUME DistinctKeys, NEW S \in SUBSET Rec, NEW T \in SUBSET Rec
  PROVE  Missing(S, T) = S \ T
BY DEF Missing, DistinctKeys

LEMMA BuildDeltaType ==
  ASSUME NEW old \in Version, NEW new \in Version
  PROVE  build_delta(old, new) \in Delta
BY DEF build_delta, Missing, Version, Delta

\* Remember keeps the history within its cap, and every delta in it was there
\* before or is the one of this change of serial.
LEMMA RememberType ==
  ASSUME NEW h \in Seq(Delta), Len(h) <= HistoryCap,
         NEW old \in Version, NEW new \in Version
  PROVE  /\ Remember(h, old, new) \in Seq(Delta)
         /\ Len(Remember(h, old, new)) <= HistoryCap
         /\ \A i \in DOMAIN Remember(h, old, new) :
              \/ \E j \in DOMAIN h : Remember(h, old, new)[i] = h[j]
              \/ /\ Recorded(old, new)
                 /\ Remember(h, old, new)[i] = build_delta(old, new)
<1> DEFINE d == build_delta(old, new)
           g == Append(h, d)
<1>1. d \in Delta
  BY BuildDeltaType
<1> HIDE DEF d
<1>2. /\ g \in Seq(Delta)
      /\ Len(g) = Len(h) + 1
      /\ \A i \in DOMAIN g : (\E j \in DOMAIN h : g[i] = h[j]) \/ g[i] = d
  BY <1>1
<1> HIDE DEF g
<1>3. /\ Trim(g) \in Seq(Delta)
      /\ Len(Trim(g)) <= HistoryCap
      /\ \A i \in DOMAIN Trim(g) : \E k \in DOMAIN g : Trim(g)[i] = g[k]
  <2>1. CASE Len(g) > HistoryCap
    <3>1. /\ Trim(g) = Tail(g)
          /\ g # <<>>
      BY <2>1, HistoryAssumption DEF Trim
    <3>2. /\ Tail(g) \in Seq(Delta)
          /\ Len(Tail(g)) = Len(g) - 1
          /\ \A i \in 1..(Len(g) - 1) : Tail(g)[i] = g[i + 1]
      BY <1>2, <3>1
    <3> QED BY <1>2, <3>1, <3>2, HistoryAssumption
  <2>2. CASE ~(Len(g) > HistoryCap)
    BY <1>2, <2>2, HistoryAssumption DEF Trim
  <2> QED BY <2>1, <2>2
<1>4. CASE Recorded(old, new)
  <2>1. Remember(h, old, new) = Trim(g)
    BY <1>4 DEF Remember, g, d
  <2> QED BY <1>2, <1>3, <1>4, <2>1 DEF d
<1>5. CASE ~Recorded(old, new)
  BY <1>5 DEF Remember
<1> QED BY <1>4, <1>5

-----------------------------------------------------------------------------
\* A chain of deltas without a gap.
Contiguous(ds) == \A k \in 2..Len(ds) : ds[k].from = ds[k - 1].to

\* The chain ixfr_chain returns starts at the serial asked for, has no gap
\* and consists of deltas of the history.
LEMMA IxfrChainFacts ==
  ASSUME NEW h \in Seq(Delta), NEW serial \in Int
  PROVE  LET ch == ixfr_chain(h, serial)
         IN  /\ ch \in Seq(Delta)
             /\ ch # <<>> => ch[1].from = serial
             /\ Contiguous(ch)
             /\ \A k \in 1..Len(ch) : \E j \in 1..Len(h) : ch[k] = h[j]
<1> DEFINE ch == ixfr_chain(h, serial)
           start == CHOOSE i \in Starts(h, serial) :
                      \A j \in Starts(h, serial) : i <= j
           NoGap == \A k \in (start + 1)..Len(h) : h[k].from = h[k - 1].to
<1>1. CASE Starts(h, serial) = {} \/ ~NoGap
  <2>1. ch = <<>>
    BY <1>1 DEF ixfr_chain
  <2> QED BY <2>1 DEF Contiguous
<1>2. CASE Starts(h, serial) # {} /\ NoGap
  <2>1. \E m \in Starts(h, serial) : \A n \in Starts(h, serial) : m <= n
    <3>1. Starts(h, serial) \subseteq Nat
      BY DEF Starts
    <3> QED BY <3>1, <1>2, LeastNat
  <2>2. start \in Starts(h, serial)
    BY <2>1
  <2>3. start \in 1..Len(h) /\ h[start].from = serial
    BY <2>2 DEF Starts
  <2>4. ch = SubSeq(h, start, Len(h))
    BY <1>2 DEF ixfr_chain
  <2> HIDE DEF start
  <2>5. /\ ch \in Seq(Delta)
        /\ Len(ch) = Len(h) - start + 1
        /\ \A k \in 1..Len(ch) : ch[k] = h[start + k - 1]
    BY <2>3, <2>4
  <2> HIDE DEF ch
  <2>6. Contiguous(ch)
    <3> SUFFICES ASSUME NEW k \in 2..Len(ch)
                 PROVE  ch[k].from = ch[k - 1].to
      BY DEF Contiguous
    <3>1. /\ ch[k] = h[start + k - 1]
          /\ ch[k - 1] = h[start + (k - 1) - 1]
          /\ start + k - 1 \in (start + 1)..Len(h)
          /\ (start + k - 1) - 1 = start + (k - 1) - 1
      BY <2>3, <2>5
    <3> QED BY <3>1, <1>2
  <2>7. \A k \in 1..Len(ch) : start + k - 1 \in 1..Len(h)
    BY <2>3, <2>5
  <2>8. \A k \in 1..Len(ch) : \E j \in 1..Len(h) : ch[k] = h[j]
    BY <2>5, <2>7
  <2>9. ch # <<>> => ch[1].from = serial
    <3> SUFFICES ASSUME ch # <<>>
                 PROVE  ch[1].from = serial
      OBVIOUS
    <3>1. 1 \in 1..Len(ch) /\ start + 1 - 1 = start
      BY <2>3, <2>5
    <3> QED BY <3>1, <2>3, <2>5
  <2>10. /\ ch \in Seq(Delta)
         /\ ch # <<>> => ch[1].from = serial
         /\ Contiguous(ch)
         /\ \A k \in 1..Len(ch) : \E j \in 1..Len(h) : ch[k] = h[j]
    BY <2>5, <2>6, <2>8, <2>9
  <2> QED BY ONLY <2>10 DEF ch
<1> QED BY <1>1, <1>2

\* d is the difference between two editions of E.
ExactDelta(E, d) ==
  /\ d.from \in 1..Len(E)
  /\ d.to \in 1..Len(E)
  /\ d.removed = E[d.from] \ E[d.to]
  /\ d.added = E[d.to] \ E[d.from]

\* One more delta deletes its removed records and adds its added ones.
LEMMA AppliedRangeStep ==
  ASSUME DistinctKeys, NEW base \in SUBSET Rec, NEW ds \in Seq(Delta),
         NEW j \in 0..(Len(ds) - 1)
  PROVE  AppliedRange(base, ds, 1, j + 1) =
           (AppliedRange(base, ds, 1, j) \ ds[j + 1].removed)
             \cup ds[j + 1].added
<1>1. ds[j + 1] \in Delta
  OBVIOUS
<1>2. \A r \in Rec, i \in 0..j :
        KeptThrough(r, ds, i, j + 1) <=>
          KeptThrough(r, ds, i, j) /\ r \notin ds[j + 1].removed
  <2> SUFFICES ASSUME NEW r \in Rec, NEW i \in 0..j
               PROVE  KeptThrough(r, ds, i, j + 1) <=>
                        KeptThrough(r, ds, i, j) /\ r \notin ds[j + 1].removed
    OBVIOUS
  <2>1. (i + 1)..(j + 1) = ((i + 1)..j) \cup {j + 1}
    OBVIOUS
  <2>2. (\A q \in ds[j + 1].removed : Key[q] # Key[r])
          <=> r \notin ds[j + 1].removed
    BY <1>1 DEF DistinctKeys, Delta
  <2> QED BY <2>1, <2>2 DEF KeptThrough
<1>3. \A r : KeptThrough(r, ds, j + 1, j + 1)
  BY DEF KeptThrough
<1>4. 1..(j + 1) = (1..j) \cup {j + 1}
  OBVIOUS
<1>5. ds[j + 1].added \subseteq Rec
  BY <1>1 DEF Delta
<1> DEFINE From(m) == {r \in base : KeptThrough(r, ds, 0, m)}
           By(m) == {r \in Rec : \E k \in 1..m : r \in ds[k].added
                                                 /\ KeptThrough(r, ds, k, m)}
<1>6. From(j + 1) = From(j) \ ds[j + 1].removed
  BY <1>2
<1>7. By(j + 1) = (By(j) \ ds[j + 1].removed) \cup ds[j + 1].added
  BY <1>2, <1>3, <1>4, <1>5
<1>8. /\ AppliedRange(base, ds, 1, j) = From(j) \cup By(j)
      /\ AppliedRange(base, ds, 1, j + 1) = From(j + 1) \cup By(j + 1)
  BY DEF AppliedRange
<1> HIDE DEF From, By
<1> QED BY <1>6, <1>7, <1>8

\* A contiguous chain of exact deltas, applied to the edition it starts from,
\* gives the edition it ends with.
THEOREM ChainIsExact ==
  ASSUME DistinctKeys, NEW E \in Seq(SUBSET Rec), NEW ds \in Seq(Delta),
         ds # <<>>, Contiguous(ds),
         \A k \in 1..Len(ds) : ExactDelta(E, ds[k])
  PROVE  AppliedRange(E[ds[1].from], ds, 1, Len(ds)) = E[ds[Len(ds)].to]
<1> DEFINE base == E[ds[1].from]
           Wrong == {j \in 1..Len(ds) :
                       AppliedRange(base, ds, 1, j) # E[ds[j].to]}
<1>1. Len(ds) \in Nat /\ Len(ds) >= 1
  OBVIOUS
<1>2. base \in SUBSET Rec
  BY <1>1 DEF ExactDelta
<1>3. \A k \in 1..Len(ds) : /\ E[ds[k].from] \in SUBSET Rec
                            /\ E[ds[k].to] \in SUBSET Rec
  BY DEF ExactDelta
<1>4. ASSUME NEW j \in 1..Len(ds), j \in Wrong,
             \A i \in Wrong : j <= i
      PROVE  FALSE
  <2>1. AppliedRange(base, ds, 1, j - 1) = E[ds[j].from]
    <3>1. CASE j = 1
      <4>1. AppliedRange(base, ds, 1, 0) = base
        BY DEF AppliedRange, KeptThrough
      <4> QED BY <3>1, <4>1
    <3>2. CASE j # 1
      <4>1. j - 1 \in 1..Len(ds) /\ j - 1 \notin Wrong /\ j \in 2..Len(ds)
        BY <1>4, <3>2
      <4> QED BY <4>1 DEF Contiguous
    <3> QED BY <3>1, <3>2
  <2>2. AppliedRange(base, ds, 1, j) =
          (E[ds[j].from] \ ds[j].removed) \cup ds[j].added
    <3>1. j - 1 \in 0..(Len(ds) - 1) /\ (j - 1) + 1 = j
      OBVIOUS
    <3>2. AppliedRange(base, ds, 1, (j - 1) + 1) =
            (AppliedRange(base, ds, 1, j - 1) \ ds[(j - 1) + 1].removed)
              \cup ds[(j - 1) + 1].added
      <4> HIDE DEF base
      <4> QED BY <1>2, <3>1, AppliedRangeStep
    <3> HIDE DEF base
    <3> QED BY <2>1, <3>1, <3>2
  <2>3. ExactDelta(E, ds[j])
    OBVIOUS
  <2>4. AppliedRange(base, ds, 1, j) = E[ds[j].to]
    BY <1>3, <2>2, <2>3 DEF ExactDelta
  <2> QED BY <1>4, <2>4
<1>5. Wrong = {}
  <2>1. Wrong \subseteq Nat
    OBVIOUS
  <2> HIDE DEF Wrong
  <2>2. SUFFICES ASSUME Wrong # {} PROVE FALSE
    OBVIOUS
  <2>3. PICK j \in Wrong : \A i \in Wrong : j <= i
    BY <2>1, <2>2, LeastNat
  <2> QED BY <1>4, <2>3 DEF Wrong
<1> QED BY <1>1, <1>5

-----------------------------------------------------------------------------
(* The invariants of ZoneReload.                                           *)

LEMMA LoadedType ==
  ASSUME NEW z \in Origins, NEW ver \in Version
  PROVE  Loaded(z, ver) \subseteq Version
BY ReloadAssumption DEF Loaded, sign_zone, Version

LEMMA UnloadedType == Unloaded \in Version
BY DEF Unloaded, Version, Absent

LEMMA StartupsType ==
  ASSUME disk \in [Origins -> Files]
  PROVE  Startups \subseteq [Origins -> Version]
<1>1. \A z \in Origins : Loaded(z, disk[z].ver) \subseteq Version
  BY LoadedType DEF Files
<1> QED BY <1>1, UnloadedType DEF Startups

\* Among the published zones that contain a name one has the lowest rank.
LEMMA FirstZoneFound ==
  ASSUME NEW q \in Origins, Authoritative(q) # {}
  PROVE  FirstZone(q) \in Authoritative(q)
<1> DEFINE Ranks == {Rank[z] : z \in Authoritative(q)}
<1>1. Authoritative(q) \subseteq Origins
  BY ReloadAssumption DEF Authoritative
<1>2. Ranks \subseteq Nat /\ Ranks # {}
  BY <1>1, ReloadAssumption
<1>3. PICK m \in Ranks : \A n \in Ranks : m <= n
  <2> HIDE DEF Ranks
  <2> QED BY <1>2, LeastNat
<1>4. \E z \in Authoritative(q) :
        \A y \in Authoritative(q) : Rank[z] <= Rank[y]
  BY <1>3
<1> QED BY <1>4 DEF FirstZone

LEMMA AxfrType ==
  ASSUME NEW zone \in Version
  PROVE  axfr_stream(zone) \in Answer
<1>1. <<>> \in Seq(Delta)
  OBVIOUS
<1> QED BY <1>1 DEF axfr_stream, Answer, AnswerKind, Version

LEMMA IxfrType ==
  ASSUME NEW zone \in Version, NEW serial \in Int, NEW chain \in Seq(Delta)
  PROVE  ixfr_stream(zone, serial, chain) \in Answer
<1>1. <<>> \in Seq(Delta)
  OBVIOUS
<1> QED BY <1>1, AxfrType DEF ixfr_stream, Answer, AnswerKind, Version

LEMMA ApplyType ==
  ASSUME NEW cp \in Version, NEW an \in Answer
  PROVE  Apply(cp, an) \in Version
<1>1. AppliedRange(cp.recs, an.deltas, 1, Len(an.deltas)) \subseteq Rec
  BY DEF AppliedRange, Version
<1> QED BY <1>1 DEF Apply, Version, Answer

LEMMA IdleType ==
  ASSUME NEW c \in Clients
  PROVE  Idle(c) \in Transfers
<1>1. NoAnswer \in Answer
  BY DEF NoAnswer, Answer, AnswerKind, Absent
<1> QED BY <1>1, UnloadedType, ReloadAssumption DEF Idle, Transfers, Absent

LEMMA TypeInit == Init => TypeOK
<1> SUFFICES ASSUME Init PROVE TypeOK
  OBVIOUS
<1>1. /\ edition \in [Origins -> Seq(SUBSET Rec)]
      /\ disk \in [Origins -> Files]
  <2>1. edition \in [Origins -> {<<R>> : R \in SUBSET Plain}]
    BY DEF Init
  <2>2. \A z \in Origins : \E R \in SUBSET Rec : edition[z] = <<R>>
    BY <2>1 DEF Plain
  <2>3. \A z \in Origins : edition[z] \in Seq(SUBSET Rec)
                           /\ edition[z][1] \in SUBSET Rec
    <3> SUFFICES ASSUME NEW z \in Origins
                 PROVE  /\ edition[z] \in Seq(SUBSET Rec)
                        /\ edition[z][1] \in SUBSET Rec
      OBVIOUS
    <3>1. PICK R \in SUBSET Rec : edition[z] = <<R>>
      BY <2>2
    <3> QED BY <3>1
  <2>4. PICK Missed \in SUBSET Origins :
          disk = [z \in Origins |->
                    [kind |-> IF z \in Missed THEN "unreadable" ELSE "zone",
                     ver  |-> [serial |-> 1, recs |-> edition[z][1]]]]
    BY DEF Init
  <2>5. disk \in [Origins -> Files]
    BY <2>3, <2>4 DEF Files, Version
  <2> QED BY <2>1, <2>3, <2>5
<1>2. zones \in [Origins -> Version]
  BY <1>1, StartupsType DEF Init
<1>3. xfer \in [Clients -> Transfers]
  BY IdleType DEF Init
<1>4. copy \in [Clients -> Version]
  BY UnloadedType DEF Init
<1>5. /\ history \in [Origins -> Seq(Delta)]
      /\ \A z \in Origins : Len(history[z]) <= HistoryCap
  BY HistoryAssumption DEF Init
<1> QED BY <1>1, <1>2, <1>3, <1>4, <1>5 DEF Init, TypeOK, Tracked

LEMMA TypeStep ==
  ASSUME TypeOK, [Next]_vars
  PROVE  TypeOK'
<1>1. ASSUME NEW z \in Origins, Edit(z) PROVE TypeOK'
  <2>1. PICK R \in SUBSET Plain :
          /\ edition' = [edition EXCEPT ![z] = Append(@, R)]
          /\ disk' = [disk EXCEPT ![z] =
               [kind |-> "zone",
                ver  |-> [serial |-> Len(edition[z]) + 1, recs |-> R]]]
    BY <1>1 DEF Edit
  <2>2. R \in SUBSET Rec
    BY DEF Plain
  <2>3. edition' \in [Origins -> Seq(SUBSET Rec)]
    BY <2>1, <2>2 DEF TypeOK
  <2>4. [kind |-> "zone",
         ver |-> [serial |-> Len(edition[z]) + 1, recs |-> R]] \in Files
    BY <2>2 DEF Files, Version, TypeOK
  <2>5. disk' \in [Origins -> Files]
    BY <2>1, <2>4 DEF TypeOK
  <2> QED BY <1>1, <2>3, <2>5 DEF Edit, TypeOK, manager, thread
<1>2. ASSUME NEW z \in Origins, DropSoa(z) \/ Break(z) \/ Repair(z)
      PROVE  TypeOK'
  <2>1. disk' \in [Origins -> Files]
    <3>1. /\ disk[z].kind \in {"zone", "unreadable", "malformed"}
          /\ disk[z].ver \in Version
      BY DEF TypeOK, Files
    <3>2. CASE DropSoa(z)
      <4>1. [disk[z].ver EXCEPT !.serial = NoSoa] \in Version
        BY <3>1 DEF Version, NoSoa
      <4>2. [disk[z] EXCEPT !.ver = [disk[z].ver EXCEPT !.serial = NoSoa]]
              \in Files
        BY <3>1, <4>1 DEF TypeOK, Files
      <4>3. disk' = [disk EXCEPT ![z] = [disk[z] EXCEPT !.ver =
                       [disk[z].ver EXCEPT !.serial = NoSoa]]]
        BY <3>2 DEF DropSoa, TypeOK
      <4> QED BY <4>2, <4>3 DEF TypeOK
    <3>3. CASE Break(z) \/ Repair(z)
      <4>1. PICK k \in {"zone", "unreadable", "malformed"} :
              disk' = [disk EXCEPT ![z].kind = k]
        BY <3>3, ReloadAssumption DEF Break, Repair
      <4>2. [disk[z] EXCEPT !.kind = k] \in Files
        BY <3>1 DEF TypeOK, Files
      <4> QED BY <4>1, <4>2 DEF TypeOK
    <3> QED BY <1>2, <3>2, <3>3
  <2> QED BY <1>2, <2>1
          DEF DropSoa, Break, Repair, TypeOK, manager, thread
<1>3. CASE handle_sighup
  BY <1>3 DEF handle_sighup, TypeOK, manager
<1>4. CASE Restart
  <2>1. zones' \in [Origins -> Version]
    BY <1>4, StartupsType DEF Restart, TypeOK
  <2>2. xfer' \in [Clients -> Transfers]
    BY <1>4, IdleType DEF Restart
  <2>3. /\ history' \in [Origins -> Seq(Delta)]
        /\ \A z \in Origins : Len(history'[z]) <= HistoryCap
    BY <1>4, HistoryAssumption DEF Restart
  <2>4. zone_files' \subseteq Origins /\ published' \in [Origins -> Version]
    BY <1>4, <2>1 DEF Restart, Tracked
  <2>5. faults' \in Nat
    BY <1>4 DEF Restart, TypeOK
  <2> QED BY <1>4, <2>1, <2>2, <2>3, <2>4, <2>5 DEF Restart, TypeOK
<1>5. CASE WakeOnSignal \/ WakeOnTimer
  BY <1>5 DEF WakeOnSignal, WakeOnTimer, StartReload, TypeOK, manager
<1>6. ASSUME NEW z \in Origins, LoadOk(z) PROVE TypeOK'
  <2>1. PICK new \in Loaded(z, disk[z].ver) :
          /\ history' = [history EXCEPT ![z] = Remember(@, zones[z], new)]
          /\ zones' = [zones EXCEPT ![z] = new]
    BY <1>6 DEF LoadOk
  <2>2. new \in Version
    BY LoadedType DEF TypeOK, Files
  <2>3. /\ Remember(history[z], zones[z], new) \in Seq(Delta)
        /\ Len(Remember(history[z], zones[z], new)) <= HistoryCap
    BY <2>2, RememberType DEF TypeOK
  <2>4. /\ history' \in [Origins -> Seq(Delta)]
        /\ \A y \in Origins : Len(history'[y]) <= HistoryCap
        /\ zones' \in [Origins -> Version]
    BY <2>1, <2>2, <2>3 DEF TypeOK
  <2> QED BY <1>6, <2>4 DEF LoadOk, TypeOK
<1>7. ASSUME NEW z \in Origins, LoadErr(z) \/ LoadPanic(z) PROVE TypeOK'
  BY <1>7 DEF LoadErr, LoadPanic, TypeOK, manager
<1>8. CASE Publish
  BY <1>8 DEF Publish, TypeOK, manager
<1>9. CASE Respawn
  BY <1>9 DEF Respawn, TypeOK, manager
<1>10. ASSUME NEW c \in Clients, Ask(c) PROVE TypeOK'
  <2>1. PICK k \in {"AXFR", "IXFR"} :
          xfer' = [xfer EXCEPT ![c] = [Idle(c) EXCEPT
                     !.stage = "asked", !.kind = k,
                     !.serial = copy[c].serial]]
    BY <1>10 DEF Ask
  <2>2. [Idle(c) EXCEPT !.stage = "asked", !.kind = k,
                        !.serial = copy[c].serial] \in Transfers
    BY IdleType DEF Transfers, TypeOK, Version
  <2>3. xfer' \in [Clients -> Transfers]
    BY <2>1, <2>2 DEF TypeOK
  <2> QED BY <1>10, <2>3 DEF Ask, TypeOK, manager, thread
<1>11. ASSUME NEW c \in Clients, TakeSnapshot(c) PROVE TypeOK'
  <2> DEFINE first == FirstZone(Follows[c])
             found == [xfer[c] EXCEPT !.zone = first,
                                      !.snap = published[first]]
  <2>1. CASE Authoritative(Follows[c]) = {}
    <3>1. xfer' = [xfer EXCEPT ![c] = Idle(c)]
      BY <1>11, <2>1 DEF TakeSnapshot
    <3>2. xfer' \in [Clients -> Transfers]
      BY <3>1, IdleType DEF TypeOK
    <3> QED BY <1>11, <3>2 DEF TakeSnapshot, TypeOK, manager, thread
  <2>2. CASE Authoritative(Follows[c]) # {}
    <3>1. first \in Origins /\ published[first] \in Version
      BY <2>2, FirstZoneFound, ReloadAssumption DEF Authoritative, TypeOK
    <3>2. axfr_stream(published[first]) \in Answer
      BY <3>1, AxfrType
    <3>3. \/ xfer' = [xfer EXCEPT ![c] =
               [found EXCEPT !.stage  = "answered",
                             !.answer = axfr_stream(published[first])]]
          \/ xfer' = [xfer EXCEPT ![c] = [found EXCEPT !.stage = "snapshot"]]
      BY <1>11, <2>2 DEF TakeSnapshot
    <3> HIDE DEF first
    <3>4. xfer[c] \in Transfers
      BY DEF TypeOK
    <3>5. found \in Transfers
      BY <3>1, <3>4 DEF Transfers
    <3> HIDE DEF found
    <3>6. /\ [found EXCEPT !.stage  = "answered",
                           !.answer = axfr_stream(published[first])]
               \in Transfers
          /\ [found EXCEPT !.stage = "snapshot"] \in Transfers
      BY <3>2, <3>5 DEF Transfers
    <3>7. xfer' \in [Clients -> Transfers]
      BY <3>3, <3>6 DEF TypeOK
    <3> QED BY <1>11, <3>7 DEF TakeSnapshot, TypeOK, manager, thread
  <2> QED BY <2>1, <2>2
<1>12. ASSUME NEW c \in Clients, ReadHistory(c) PROVE TypeOK'
  <2> DEFINE x == xfer[c]
             chain == ixfr_chain(history[Follows[c]], x.serial)
  <2>1. x \in Transfers /\ history[Follows[c]] \in Seq(Delta)
    BY ReloadAssumption DEF TypeOK
  <2>2. chain \in Seq(Delta)
    BY <2>1, IxfrChainFacts DEF Transfers
  <2>3. ixfr_stream(x.snap, x.serial, chain) \in Answer
    BY <2>1, <2>2, IxfrType DEF Transfers
  <2>4. xfer' = [xfer EXCEPT ![c].stage  = "answered",
                   ![c].answer = ixfr_stream(x.snap, x.serial, chain)]
    BY <1>12 DEF ReadHistory
  <2> HIDE DEF chain
  <2>5. xfer' \in [Clients -> Transfers]
    BY <2>3, <2>4 DEF Transfers, TypeOK
  <2> QED BY <1>12, <2>5 DEF ReadHistory, TypeOK, manager, thread
<1>13. ASSUME NEW c \in Clients, Install(c) PROVE TypeOK'
  <2>1. copy' \in [Clients -> Version]
    BY <1>13, ApplyType DEF Install, TypeOK, Transfers
  <2>2. xfer' \in [Clients -> Transfers]
    BY <1>13, IdleType DEF Install, TypeOK
  <2> QED BY <1>13, <2>1, <2>2 DEF Install, TypeOK, manager, thread
<1>14. ASSUME NEW c \in Clients, Cut(c) PROVE TypeOK'
  <2>1. xfer' \in [Clients -> Transfers]
    BY <1>14, IdleType DEF Cut, TypeOK
  <2> QED BY <1>14, <2>1 DEF Cut, TypeOK, manager, thread
<1>15. CASE UNCHANGED vars
  BY <1>15 DEF TypeOK, vars, manager, thread
<1> QED
  BY <1>1, <1>2, <1>3, <1>4, <1>5, <1>6, <1>7, <1>8, <1>9, <1>10, <1>11,
     <1>12, <1>13, <1>14, <1>15 DEF Next, Watcher

\* The variables keep their types; no history outgrows its cap.
THEOREM TypeCorrect == Spec => []TypeOK
<1>1. TypeOK /\ [Next]_vars => TypeOK'
  BY TypeStep
<1> QED BY <1>1, TypeInit, PTL DEF Spec

-----------------------------------------------------------------------------
(* Serials only move forward, from the files to the manager, the published  *)
(* zones, a snapshot and a secondary's copy, if no zone lies within another. *)

NoNesting == \A z \in Origins : Within[z] = {z}

\* Serial s is not newer than serial t, if t is one at all.
Older(s, t) == t >= 0 => s <= t

\* Serial s is not newer than anything the server has of zone z.
Behind(z, s) ==
  /\ s <= Len(edition[z])
  /\ Older(s, disk[z].ver.serial)
  /\ Older(s, zones[z].serial)
  /\ Older(s, published[z].serial)

ServerSerials ==
  \A z \in Origins :
    /\ disk[z].ver.serial <= Len(edition[z])
    /\ zones[z].serial <= Len(edition[z])
    /\ Older(zones[z].serial, disk[z].ver.serial)
    /\ Behind(z, published[z].serial)

Holds(c) == xfer[c].stage \in {"snapshot", "answered"}

ClientSerials(c) ==
  /\ Behind(Follows[c], copy[c].serial)
  /\ Holds(c) => /\ Behind(Follows[c], xfer[c].snap.serial)
                 /\ Older(copy[c].serial, xfer[c].snap.serial)
  /\ xfer[c].stage = "answered" /\ xfer[c].answer.kind \in {"full", "deltas"}
       => /\ xfer[c].answer.serial = xfer[c].snap.serial
          /\ xfer[c].answer.serial >= 0

SerialInv == ServerSerials /\ \A c \in Clients : ClientSerials(c)

LEMMA LoadedSerial ==
  ASSUME NEW z \in Origins, NEW ver \in Version, NEW new \in Loaded(z, ver)
  PROVE  new.serial = ver.serial
BY DEF Loaded, sign_zone, Version

\* What a start makes of a file: its version, signed or not, or nothing.
LEMMA StartupSerial ==
  ASSUME disk \in [Origins -> Files], NEW f \in Startups, NEW z \in Origins
  PROVE  f[z].serial \in {disk[z].ver.serial, Absent}
<1>1. \/ f[z] \in Loaded(z, disk[z].ver)
      \/ f[z] = Unloaded
  BY DEF Startups
<1> QED BY <1>1, LoadedSerial DEF Files, Unloaded

LEMMA StartedZone ==
  ASSUME disk \in [Origins -> Files], NEW f \in Startups, NEW z \in Origins
  PROVE  f[z] = Unloaded \/ f[z].serial = disk[z].ver.serial
<1>1. \/ f[z] \in Loaded(z, disk[z].ver)
      \/ f[z] = Unloaded
  BY DEF Startups
<1> QED BY <1>1, LoadedSerial DEF Files

LEMMA EditedZone ==
  ASSUME TypeOK, NEW z \in Origins, Edit(z)
  PROVE  \A y \in Origins :
           /\ Len(edition'[y]) = IF y = z THEN Len(edition[z]) + 1
                                          ELSE Len(edition[y])
           /\ disk'[y].ver.serial = IF y = z THEN Len(edition[z]) + 1
                                             ELSE disk[y].ver.serial
           /\ zones'[y] = zones[y]
           /\ published'[y] = published[y]
BY DEF Edit, TypeOK, Plain, manager

LEMMA DroppedSoa ==
  ASSUME TypeOK, NEW z \in Origins, DropSoa(z)
  PROVE  \A y \in Origins :
           disk'[y].ver.serial = IF y = z THEN NoSoa ELSE disk[y].ver.serial
<1>1. /\ disk[z].ver \in Version
      /\ disk[z] \in Files
  BY DEF TypeOK, Files
<1>2. [disk[z] EXCEPT !.ver = [disk[z].ver EXCEPT !.serial = NoSoa]].ver.serial
        = NoSoa
  BY <1>1 DEF Files, Version
<1>3. disk' = [disk EXCEPT ![z] = [disk[z] EXCEPT !.ver =
                 [disk[z].ver EXCEPT !.serial = NoSoa]]]
  BY DEF DropSoa, TypeOK
<1> QED BY <1>2, <1>3 DEF TypeOK

LEMMA KeptFile ==
  ASSUME TypeOK, NEW z \in Origins, Break(z) \/ Repair(z)
  PROVE  \A y \in Origins : disk'[y].ver = disk[y].ver
<1>1. PICK k \in {"zone", "unreadable", "malformed"} :
        disk' = [disk EXCEPT ![z].kind = k]
  BY ReloadAssumption DEF Break, Repair
<1>2. disk[z] \in Files
  BY DEF TypeOK
<1> QED BY <1>1, <1>2 DEF TypeOK, Files

LEMMA ReloadedZone ==
  ASSUME TypeOK, NEW z \in Origins, LoadOk(z)
  PROVE  /\ \A y \in Origins :
              zones'[y].serial = IF y = z THEN disk[z].ver.serial
                                          ELSE zones[y].serial
         /\ UNCHANGED <<disk, edition, published>>
<1>1. PICK new \in Loaded(z, disk[z].ver) : zones' = [zones EXCEPT ![z] = new]
  BY DEF LoadOk
<1>2. disk[z].ver \in Version
  BY DEF TypeOK, Files
<1>3. new.serial = disk[z].ver.serial
  BY <1>2, LoadedSerial
<1> QED BY <1>1, <1>3 DEF TypeOK, LoadOk

LEMMA RestartedZone ==
  ASSUME TypeOK, Restart
  PROVE  /\ \A z \in Origins : zones'[z].serial \in {disk[z].ver.serial, Absent}
         /\ published' = zones'
         /\ UNCHANGED <<disk, edition>>
BY StartupSerial DEF Restart, TypeOK

\* The steps of the server and its operator keep its serials in order.
LEMMA ServerSerialsStep ==
  ASSUME TypeOK, ServerSerials, [Next]_vars
  PROVE  ServerSerials'
<1>0. \A z \in Origins : /\ disk[z].ver.serial \in Int
                          /\ zones[z].serial \in Int
                          /\ published[z].serial \in Int
                          /\ Len(edition[z]) \in Nat
  BY DEF TypeOK, Files, Version
<1> USE <1>0 DEF ServerSerials, Behind, Older
<1>1. ASSUME NEW z \in Origins, Edit(z) PROVE ServerSerials'
  BY <1>1, EditedZone
<1>2. ASSUME NEW z \in Origins, DropSoa(z) PROVE ServerSerials'
  BY <1>2, DroppedSoa DEF DropSoa, manager, NoSoa
<1>3. ASSUME NEW z \in Origins, Break(z) \/ Repair(z) PROVE ServerSerials'
  BY <1>3, KeptFile DEF Break, Repair, manager
<1>4. CASE Restart
  BY <1>4, RestartedZone DEF Absent
<1>5. ASSUME NEW z \in Origins, LoadOk(z) PROVE ServerSerials'
  BY <1>5, ReloadedZone
<1>6. CASE Publish
  BY <1>6 DEF Publish, manager
<1>7. CASE UNCHANGED <<disk, edition, zones, published>>
  BY <1>7
<1> QED
  BY <1>1, <1>2, <1>3, <1>4, <1>5, <1>6, <1>7
     DEF Next, Watcher, handle_sighup, WakeOnSignal, WakeOnTimer, StartReload,
         LoadErr, LoadPanic, Respawn, Ask, TakeSnapshot, ReadHistory, Install,
         Cut, vars, manager

\* What was behind the server stays behind it.
LEMMA BehindStep ==
  ASSUME TypeOK, [Next]_vars, NEW z \in Origins
  PROVE  \A s \in Int : Behind(z, s) => Behind(z, s)'
<1>0. \A y \in Origins : /\ disk[y].ver.serial \in Int
                          /\ zones[y].serial \in Int
                          /\ published[y].serial \in Int
                          /\ Len(edition[y]) \in Nat
  BY DEF TypeOK, Files, Version
<1> USE <1>0 DEF Behind, Older
<1> SUFFICES ASSUME NEW s \in Int, Behind(z, s) PROVE Behind(z, s)'
  OBVIOUS
<1>1. ASSUME NEW y \in Origins, Edit(y) PROVE Behind(z, s)'
  BY <1>1, EditedZone
<1>2. ASSUME NEW y \in Origins, DropSoa(y) PROVE Behind(z, s)'
  BY <1>2, DroppedSoa DEF DropSoa, manager, NoSoa
<1>3. ASSUME NEW y \in Origins, Break(y) \/ Repair(y) PROVE Behind(z, s)'
  BY <1>3, KeptFile DEF Break, Repair, manager
<1>4. CASE Restart
  BY <1>4, RestartedZone DEF Absent
<1>5. ASSUME NEW y \in Origins, LoadOk(y) PROVE Behind(z, s)'
  BY <1>5, ReloadedZone
<1>6. CASE Publish
  BY <1>6 DEF Publish, manager
<1>7. CASE UNCHANGED <<disk, edition, zones, published>>
  BY <1>7
<1> QED
  BY <1>1, <1>2, <1>3, <1>4, <1>5, <1>6, <1>7
     DEF Next, Watcher, handle_sighup, WakeOnSignal, WakeOnTimer, StartReload,
         LoadErr, LoadPanic, Respawn, Ask, TakeSnapshot, ReadHistory, Install,
         Cut, vars, manager

\* A transfer is answered from the zone that was asked for.
LEMMA FirstIsAsked ==
  ASSUME NoNesting, NEW q \in Origins, Authoritative(q) # {}
  PROVE  FirstZone(q) = q
BY FirstZoneFound DEF NoNesting, Authoritative

\* A step leaves a secondary alone, or is one of its own or a restart.
LEMMA ClientSteps ==
  ASSUME [Next]_vars, NEW c \in Clients, TypeOK
  PROVE  \/ xfer'[c] = xfer[c] /\ copy'[c] = copy[c]
         \/ xfer'[c] = Idle(c) /\ copy'[c] = copy[c]
         \/ Ask(c) \/ TakeSnapshot(c) \/ ReadHistory(c) \/ Install(c)
<1>1. CASE UNCHANGED <<xfer, copy>>
  BY <1>1
<1>2. CASE Restart
  BY <1>2 DEF Restart
<1>3. ASSUME NEW d \in Clients, d # c,
             Ask(d) \/ TakeSnapshot(d) \/ ReadHistory(d)
      PROVE  xfer'[c] = xfer[c] /\ copy'[c] = copy[c]
  BY <1>3 DEF Ask, TakeSnapshot, ReadHistory, TypeOK
<1>4. ASSUME NEW d \in Clients, d # c, Install(d)
      PROVE  xfer'[c] = xfer[c] /\ copy'[c] = copy[c]
  BY <1>4 DEF Install, TypeOK
<1>5. ASSUME NEW d \in Clients, Cut(d)
      PROVE  \/ xfer'[c] = xfer[c] /\ copy'[c] = copy[c]
             \/ xfer'[c] = Idle(c) /\ copy'[c] = copy[c]
  BY <1>5 DEF Cut, TypeOK
<1> QED
  BY <1>1, <1>2, <1>3, <1>4, <1>5
     DEF Next, Watcher, Edit, DropSoa, Break, Repair, handle_sighup,
         WakeOnSignal, WakeOnTimer, StartReload, LoadOk, LoadErr, LoadPanic,
         Publish, Respawn, vars

\* What a secondary's own steps make of its transfer.
LEMMA AskedTransfer ==
  ASSUME TypeOK, NEW c \in Clients, Ask(c)
  PROVE  /\ xfer[c].stage = "idle"
         /\ xfer'[c].stage = "asked" /\ xfer'[c].serial = copy[c].serial
         /\ copy' = copy
         /\ UNCHANGED <<disk, edition, zones, published, history>>
BY DEF Ask, TypeOK, Idle, manager

LEMMA SnapshotTransfer ==
  ASSUME TypeOK, NoNesting, NEW c \in Clients, TakeSnapshot(c)
  PROVE  /\ xfer[c].stage = "asked"
         /\ UNCHANGED <<copy, disk, edition, zones, published, history>>
         /\ \/ xfer'[c] = Idle(c)
            \/ /\ xfer'[c].snap = published[Follows[c]]
               /\ xfer'[c].serial = xfer[c].serial
               /\ \/ xfer'[c].stage = "snapshot"
                  \/ /\ xfer'[c].stage = "answered"
                     /\ xfer'[c].answer = axfr_stream(published[Follows[c]])
<1> DEFINE first == FirstZone(Follows[c])
           found == [xfer[c] EXCEPT !.zone = first, !.snap = published[first]]
<1>0. Follows[c] \in Origins
  BY ReloadAssumption
<1>1. CASE Authoritative(Follows[c]) = {}
  BY <1>1 DEF TakeSnapshot, TypeOK, manager
<1>2. CASE Authoritative(Follows[c]) # {}
  <2>1. first = Follows[c]
    BY <1>0, <1>2, FirstIsAsked
  <2>2. \/ xfer' = [xfer EXCEPT ![c] =
             [found EXCEPT !.stage  = "answered",
                           !.answer = axfr_stream(published[first])]]
        \/ xfer' = [xfer EXCEPT ![c] = [found EXCEPT !.stage = "snapshot"]]
    BY <1>2 DEF TakeSnapshot
  <2> HIDE DEF first
  <2>3. xfer[c] \in Transfers /\ xfer \in [Clients -> Transfers]
    BY DEF TypeOK
  <2>4. /\ found \in Transfers
        /\ found.snap = published[first] /\ found.serial = xfer[c].serial
    BY <2>1, <2>3, <1>0 DEF Transfers, TypeOK
  <2> HIDE DEF found
  <2>5. \/ xfer'[c] = [found EXCEPT !.stage  = "answered",
                                    !.answer = axfr_stream(published[first])]
        \/ xfer'[c] = [found EXCEPT !.stage = "snapshot"]
    BY <2>2, <2>3
  <2>6. /\ xfer'[c].snap = published[first] /\ xfer'[c].serial = xfer[c].serial
        /\ \/ xfer'[c].stage = "snapshot"
           \/ /\ xfer'[c].stage = "answered"
              /\ xfer'[c].answer = axfr_stream(published[first])
    BY <2>4, <2>5 DEF Transfers
  <2> QED BY <2>1, <2>6 DEF TakeSnapshot, manager
<1> QED BY <1>1, <1>2

LEMMA HistoryTransfer ==
  ASSUME TypeOK, NEW c \in Clients, ReadHistory(c)
  PROVE  /\ xfer[c].stage = "snapshot" /\ xfer'[c].stage = "answered"
         /\ UNCHANGED <<copy, disk, edition, zones, published, history>>
         /\ xfer'[c].snap = xfer[c].snap /\ xfer'[c].serial = xfer[c].serial
         /\ xfer'[c].answer =
              ixfr_stream(xfer[c].snap, xfer[c].serial,
                          ixfr_chain(history[Follows[c]], xfer[c].serial))
<1> DEFINE chain == ixfr_chain(history[Follows[c]], xfer[c].serial)
           answer == ixfr_stream(xfer[c].snap, xfer[c].serial, chain)
<1>1. xfer[c] \in Transfers /\ xfer \in [Clients -> Transfers]
  BY DEF TypeOK
<1>2. xfer' = [xfer EXCEPT ![c].stage = "answered", ![c].answer = answer]
  BY DEF ReadHistory
<1> HIDE DEF answer
<1>3. /\ xfer'[c].stage = "answered" /\ xfer'[c].answer = answer
      /\ xfer'[c].snap = xfer[c].snap /\ xfer'[c].serial = xfer[c].serial
  BY <1>1, <1>2 DEF Transfers
<1> QED BY <1>3 DEF ReadHistory, manager, answer

\* The kinds and serials of the answers that are built.
LEMMA AxfrSerial ==
  ASSUME NEW zone \in Version
  PROVE  /\ axfr_stream(zone).kind \in {"full", "empty"}
         /\ axfr_stream(zone).kind = "full" => zone.serial >= 0
         /\ axfr_stream(zone).serial = zone.serial
BY DEF axfr_stream, Version

LEMMA IxfrSerial ==
  ASSUME NEW zone \in Version, NEW serial \in Int, NEW chain
  PROVE  LET answer == ixfr_stream(zone, serial, chain)
         IN  answer.kind \in {"full", "deltas"}
               => answer.serial = zone.serial /\ zone.serial >= 0
BY AxfrSerial DEF ixfr_stream, Version

LEMMA AppliedSerial ==
  ASSUME NEW cp \in Version, NEW an \in Answer
  PROVE  Apply(cp, an).serial = IF an.kind \in {"full", "deltas"}
                                THEN an.serial ELSE cp.serial
BY DEF Apply, Version, Answer

LEMMA ClientSerialsStep ==
  ASSUME TypeOK, TypeOK', NoNesting, SerialInv, [Next]_vars, NEW c \in Clients
  PROVE  /\ ClientSerials(c)'
         /\ copy'[c].serial >= copy[c].serial
<1> DEFINE z == Follows[c]
<1>1. /\ z \in Origins
      /\ copy[c] \in Version /\ xfer[c] \in Transfers
      /\ copy[c].serial \in Int /\ xfer[c].snap.serial \in Int
      /\ published[z] \in Version /\ published[z].serial \in Int
  BY ReloadAssumption DEF TypeOK, Version, Transfers
<1>2. \A s \in Int : Behind(z, s) => Behind(z, s)'
  BY <1>1, BehindStep
<1>3. ClientSerials(c) /\ Behind(z, published[z].serial)
  BY <1>1 DEF SerialInv, ServerSerials
<1>4. /\ Behind(z, copy[c].serial)'
        <=> /\ copy'[c].serial <= Len(edition'[z])
            /\ Older(copy'[c].serial, disk'[z].ver.serial)
            /\ Older(copy'[c].serial, zones'[z].serial)
            /\ Older(copy'[c].serial, published'[z].serial)
      /\ Behind(z, xfer[c].snap.serial)'
        <=> /\ xfer'[c].snap.serial <= Len(edition'[z])
            /\ Older(xfer'[c].snap.serial, disk'[z].ver.serial)
            /\ Older(xfer'[c].snap.serial, zones'[z].serial)
            /\ Older(xfer'[c].snap.serial, published'[z].serial)
      /\ \A s \in Int : Behind(z, s)'
        <=> /\ s <= Len(edition'[z])
            /\ Older(s, disk'[z].ver.serial)
            /\ Older(s, zones'[z].serial)
            /\ Older(s, published'[z].serial)
  BY DEF Behind
<1>5. \A s \in Int :
        /\ s = copy'[c].serial /\ Behind(z, s)' => Behind(z, copy[c].serial)'
        /\ s = xfer'[c].snap.serial /\ Behind(z, s)'
             => Behind(z, xfer[c].snap.serial)'
  BY <1>4
<1> HIDE DEF z
<1>6. CASE xfer'[c] = xfer[c] /\ copy'[c] = copy[c]
  BY <1>1, <1>2, <1>3, <1>5, <1>6 DEF ClientSerials, Holds, z
<1>7. CASE xfer'[c] = Idle(c) /\ copy'[c] = copy[c]
  BY <1>1, <1>2, <1>3, <1>5, <1>7 DEF ClientSerials, Holds, z, Idle
<1>8. CASE Ask(c)
  BY <1>1, <1>2, <1>3, <1>5, <1>8, AskedTransfer DEF ClientSerials, Holds, z
<1>9. CASE TakeSnapshot(c)
  <2>1. Behind(z, copy[c].serial)' /\ copy'[c].serial = copy[c].serial
    BY <1>1, <1>2, <1>3, <1>5, <1>9, SnapshotTransfer DEF ClientSerials, z
  <2>2. CASE xfer'[c] = Idle(c)
    BY <1>1, <2>1, <2>2 DEF ClientSerials, Holds, z, Idle
  <2>3. CASE /\ xfer'[c].snap = published[z]
             /\ \/ xfer'[c].stage = "snapshot"
                \/ /\ xfer'[c].stage = "answered"
                   /\ xfer'[c].answer = axfr_stream(published[z])
    <3>1. Behind(z, xfer[c].snap.serial)'
      BY <1>1, <1>2, <1>3, <1>5, <2>3
    <3>2. Older(copy'[c].serial, xfer'[c].snap.serial)
      BY <1>3, <2>1, <2>3 DEF ClientSerials, Behind, z
    <3> QED BY <1>1, <2>1, <2>3, <3>1, <3>2, AxfrSerial
            DEF ClientSerials, Holds, z
  <2> QED BY <1>9, <2>2, <2>3, SnapshotTransfer DEF z
<1>10. CASE ReadHistory(c)
  <2>1. /\ xfer[c].stage = "snapshot" /\ xfer'[c].stage = "answered"
        /\ copy'[c].serial = copy[c].serial /\ xfer'[c].snap = xfer[c].snap
    BY <1>10, HistoryTransfer
  <2>2. /\ Behind(z, copy[c].serial)' /\ Behind(z, xfer[c].snap.serial)'
        /\ Older(copy'[c].serial, xfer'[c].snap.serial)
    BY <1>1, <1>2, <1>3, <1>5, <2>1 DEF ClientSerials, Holds, z
  <2>3. xfer'[c].answer.kind \in {"full", "deltas"}
          => /\ xfer'[c].answer.serial = xfer'[c].snap.serial
             /\ xfer'[c].answer.serial >= 0
    BY <1>1, <1>10, <2>1, HistoryTransfer, IxfrSerial DEF Transfers
  <2> QED BY <1>1, <2>1, <2>2, <2>3 DEF ClientSerials, Holds, z
<1>11. CASE Install(c)
  <2>1. /\ xfer[c].stage = "answered"
        /\ copy'[c] = Apply(copy[c], xfer[c].answer)
        /\ xfer'[c].stage = "idle"
    BY <1>11 DEF Install, TypeOK, Idle
  <2>2. copy'[c].serial = IF xfer[c].answer.kind \in {"full", "deltas"}
                          THEN xfer[c].answer.serial ELSE copy[c].serial
    BY <1>1, <2>1, AppliedSerial DEF Transfers
  <2>3. copy'[c].serial \in {copy[c].serial, xfer[c].snap.serial}
    BY <1>3, <2>1, <2>2 DEF ClientSerials
  <2>4. copy'[c].serial >= copy[c].serial
    BY <1>1, <1>3, <2>1, <2>2 DEF ClientSerials, Holds, Older
  <2>5. Behind(z, copy[c].serial)'
    BY <1>1, <1>2, <1>3, <1>5, <2>1, <2>3 DEF ClientSerials, Holds, z
  <2> QED BY <2>1, <2>4, <2>5 DEF ClientSerials, Holds, z
<1> QED BY <1>6, <1>7, <1>8, <1>9, <1>10, <1>11, ClientSteps

LEMMA SerialInit ==
  ASSUME Init, NoNesting
  PROVE  SerialInv
<1>0. TypeOK
  BY TypeInit
<1>1. \A z \in Origins : /\ disk[z].ver.serial = 1
                         /\ Len(edition[z]) = 1
                         /\ zones[z].serial \in {1, Absent}
                         /\ published[z] = zones[z]
  <2>1. /\ \A z \in Origins : disk[z].ver.serial = 1
        /\ published = zones
    BY DEF Init
  <2>2. \A z \in Origins : Len(edition[z]) = 1
    <3>1. edition \in [Origins -> {<<R>> : R \in SUBSET Plain}]
      BY DEF Init
    <3> QED BY <3>1
  <2>3. \A z \in Origins : zones[z].serial \in {1, Absent}
    BY <1>0, <2>1, StartupSerial DEF TypeOK, Init
  <2> QED BY <2>1, <2>2, <2>3
<1>2. ServerSerials
  BY <1>1 DEF ServerSerials, Behind, Older, Absent
<1>3. ASSUME NEW c \in Clients PROVE ClientSerials(c)
  <2>1. Follows[c] \in Origins /\ xfer[c].stage = "idle"
        /\ copy[c].serial = Absent
    BY ReloadAssumption DEF Init, Idle, Unloaded
  <2> QED BY <1>1, <2>1 DEF ClientSerials, Holds, Behind, Older, Absent
<1> QED BY <1>2, <1>3 DEF SerialInv

\* A secondary's copy never goes back, if no zone lies within another: a
\* transfer is then always answered from the zone that was transferred before
\* (maybe_zone_transfer takes the first zone that contains the name).
THEOREM CopiesOnlyAdvance == NoNesting => (Spec => CopyNeverRegresses)
<1> SUFFICES ASSUME NoNesting PROVE Spec => CopyNeverRegresses
  OBVIOUS
<1>1. Init => SerialInv
  BY SerialInit
<1>2. TypeOK /\ TypeOK' /\ SerialInv /\ [Next]_vars => SerialInv'
  <2> SUFFICES ASSUME TypeOK, TypeOK', SerialInv, [Next]_vars
               PROVE  SerialInv'
    OBVIOUS
  <2>1. ServerSerials'
    BY ServerSerialsStep DEF SerialInv
  <2>2. \A c \in Clients : ClientSerials(c)'
    BY ClientSerialsStep
  <2> QED BY <2>1, <2>2 DEF SerialInv
<1>3. TypeOK /\ TypeOK' /\ SerialInv /\ [Next]_vars
        => [\A c \in Clients : copy'[c].serial >= copy[c].serial]_copy
  BY ClientSerialsStep
<1> QED BY <1>1, <1>2, <1>3, TypeCorrect, PTL DEF Spec, CopyNeverRegresses

-----------------------------------------------------------------------------
(* What is published stays loaded in the manager.                           *)

StaysLoaded ==
  \A z \in Origins : /\ disk[z].ver.serial # Absent
                     /\ zones[z] # Unloaded => zones[z].serial # Absent
                     /\ published[z] # Unloaded => zones[z].serial # Absent

LEMMA StaysLoadedInit == Init => StaysLoaded
<1> SUFFICES ASSUME Init, NEW z \in Origins
             PROVE  /\ disk[z].ver.serial # Absent
                    /\ zones[z] # Unloaded => zones[z].serial # Absent
                    /\ published = zones
  BY DEF StaysLoaded
<1>1. disk[z].ver.serial = 1 /\ published = zones
  BY DEF Init
<1>2. disk \in [Origins -> Files]
  BY TypeInit DEF TypeOK
<1>3. zones[z] = Unloaded \/ zones[z].serial = disk[z].ver.serial
  BY <1>2, StartedZone DEF Init
<1> QED BY <1>1, <1>3 DEF Absent

\* No step unloads a zone but a restart, and a reload publishes what is loaded.
LEMMA StaysLoadedStep ==
  ASSUME TypeOK, StaysLoaded, [Next]_vars
  PROVE  /\ StaysLoaded'
         /\ \/ faults' # faults
            \/ \A z \in Origins : published[z] # Unloaded
                                    => published'[z] # Unloaded
<1> DEFINE Kept == \/ faults' # faults
                   \/ \A z \in Origins : published[z] # Unloaded
                                           => published'[z] # Unloaded
<1> USE DEF StaysLoaded
<1>1. ASSUME NEW z \in Origins, Edit(z) PROVE StaysLoaded' /\ Kept
  <2>1. \A y \in Origins : Len(edition[y]) \in Nat
    BY DEF TypeOK
  <2> QED BY <1>1, <2>1, EditedZone DEF Absent
<1>2. ASSUME NEW z \in Origins, DropSoa(z) PROVE StaysLoaded' /\ Kept
  BY <1>2, DroppedSoa DEF DropSoa, manager, NoSoa, Absent
<1>3. ASSUME NEW z \in Origins, Break(z) \/ Repair(z)
      PROVE  StaysLoaded' /\ Kept
  <2>1. \A y \in Origins : disk'[y].ver.serial = disk[y].ver.serial
    BY <1>3, KeptFile
  <2>2. zones' = zones /\ published' = published
    BY <1>3 DEF Break, Repair, manager
  <2> QED BY <2>1, <2>2
<1>4. CASE Restart
  <2>1. faults' # faults /\ disk' = disk /\ published' = zones'
    BY <1>4 DEF Restart, TypeOK
  <2>2. \A z \in Origins : zones'[z] = Unloaded
                             \/ zones'[z].serial = disk[z].ver.serial
    BY <1>4, StartedZone DEF Restart, TypeOK
  <2> QED BY <2>1, <2>2
<1>5. ASSUME NEW z \in Origins, LoadOk(z) PROVE StaysLoaded' /\ Kept
  <2>1. /\ \A y \in Origins : zones'[y] = zones[y]
                              \/ zones'[y].serial = disk[y].ver.serial
        /\ UNCHANGED <<disk, published>>
    BY <1>5, ReloadedZone DEF LoadOk, TypeOK
  <2>2. \A y \in Origins : zones'[y].serial \in {zones[y].serial,
                                                 disk[y].ver.serial}
    BY <2>1
  <2> QED BY <2>1, <2>2
<1>6. CASE Publish
  BY <1>6 DEF Publish, manager, Unloaded
<1>7. CASE UNCHANGED <<disk, zones, published>>
  BY <1>7
<1> HIDE DEF Kept, StaysLoaded
<1>8. \/ \E z \in Origins : Edit(z) \/ DropSoa(z) \/ Break(z) \/ Repair(z)
                              \/ LoadOk(z)
      \/ Restart
      \/ Publish
      \/ UNCHANGED <<disk, zones, published>>
  BY DEF Next, Watcher, handle_sighup, WakeOnSignal, WakeOnTimer, StartReload,
         LoadErr, LoadPanic, Respawn, Ask, TakeSnapshot, ReadHistory, Install,
         Cut, vars, manager
<1>9. ASSUME NEW z \in Origins,
             Edit(z) \/ DropSoa(z) \/ Break(z) \/ Repair(z) \/ LoadOk(z)
      PROVE  StaysLoaded' /\ Kept
  <2>1. CASE Edit(z)
    BY <1>1, <2>1
  <2>2. CASE DropSoa(z)
    BY <1>2, <2>2
  <2>3. CASE Break(z) \/ Repair(z)
    BY <1>3, <2>3
  <2>4. CASE LoadOk(z)
    BY <1>5, <2>4
  <2> QED BY <1>9, <2>1, <2>2, <2>3, <2>4
<1> QED BY <1>4, <1>6, <1>7, <1>8, <1>9 DEF Kept

\* Once a zone is published no reload takes it out of service, whatever becomes
\* of its file (reload_all and the watcher loop).
THEOREM ServedForGood == Spec => ZonesStayServed
<1>1. TypeOK /\ StaysLoaded /\ [Next]_vars => StaysLoaded'
  BY StaysLoadedStep
<1>2. TypeOK /\ StaysLoaded /\ [Next]_vars
        => [faults' = faults =>
              \A z \in Origins : published[z] # Unloaded
                                   => published'[z] # Unloaded]_published
  BY StaysLoadedStep
<1> QED
  BY <1>1, <1>2, StaysLoadedInit, TypeCorrect, PTL DEF Spec, ZonesStayServed

-----------------------------------------------------------------------------
(* Whatever has a serial is what the operator wrote as that serial, if no    *)
(* zone is signed at load (SerialChangeRenewsSignatures is about the others).  *)

Exact(z, v) ==
  v.serial >= 0 => /\ v.serial \in 1..Len(edition[z])
                   /\ v.recs = edition[z][v.serial]

ServerContent ==
  \A z \in Origins :
    /\ Exact(z, disk[z].ver)
    /\ Exact(z, zones[z])
    /\ Exact(z, published[z])
    /\ \A i \in 1..Len(history[z]) : ExactDelta(edition[z], history[z][i])

ClientContent(c) ==
  /\ Exact(Follows[c], copy[c])
  /\ Holds(c) => Exact(Follows[c], xfer[c].snap)
  /\ xfer[c].stage # "idle" => xfer[c].serial = copy[c].serial
  /\ Answered(c) => Apply(copy[c], xfer[c].answer) = xfer[c].snap

ContentInv == ServerContent /\ \A c \in Clients : ClientContent(c)

\* The editions of a zone are only added to.
LEMMA EditionGrows ==
  ASSUME TypeOK, [Next]_vars, NEW z \in Origins
  PROVE  /\ edition[z] \in Seq(SUBSET Rec) /\ edition'[z] \in Seq(SUBSET Rec)
         /\ Len(edition[z]) <= Len(edition'[z])
         /\ \A s \in 1..Len(edition[z]) : edition'[z][s] = edition[z][s]
<1>1. CASE UNCHANGED edition
  BY <1>1 DEF TypeOK
<1>2. ASSUME NEW y \in Origins, Edit(y)
      PROVE  /\ edition'[z] \in Seq(SUBSET Rec)
             /\ Len(edition[z]) <= Len(edition'[z])
             /\ \A s \in 1..Len(edition[z]) : edition'[z][s] = edition[z][s]
  <2>1. PICK R \in SUBSET Rec : edition' = [edition EXCEPT ![y] = Append(@, R)]
    BY <1>2 DEF Edit, Plain
  <2>2. CASE y # z
    BY <2>1, <2>2 DEF TypeOK
  <2>3. CASE y = z
    <3>1. edition'[z] = Append(edition[z], R) /\ edition[z] \in Seq(SUBSET Rec)
      BY <2>1, <2>3 DEF TypeOK
    <3> QED BY <3>1
  <2> QED BY <2>2, <2>3
<1> QED
  BY <1>1, <1>2 DEF TypeOK, Next, Watcher, DropSoa, Break, Repair,
     handle_sighup, Restart, WakeOnSignal, WakeOnTimer, StartReload, LoadOk,
     LoadErr, LoadPanic, Publish, Respawn, Ask, TakeSnapshot, ReadHistory,
     Install, Cut, vars, manager

LEMMA ExactStays ==
  ASSUME TypeOK, [Next]_vars, NEW z \in Origins
  PROVE  /\ \A v \in Version : Exact(z, v) => Exact(z, v)'
         /\ \A d \in Delta : ExactDelta(edition[z], d)
                               => ExactDelta(edition'[z], d)
BY EditionGrows DEF Exact, ExactDelta, Version

\* A delta between two versions as written leads from the one to the other.
LEMMA ExactBuilt ==
  ASSUME TypeOK, DistinctKeys, NEW z \in Origins,
         NEW old \in Version, NEW new \in Version,
         Exact(z, old), Exact(z, new), Recorded(old, new)
  PROVE  ExactDelta(edition[z], build_delta(old, new))
<1>1. Missing(old.recs, new.recs) = old.recs \ new.recs
  BY MissingIsDifference DEF Version
<1>2. Missing(new.recs, old.recs) = new.recs \ old.recs
  BY MissingIsDifference DEF Version
<1> QED BY <1>1, <1>2 DEF Exact, ExactDelta, build_delta, Recorded

LEMMA ServerContentStep ==
  ASSUME TypeOK, TypeOK', DistinctKeys, Signed = {}, ServerContent, [Next]_vars
  PROVE  ServerContent'
<1>0. \A z \in Origins : /\ disk[z].ver \in Version /\ zones[z] \in Version
                         /\ published[z] \in Version
                         /\ history[z] \in Seq(Delta)
  BY DEF TypeOK, Files
<1>1. \A z \in Origins :
        /\ \A v \in Version : Exact(z, v) => Exact(z, v)'
        /\ \A i \in 1..Len(history[z]) : ExactDelta(edition'[z], history[z][i])
  BY <1>0, ExactStays DEF ServerContent
<1>2. \A z \in Origins, v \in Version :
        Exact(z, v)' <=> (v.serial >= 0 => /\ v.serial \in 1..Len(edition'[z])
                                           /\ v.recs = edition'[z][v.serial])
  BY DEF Exact
<1>3. ASSUME \A z \in Origins :
               /\ \/ disk'[z].ver = disk[z].ver \/ disk'[z].ver.serial = NoSoa
               /\ \/ zones'[z] \in {zones[z], disk[z].ver}
                  \/ zones'[z].serial = Absent
               /\ \/ published'[z] \in {published[z], zones[z], disk[z].ver}
                  \/ published'[z].serial = Absent
               /\ \A i \in 1..Len(history'[z]) :
                    ExactDelta(edition'[z], history'[z][i])
      PROVE  ServerContent'
  <2> SUFFICES ASSUME NEW z \in Origins
               PROVE  /\ Exact(z, disk[z].ver)'
                      /\ Exact(z, zones[z])'
                      /\ Exact(z, published[z])'
    BY <1>3 DEF ServerContent
  <2>1. /\ Exact(z, disk[z].ver) /\ Exact(z, zones[z])
        /\ Exact(z, published[z])
    BY DEF ServerContent
  <2>2. \A v \in {disk[z].ver, zones[z], published[z]} :
          v.serial >= 0 => /\ v.serial \in 1..Len(edition'[z])
                           /\ v.recs = edition'[z][v.serial]
    BY <1>0, <1>1, <1>2, <2>1
  <2>3. \/ disk'[z].ver = disk[z].ver \/ ~(disk'[z].ver.serial >= 0)
    BY <1>3 DEF NoSoa
  <2>4. \/ zones'[z] \in {zones[z], disk[z].ver}
        \/ ~(zones'[z].serial >= 0)
    BY <1>3 DEF Absent
  <2>5. \/ published'[z] \in {published[z], zones[z], disk[z].ver}
        \/ ~(published'[z].serial >= 0)
    BY <1>3 DEF Absent
  <2>6. Exact(z, disk[z].ver)'
    BY <2>2, <2>3 DEF Exact
  <2>7. Exact(z, zones[z])'
    BY <2>2, <2>4 DEF Exact
  <2>8. Exact(z, published[z])'
    BY <2>2, <2>5 DEF Exact
  <2> QED BY <2>6, <2>7, <2>8
<1>4. ASSUME NEW y \in Origins, Edit(y) PROVE ServerContent'
  <2>1. PICK R \in SUBSET Rec :
          /\ edition' = [edition EXCEPT ![y] = Append(@, R)]
          /\ disk' = [disk EXCEPT ![y] =
               [kind |-> "zone",
                ver  |-> [serial |-> Len(edition[y]) + 1, recs |-> R]]]
    BY <1>4 DEF Edit, Plain
  <2>2. UNCHANGED <<zones, published, history>>
    BY <1>4 DEF Edit, manager
  <2> SUFFICES ASSUME NEW z \in Origins
               PROVE  /\ Exact(z, disk[z].ver)'
                      /\ Exact(z, zones[z])'
                      /\ Exact(z, published[z])'
    BY <1>1, <2>2 DEF ServerContent
  <2>3. Exact(z, zones[z])' /\ Exact(z, published[z])'
    <3>1. \A v \in {zones[z], published[z]} :
            v.serial >= 0 => /\ v.serial \in 1..Len(edition'[z])
                             /\ v.recs = edition'[z][v.serial]
      BY <1>0, <1>1, <1>2 DEF ServerContent
    <3> QED BY <2>2, <3>1 DEF Exact
  <2>4. CASE y = z
    <3>1. /\ edition'[z] = Append(edition[z], R)
          /\ edition[z] \in Seq(SUBSET Rec)
          /\ disk'[z].ver = [serial |-> Len(edition[z]) + 1, recs |-> R]
      BY <2>1, <2>4 DEF TypeOK
    <3>2. /\ Len(edition'[z]) = Len(edition[z]) + 1
          /\ Len(edition[z]) \in Nat
          /\ edition'[z][Len(edition[z]) + 1] = R
      BY <3>1
    <3> QED BY <2>3, <3>1, <3>2 DEF Exact
  <2>5. CASE y # z
    <3>1. disk'[z] = disk[z] /\ edition'[z] = edition[z]
      BY <2>1, <2>5 DEF TypeOK
    <3>2. Exact(z, disk[z].ver)
      BY DEF ServerContent
    <3>3. Exact(z, disk[z].ver)'
      BY <3>1, <3>2 DEF Exact
    <3> QED BY <2>3, <3>3
  <2> QED BY <2>4, <2>5
<1>5. ASSUME NEW y \in Origins, DropSoa(y) PROVE ServerContent'
  <2>1. \A z \in Origins : disk'[z].ver = disk[z].ver
                           \/ disk'[z].ver.serial = NoSoa
    BY <1>5, DroppedSoa DEF DropSoa, TypeOK
  <2> QED BY <1>1, <1>3, <1>5, <2>1 DEF DropSoa, manager
<1>6. ASSUME NEW y \in Origins, Break(y) \/ Repair(y) PROVE ServerContent'
  BY <1>1, <1>3, <1>6, KeptFile DEF Break, Repair, manager
<1>7. CASE Restart
  <2>1. \A z \in Origins : \/ zones'[z] = disk[z].ver \/ zones'[z] = Unloaded
    BY <1>7 DEF Restart, Startups, Loaded
  <2>2. published' = zones' /\ disk' = disk
        /\ history' = [z \in Origins |-> <<>>]
    BY <1>7 DEF Restart
  <2> QED BY <1>3, <2>1, <2>2 DEF Unloaded
<1>8. ASSUME NEW y \in Origins, LoadOk(y) PROVE ServerContent'
  <2> DEFINE new == disk[y].ver
             h == Remember(history[y], zones[y], new)
  <2>1. /\ history' = [history EXCEPT ![y] = h]
        /\ zones' = [zones EXCEPT ![y] = new]
        /\ UNCHANGED <<disk, edition, published>>
    BY <1>8 DEF LoadOk, Loaded
  <2>2. Len(history[y]) <= HistoryCap
    BY DEF TypeOK
  <2>3. /\ h \in Seq(Delta)
        /\ \A i \in DOMAIN h : \/ \E j \in DOMAIN history[y] : h[i] = history[y][j]
                               \/ /\ Recorded(zones[y], new)
                                  /\ h[i] = build_delta(zones[y], new)
    BY <1>0, <2>2, RememberType
  <2>4. Recorded(zones[y], new)
          => ExactDelta(edition[y], build_delta(zones[y], new))
    BY <1>0, ExactBuilt DEF ServerContent
  <2> HIDE DEF h
  <2>5. \A i \in 1..Len(h) : ExactDelta(edition[y], h[i])
    <3>1. DOMAIN h = 1..Len(h) /\ DOMAIN history[y] = 1..Len(history[y])
      BY <1>0, <2>3
    <3> QED BY <2>3, <2>4, <3>1 DEF ServerContent
  <2>6. \A z \in Origins : \A i \in 1..Len(history'[z]) :
          ExactDelta(edition'[z], history'[z][i])
    BY <2>1, <2>5 DEF ServerContent, TypeOK
  <2>7. \A z \in Origins : zones'[z] \in {zones[z], disk[z].ver}
    BY <2>1 DEF TypeOK
  <2> QED BY <1>3, <2>1, <2>6, <2>7
<1>9. CASE Publish
  BY <1>1, <1>3, <1>9 DEF Publish, manager
<1>10. CASE UNCHANGED <<disk, edition, zones, published, history>>
  BY <1>1, <1>3, <1>10
<1> QED
  BY <1>4, <1>5, <1>6, <1>7, <1>8, <1>9, <1>10
     DEF Next, Watcher, handle_sighup, WakeOnSignal, WakeOnTimer, StartReload,
         LoadErr, LoadPanic, Respawn, Ask, TakeSnapshot, ReadHistory, Install,
         Cut, vars, manager

\* A full answer is the snapshot itself.
LEMMA AxfrIsExact ==
  ASSUME NEW cp \in Version, NEW zone \in Version
  PROVE  LET answer == axfr_stream(zone)
         IN  answer.kind # "empty" => Apply(cp, answer) = zone
BY DEF axfr_stream, Apply, Version

\* So is the result of an incremental one, be it up to date, deltas or full.
LEMMA IxfrIsExact ==
  ASSUME DistinctKeys, NEW E \in Seq(SUBSET Rec),
         NEW cp \in Version, NEW zone \in Version, NEW h \in Seq(Delta),
         cp.serial >= 0 => cp.serial \in 1..Len(E) /\ cp.recs = E[cp.serial],
         zone.serial >= 0 =>
           zone.serial \in 1..Len(E) /\ zone.recs = E[zone.serial],
         \A i \in 1..Len(h) : ExactDelta(E, h[i])
  PROVE  LET answer == ixfr_stream(zone, cp.serial, ixfr_chain(h, cp.serial))
         IN  answer.kind # "empty" => Apply(cp, answer) = zone
<1> DEFINE chain == ixfr_chain(h, cp.serial)
           answer == ixfr_stream(zone, cp.serial, chain)
<1>0. cp.serial \in Int /\ zone.serial \in Int
  BY DEF Version
<1>1. /\ chain \in Seq(Delta)
      /\ chain # <<>> => chain[1].from = cp.serial
      /\ Contiguous(chain)
      /\ \A k \in 1..Len(chain) : \E j \in 1..Len(h) : chain[k] = h[j]
  BY <1>0, IxfrChainFacts
<1> HIDE DEF chain
<1>2. CASE zone.serial >= 0 /\ zone.serial = cp.serial
  <2>1. answer.kind = "uptodate"
    BY <1>2 DEF ixfr_stream
  <2>2. Apply(cp, answer) = cp
    BY <2>1 DEF Apply
  <2>3. cp = zone
    BY <1>2 DEF Version
  <2> QED BY <2>2, <2>3 DEF chain
<1>3. CASE /\ zone.serial >= 0 /\ zone.serial # cp.serial /\ chain # <<>>
           /\ chain[Len(chain)].to = zone.serial
  <2>1. answer = [kind |-> "deltas", serial |-> zone.serial, recs |-> {},
                  deltas |-> chain]
    BY <1>3 DEF ixfr_stream
  <2>2. \A k \in 1..Len(chain) : ExactDelta(E, chain[k])
    BY <1>1
  <2>3. AppliedRange(E[chain[1].from], chain, 1, Len(chain))
          = E[chain[Len(chain)].to]
    BY <1>1, <1>3, <2>2, ChainIsExact
  <2>4. cp.serial \in 1..Len(E)
    <3>1. 1 \in 1..Len(chain)
      BY <1>1, <1>3
    <3> QED BY <1>1, <1>3, <2>2, <3>1 DEF ExactDelta
  <2>5. cp.recs = E[chain[1].from] /\ zone.recs = E[chain[Len(chain)].to]
    BY <1>1, <1>3, <2>4
  <2>6. Apply(cp, answer) = [serial |-> zone.serial, recs |-> zone.recs]
    BY <2>1, <2>3, <2>5 DEF Apply
  <2> QED BY <2>6 DEF Version, chain
<1>4. CASE ~(zone.serial >= 0 /\ zone.serial = cp.serial)
           /\ ~(/\ zone.serial >= 0 /\ chain # <<>>
                /\ chain[Len(chain)].to = zone.serial)
  <2>1. answer = axfr_stream(zone)
    BY <1>4 DEF ixfr_stream
  <2> QED BY <2>1, AxfrIsExact DEF chain
<1> QED BY <1>2, <1>3, <1>4

LEMMA ClientContentStep ==
  ASSUME TypeOK, TypeOK', DistinctKeys, NoNesting, ContentInv, [Next]_vars,
         NEW c \in Clients
  PROVE  ClientContent(c)'
<1> DEFINE z == Follows[c]
<1>1. /\ z \in Origins
      /\ copy[c] \in Version /\ xfer[c] \in Transfers
      /\ xfer[c].snap \in Version /\ published[z] \in Version
      /\ history[z] \in Seq(Delta) /\ edition[z] \in Seq(SUBSET Rec)
  BY ReloadAssumption DEF TypeOK, Transfers
<1>2. \A v \in Version :
        Exact(z, v) => (v.serial >= 0 => /\ v.serial \in 1..Len(edition'[z])
                                         /\ v.recs = edition'[z][v.serial])
  BY <1>1, ExactStays DEF Exact
<1>3. /\ ClientContent(c) /\ Exact(z, published[z])
      /\ \A i \in 1..Len(history[z]) : ExactDelta(edition[z], history[z][i])
  BY <1>1 DEF ContentInv, ServerContent
<1>4. ASSUME copy'[c] = copy[c] PROVE Exact(z, copy[c])'
  BY <1>1, <1>2, <1>3, <1>4 DEF ClientContent, Exact
<1>5. ASSUME xfer'[c].snap \in {xfer[c].snap, published[z]},
             Holds(c) \/ xfer'[c].snap = published[z]
      PROVE  Exact(z, xfer[c].snap)'
  BY <1>1, <1>2, <1>3, <1>5 DEF ClientContent, Exact
<1> HIDE DEF z
<1>6. CASE xfer'[c] = xfer[c] /\ copy'[c] = copy[c]
  <2>1. Exact(z, copy[c])'
    BY <1>4, <1>6
  <2>2. Holds(c) => Exact(z, xfer[c].snap)'
    BY <1>5, <1>6
  <2> QED BY <1>3, <1>6, <2>1, <2>2 DEF ClientContent, Holds, Answered, z
<1>7. CASE xfer'[c] = Idle(c) /\ copy'[c] = copy[c]
  BY <1>4, <1>7 DEF ClientContent, Holds, Answered, Idle, z
<1>8. CASE Ask(c)
  BY <1>4, <1>8, AskedTransfer DEF ClientContent, Holds, Answered, z
<1>9. CASE TakeSnapshot(c)
  <2>1. copy'[c] = copy[c] /\ xfer[c].serial = copy[c].serial
    BY <1>3, <1>9, SnapshotTransfer DEF ClientContent
  <2>2. CASE xfer'[c] = Idle(c)
    BY <1>4, <2>1, <2>2 DEF ClientContent, Holds, Answered, Idle, z
  <2>3. CASE /\ xfer'[c].snap = published[z]
             /\ xfer'[c].serial = xfer[c].serial
             /\ \/ xfer'[c].stage = "snapshot"
                \/ /\ xfer'[c].stage = "answered"
                   /\ xfer'[c].answer = axfr_stream(published[z])
    <3>1. Exact(z, copy[c])' /\ Exact(z, xfer[c].snap)'
      BY <1>4, <1>5, <2>1, <2>3
    <3>2. Answered(c)' => Apply(copy[c], xfer'[c].answer) = published[z]
      BY <1>1, <2>3, AxfrIsExact DEF Answered
    <3> QED BY <2>1, <2>3, <3>1, <3>2 DEF ClientContent, z
  <2> QED BY <1>9, <2>2, <2>3, SnapshotTransfer DEF z
<1>10. CASE ReadHistory(c)
  <2>1. /\ copy'[c] = copy[c] /\ xfer'[c].snap = xfer[c].snap
        /\ xfer'[c].serial = copy[c].serial /\ Holds(c)
        /\ xfer'[c].answer = ixfr_stream(xfer[c].snap, copy[c].serial,
                               ixfr_chain(history[z], copy[c].serial))
    BY <1>3, <1>10, HistoryTransfer DEF ClientContent, Holds, z
  <2>2. Exact(z, copy[c])' /\ Exact(z, xfer[c].snap)'
    BY <1>4, <1>5, <2>1
  <2>3. Exact(z, copy[c]) /\ Exact(z, xfer[c].snap)
    BY <1>3, <2>1 DEF ClientContent, z
  <2>4. xfer'[c].answer.kind # "empty"
          => Apply(copy[c], xfer'[c].answer) = xfer[c].snap
    <3> DEFINE answer == ixfr_stream(xfer[c].snap, copy[c].serial,
                                     ixfr_chain(history[z], copy[c].serial))
    <3>1. /\ copy[c].serial >= 0 => /\ copy[c].serial \in 1..Len(edition[z])
                                    /\ copy[c].recs = edition[z][copy[c].serial]
          /\ xfer[c].snap.serial >= 0 =>
               /\ xfer[c].snap.serial \in 1..Len(edition[z])
               /\ xfer[c].snap.recs = edition[z][xfer[c].snap.serial]
      BY <2>3 DEF Exact
    <3>2. answer.kind # "empty" => Apply(copy[c], answer) = xfer[c].snap
      BY <1>1, <1>3, <3>1, IxfrIsExact
    <3> QED BY <2>1, <3>2
  <2> QED BY <2>1, <2>2, <2>4 DEF ClientContent, Answered, z
<1>11. CASE Install(c)
  <2>1. /\ xfer[c].stage = "answered"
        /\ copy'[c] = Apply(copy[c], xfer[c].answer)
        /\ xfer'[c].stage = "idle"
    BY <1>11 DEF Install, TypeOK, Idle
  <2>2. copy'[c] \in {copy[c], xfer[c].snap}
    <3>1. CASE xfer[c].answer.kind = "empty"
      BY <2>1, <3>1 DEF Apply
    <3>2. CASE xfer[c].answer.kind # "empty"
      BY <1>3, <2>1, <3>2 DEF ClientContent, Answered
    <3> QED BY <3>1, <3>2
  <2>3. Exact(z, copy[c])'
    BY <1>1, <1>2, <1>3, <2>1, <2>2 DEF ClientContent, Holds, Exact, z
  <2> QED BY <2>1, <2>3 DEF ClientContent, Holds, Answered, z
<1> QED BY <1>6, <1>7, <1>8, <1>9, <1>10, <1>11, ClientSteps

LEMMA ContentInit ==
  ASSUME Init, Signed = {}
  PROVE  ContentInv
<1>0. TypeOK
  BY TypeInit
<1>1. \A z \in Origins : /\ Len(edition[z]) = 1
                         /\ disk[z].ver = [serial |-> 1, recs |-> edition[z][1]]
  <2>1. edition \in [Origins -> {<<R>> : R \in SUBSET Plain}]
    BY DEF Init
  <2>2. \A z \in Origins : Len(edition[z]) = 1
    BY <2>1
  <2> QED BY <2>2 DEF Init
<1>2. \A z \in Origins : \/ zones[z] = disk[z].ver \/ zones[z] = Unloaded
  <2>1. zones \in Startups
    BY DEF Init
  <2>2. \A z \in Origins :
          zones[z] \in IF disk[z].kind = "zone" THEN {disk[z].ver}
                                                ELSE {Unloaded}
    BY <2>1 DEF Startups, Loaded
  <2> QED BY <2>2
<1>3. /\ published = zones /\ history = [z \in Origins |-> <<>>]
      /\ xfer = [c \in Clients |-> Idle(c)]
      /\ copy = [c \in Clients |-> Unloaded]
  BY DEF Init
<1>4. \A z \in Origins : Exact(z, disk[z].ver) /\ Exact(z, Unloaded)
  <2> SUFFICES ASSUME NEW z \in Origins
               PROVE  Exact(z, disk[z].ver) /\ Exact(z, Unloaded)
    OBVIOUS
  <2> DEFINE written == [serial |-> 1, recs |-> edition[z][1]]
  <2>1. written.serial = 1 /\ written.recs = edition[z][1]
    OBVIOUS
  <2>2. disk[z].ver = written /\ Len(edition[z]) = 1
    BY <1>1
  <2> HIDE DEF written
  <2>3. Exact(z, disk[z].ver)
    BY <2>1, <2>2 DEF Exact
  <2> QED BY <2>3 DEF Exact, Unloaded, Absent
<1>5. ServerContent
  BY <1>2, <1>3, <1>4 DEF ServerContent
<1>6. ASSUME NEW c \in Clients PROVE ClientContent(c)
  BY <1>3, <1>4, ReloadAssumption
     DEF ClientContent, Holds, Answered, Idle
<1> QED BY <1>5, <1>6 DEF ContentInv

\* A finished transfer leads to exactly the version of which the server took
\* its snapshot, however many reloads come before the history is read, and
\* however long the history is; for zones that are not signed when loaded
\* (maybe_zone_transfer, ixfr_chain, ixfr_stream).
THEOREM TransfersAreExact ==
  DistinctKeys /\ NoNesting /\ Signed = {} => (Spec => []AnswerIsExact)
<1> SUFFICES ASSUME DistinctKeys, NoNesting, Signed = {}
             PROVE  Spec => []AnswerIsExact
  OBVIOUS
<1>1. Init => ContentInv
  BY ContentInit
<1>2. TypeOK /\ TypeOK' /\ ContentInv /\ [Next]_vars => ContentInv'
  <2> SUFFICES ASSUME TypeOK, TypeOK', ContentInv, [Next]_vars
               PROVE  ContentInv'
    OBVIOUS
  <2>1. ServerContent'
    BY ServerContentStep DEF ContentInv
  <2>2. \A c \in Clients : ClientContent(c)'
    BY ClientContentStep
  <2> QED BY <2>1, <2>2 DEF ContentInv
<1>3. ContentInv => AnswerIsExact
  BY DEF ContentInv, ClientContent, AnswerIsExact
<1> QED BY <1>1, <1>2, <1>3, TypeCorrect, PTL DEF Spec
=============================================================================
