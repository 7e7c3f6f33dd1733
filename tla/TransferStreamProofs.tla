------------------------ MODULE TransferStreamProofs ------------------------
(***************************************************************************)
(* Theorems about TransferStream for any size of zones and deltas, any      *)
(* number of records in a message, of keys, of ticks and of faults.         *)
(***************************************************************************)
EXTENDS TransferStream, FiniteSetTheorems, SequenceTheorems, TLAPS

-----------------------------------------------------------------------------
(* Recursion over the naturals, by the least counterexample.                *)

\* A non-empty set of naturals has a least element.
LEMMA LeastNat ==
  ASSUME NEW S, S \subseteq Nat, S # {}
  PROVE  \E m \in S : \A n \in S : m <= n
<1> DEFINE Initial == {0..n : n \in S}
           R == StrictSubsetOrdering(Nat)
<1>1. Initial \subseteq FiniteSubsetsOf(Nat)
  <2>1. \A n \in S : IsFiniteSet(0..n)
    BY FS_Interval
  <2> QED BY <2>1 DEF FiniteSubsetsOf
<1>2. IsWellFoundedOn(R, FiniteSubsetsOf(Nat))
  BY FS_StrictSubsetOrderingWellFounded
<1>3. Initial # {}
  OBVIOUS
<1>4. PICK x \in Initial : \A y \in Initial : ~(<<y, x>> \in R)
  <2> HIDE DEF Initial, R
  <2> QED BY <1>1, <1>2, <1>3, WFMin, Zenon
<1>5. PICK m \in S : x = 0..m
  OBVIOUS
<1>6. ASSUME NEW n \in S, n < m
      PROVE  FALSE
  <2>1. 0..n \in Initial /\ 0..n \subseteq 0..m /\ 0..n # 0..m
    BY <1>6
  <2>2. <<0..n, 0..m>> \in R
    BY <2>1, <1>1, <1>5 DEF StrictSubsetOrdering, FiniteSubsetsOf
  <2> QED BY <1>4, <1>5, <2>1, <2>2
<1> QED BY <1>6

\* A set of naturals with 0, and with n whenever it has n - 1, has them all.
LEMMA UpTo ==
  ASSUME NEW N \in Nat, NEW S, 0 \in S,
         \A n \in 1..N : n - 1 \in S => n \in S
  PROVE  0..N \subseteq S
<1> DEFINE Missed == (0..N) \ S
<1>1. SUFFICES ASSUME Missed # {}
               PROVE  FALSE
  OBVIOUS
<1>2. Missed \subseteq Nat
  OBVIOUS
<1>3. PICK m \in Missed : \A n \in Missed : m <= n
  <2> HIDE DEF Missed
  <2> QED BY <1>1, <1>2, LeastNat
<1>4. m \in 1..N /\ m - 1 \in 0..N
  BY <1>3
<1>5. m - 1 \in S
  BY <1>3, <1>4
<1> QED BY <1>3, <1>4, <1>5

\* f takes the steps one after the other.
Iterated(N, S, base, step, f) ==
  /\ f \in [0..N -> S]
  /\ f[0] = base
  /\ \A n \in 1..N : f[n] = step[n][f[n - 1]]

StepsIn(N, S, step) == step \in [1..N -> [S -> S]]

\* A recursive function exists that takes one given step after the other.
LEMMA Iterates ==
  ASSUME NEW N \in Nat, NEW S, NEW base \in S, NEW step, StepsIn(N, S, step)
  PROVE  \E f : Iterated(N, S, base, step, f)
<1>0. step \in [1..N -> [S -> S]]
  BY DEF StepsIn
<1> DEFINE Goes(f, m) ==
             f[0] = base /\ \A n \in 1..m : f[n] = step[n][f[n - 1]]
           Good == {m \in 0..N : \E f \in [0..m -> S] : Goes(f, m)}
<1>1. 0 \in Good
  <2> DEFINE f == [n \in 0..0 |-> base]
  <2>1. f \in [0..0 -> S]
    OBVIOUS
  <2>2. Goes(f, 0)
    OBVIOUS
  <2> HIDE DEF Goes, f
  <2> QED BY <2>1, <2>2
<1>2. ASSUME NEW m \in 1..N, m - 1 \in Good
      PROVE  m \in Good
  <2>1. PICK f \in [0..(m - 1) -> S] : Goes(f, m - 1)
    BY <1>2
  <2> DEFINE g == [n \in 0..m |-> IF n = m THEN step[m][f[m - 1]] ELSE f[n]]
  <2>2. f[m - 1] \in S
    OBVIOUS
  <2>3. step[m] \in [S -> S]
    BY <1>0
  <2>4. step[m][f[m - 1]] \in S
    BY <2>2, <2>3
  <2>5. g \in [0..m -> S]
    BY <2>4
  <2>6. Goes(g, m)
    <3>1. g[0] = base
      BY <2>1
    <3>2. ASSUME NEW n \in 1..m
          PROVE  g[n] = step[n][g[n - 1]]
      <4>1. CASE n = m
        BY <4>1
      <4>2. CASE n # m
        <5>1. n \in 1..(m - 1) /\ n \in 0..m /\ n - 1 \in 0..m /\ n - 1 # m
          BY <4>2
        <5>2. f[n] = step[n][f[n - 1]]
          BY <2>1, <5>1
        <5> QED BY <4>2, <5>1, <5>2
      <4> QED BY <4>1, <4>2
    <3> QED BY <3>1, <3>2
  <2> HIDE DEF Goes, g
  <2> QED BY <2>5, <2>6
<1>3. N \in Good
  <2> HIDE DEF Good
  <2>1. \A m \in 1..N : m - 1 \in Good => m \in Good
    BY <1>2
  <2>2. 0..N \subseteq Good
    BY <1>1, <2>1, UpTo
  <2> QED BY <2>2
<1> QED BY <1>3 DEF Iterated

-----------------------------------------------------------------------------
(* Messages.                                                                *)

\* The records between two positions, cut into messages: cut b[k] is where
\* message k ends.
Cuts(records, packets, b) ==
  \A k \in 1..Len(packets) :
    /\ b[k - 1] < b[k]
    /\ b[k] - b[k - 1] <= MaxRRs
    /\ packets[k] = SubSeq(records, b[k - 1] + 1, b[k])

Sliced(records, packets, from, to) ==
  \E b \in [0..Len(packets) -> 0..Len(records)] :
    b[0] = from /\ b[Len(packets)] = to /\ Cuts(records, packets, b)

LEMMA DivFacts ==
  ASSUME NEW a \in Nat, NEW m \in Nat, m >= 1
  PROVE  /\ a \div m \in Nat
         /\ (a \div m) * m <= a
         /\ a < (a \div m) * m + m
OBVIOUS

\* chunks cuts records into messages of MaxRRs, and the rest.
LEMMA ChunksSliced ==
  ASSUME NEW records \in Seq(Record)
  PROVE  /\ chunks(records) \in Seq(Seq(Record))
         /\ Sliced(records, chunks(records), 0, Len(records))
<1> DEFINE L == Len(records)
           K == (L + MaxRRs - 1) \div MaxRRs
           b == [k \in 0..K |-> IF k * MaxRRs < L THEN k * MaxRRs ELSE L]
<1>0. MaxRRs \in Nat /\ MaxRRs >= 2 /\ L \in Nat
  BY StreamAssumption
<1>1. K \in Nat /\ K * MaxRRs <= L + MaxRRs - 1 /\ L - 1 < K * MaxRRs
  <2>1. L + MaxRRs - 1 \in Nat
    BY <1>0
  <2> HIDE DEF L
  <2> QED BY <1>0, <2>1, DivFacts
<1>2. \A k \in 0..K : k * MaxRRs \in Nat
  BY <1>0, <1>1
<1>3. ASSUME NEW k \in 1..K
      PROVE  (k - 1) * MaxRRs = k * MaxRRs - MaxRRs
  <2> HIDE DEF K, L
  <2>1. k \in Int
    BY <1>1
  <2> QED BY <1>0, <2>1
<1>4. ASSUME NEW k \in 1..K
      PROVE  k * MaxRRs <= K * MaxRRs
  <2> HIDE DEF K, L
  <2>1. K - k \in Nat /\ k \in Nat
    BY <1>1
  <2>2. (K - k) * MaxRRs \in Nat
    BY <1>0, <2>1
  <2>3. K * MaxRRs = (K - k) * MaxRRs + k * MaxRRs
    BY <1>0, <1>1, <2>1
  <2>4. k * MaxRRs \in Nat
    BY <1>0, <2>1
  <2> QED BY <2>2, <2>3, <2>4
<1> HIDE DEF K, L
<1>5. b \in [0..K -> 0..L]
  BY <1>0, <1>1, <1>2
<1>6. b[0] = 0 /\ b[K] = L
  BY <1>0, <1>1, <1>2
<1>7. ASSUME NEW k \in 1..K
      PROVE  /\ b[k - 1] < b[k] /\ b[k] - b[k - 1] <= MaxRRs
             /\ b[k - 1] = (k - 1) * MaxRRs
             /\ b[k] = IF k * MaxRRs < L THEN k * MaxRRs ELSE L
  BY <1>0, <1>1, <1>2, <1>3, <1>4
<1>8. chunks(records) = [k \in 1..K |-> SubSeq(records, b[k - 1] + 1, b[k])]
  <2>1. \A k \in 1..K : SubSeq(records, (k - 1) * MaxRRs + 1,
               IF k * MaxRRs < L THEN k * MaxRRs ELSE L)
               = SubSeq(records, b[k - 1] + 1, b[k])
    <3> HIDE DEF b
    <3> QED BY <1>7
  <2> QED BY <2>1 DEF chunks, K, L
<1> HIDE DEF b
<1>9. ASSUME NEW k \in 1..K
      PROVE  SubSeq(records, b[k - 1] + 1, b[k]) \in Seq(Record)
  <2>1. b[k - 1] \in 0..L /\ b[k] \in 0..L
    BY <1>5, <1>1
  <2>2. \A i \in (b[k - 1] + 1)..b[k] : records[i] \in Record
    BY <2>1, ElementOfSeq DEF L
  <2> QED BY <2>1, <2>2, SubSeqProperties
<1>10. chunks(records) \in [1..K -> Seq(Record)]
  BY <1>8, <1>9
<1>11. chunks(records) \in Seq(Seq(Record)) /\ Len(chunks(records)) = K
  BY <1>10, <1>1, SeqDef
<1>12. Cuts(records, chunks(records), b)
  BY <1>7, <1>8, <1>11 DEF Cuts
<1> QED BY <1>5, <1>6, <1>11, <1>12 DEF Sliced, L

\* One more message continues the cut.
LEMMA SlicedAppend ==
  ASSUME NEW records \in Seq(Record), NEW packets \in Seq(Seq(Record)),
         NEW start, NEW from \in 0..Len(records), NEW to \in 0..Len(records),
         from < to, to - from <= MaxRRs, Sliced(records, packets, start, from)
  PROVE  Sliced(records, Append(packets, SubSeq(records, from + 1, to)),
                start, to)
<1> DEFINE n == Len(packets)
           new == SubSeq(records, from + 1, to)
           longer == Append(packets, new)
<1>1. PICK b \in [0..n -> 0..Len(records)] :
        b[0] = start /\ b[n] = from /\ Cuts(records, packets, b)
  BY DEF Sliced
<1>2. n \in Nat /\ Len(longer) = n + 1 /\ longer[n + 1] = new
      /\ \A k \in 1..n : longer[k] = packets[k]
  OBVIOUS
<1> DEFINE c == [k \in 0..(n + 1) |-> IF k = n + 1 THEN to ELSE b[k]]
<1>3. c \in [0..(n + 1) -> 0..Len(records)]
  BY <1>1, <1>2
<1>4. c[0] = start /\ c[n + 1] = to /\ c[n] = from
  BY <1>1, <1>2
<1>5. ASSUME NEW k \in 1..(n + 1)
      PROVE  /\ c[k - 1] < c[k]
             /\ c[k] - c[k - 1] <= MaxRRs
             /\ longer[k] = SubSeq(records, c[k - 1] + 1, c[k])
  <2>1. CASE k = n + 1
    <3>1. k - 1 = n
      BY <2>1, <1>2
    <3> HIDE DEF c, longer, n
    <3> QED BY <2>1, <3>1, <1>2, <1>4
  <2>2. CASE k # n + 1
    <3>1. k \in 1..n /\ k - 1 \in 0..n /\ k \in 0..n /\ k - 1 # n + 1
      BY <2>2, <1>2
    <3>2. c[k] = b[k] /\ c[k - 1] = b[k - 1]
      BY <2>2, <3>1
    <3> QED BY <3>1, <3>2, <1>1, <1>2 DEF Cuts
  <2> QED BY <2>1, <2>2
<1>6. Cuts(records, longer, c)
  <2> HIDE DEF c, longer, n
  <2> QED BY <1>2, <1>5 DEF Cuts
<1> HIDE DEF c
<1> QED BY <1>2, <1>3, <1>4, <1>6 DEF Sliced

\* What two sequences of records, of m and n of them, are one after the other.
LEMMA Joined ==
  ASSUME NEW s \in Seq(Record), NEW t \in Seq(Record)
  PROVE  /\ s \o t \in Seq(Record)
         /\ Len(s \o t) = Len(s) + Len(t)
         /\ \A i \in 1..Len(s) : (s \o t)[i] = s[i]
         /\ \A i \in 1..Len(t) : (s \o t)[Len(s) + i] = t[i]
<1>1. s \o t \in Seq(Record)
  BY ConcatProperties
<1>2. Len(s \o t) = Len(s) + Len(t)
  BY ConcatProperties
<1>3. \A i \in 1..(Len(s) + Len(t)) : (s \o t)[i] =
                     IF i <= Len(s) THEN s[i] ELSE t[i - Len(s)]
  BY ConcatProperties
<1>4. Len(s) \in Nat /\ Len(t) \in Nat
  BY LenProperties
<1>5. ASSUME NEW i \in 1..Len(s)
      PROVE  (s \o t)[i] = s[i]
  <2>1. i \in 1..(Len(s) + Len(t)) /\ i <= Len(s)
    BY <1>4
  <2> QED BY <2>1, <1>3, Zenon
<1>6. ASSUME NEW i \in 1..Len(t)
      PROVE  (s \o t)[Len(s) + i] = t[i]
  <2>1. /\ Len(s) + i \in 1..(Len(s) + Len(t))
        /\ ~(Len(s) + i <= Len(s))
        /\ (Len(s) + i) - Len(s) = i
    BY <1>4
  <2>2. (s \o t)[Len(s) + i] = t[(Len(s) + i) - Len(s)]
    BY <2>1, <1>3, Zenon
  <2> QED BY <2>1, <2>2, Zenon
<1> QED BY <1>1, <1>2, <1>5, <1>6, Zenon

LEMMA SoaType ==
  ASSUME NEW serial \in Nat
  PROVE  Soa(serial) \in Record
BY DEF Soa, Record

LEMMA BodyType ==
  ASSUME NEW serial \in Nat, NEW size \in Nat
  PROVE  /\ Body(serial, size) \in Seq(Record)
         /\ Len(Body(serial, size)) = size
         /\ \A i \in 1..size : /\ Body(serial, size)[i].type = "rr"
                               /\ Body(serial, size)[i].of = serial
<1>1. \A i \in 1..size : [type |-> "rr", of |-> serial, n |-> i] \in Record
  BY DEF Record
<1>2. Body(serial, size) \in [1..size -> Record]
  BY <1>1 DEF Body
<1> QED BY <1>2, SeqDef DEF Body

\* A whole zone begins and ends with its SOA, and has no other.
LEMMA WholeType ==
  ASSUME NEW serial \in Nat, NEW size \in Nat
  PROVE  /\ Whole(serial, size) \in Seq(Record)
         /\ Len(Whole(serial, size)) = size + 2
         /\ Whole(serial, size)[1] = Soa(serial)
         /\ Whole(serial, size)[size + 2] = Soa(serial)
         /\ \A i \in 1..size :
              Whole(serial, size)[i + 1] = Body(serial, size)[i]
<1> DEFINE body == Body(serial, size)
           first == <<Soa(serial)>>
<1>1. first \in Seq(Record) /\ Len(first) = 1 /\ first[1] = Soa(serial)
  BY SoaType
<1>2. body \in Seq(Record) /\ Len(body) = size
  BY BodyType
<1> HIDE DEF body, first
<1> DEFINE front == first \o body
           whole == front \o first
<1>3. /\ front \in Seq(Record)
      /\ Len(front) = size + 1
      /\ front[1] = Soa(serial)
      /\ \A i \in 1..size : front[i + 1] = body[i]
  <2>1. front \in Seq(Record) /\ Len(front) = Len(first) + Len(body)
    BY <1>1, <1>2, Joined, Zenon
  <2>2. front[1] = first[1]
    <3>1. 1 \in 1..Len(first)
      BY <1>1
    <3> QED BY <3>1, <1>1, <1>2, Joined, Zenon
  <2>3. ASSUME NEW i \in 1..size
        PROVE  front[i + 1] = body[i]
    <3>1. front[Len(first) + i] = body[i]
      BY <1>1, <1>2, Joined, Zenon
    <3> HIDE DEF front
    <3> QED BY <3>1, <1>1
  <2> HIDE DEF front
  <2> QED BY <2>1, <2>2, <2>3, <1>1, <1>2
<1> HIDE DEF front
<1>4. /\ whole \in Seq(Record)
      /\ Len(whole) = size + 2
      /\ \A i \in 1..(size + 1) : whole[i] = front[i]
      /\ whole[size + 2] = first[1]
  <2>1. whole \in Seq(Record) /\ Len(whole) = Len(front) + Len(first)
    BY <1>1, <1>3, Joined, Zenon
  <2>2. \A i \in 1..Len(front) : whole[i] = front[i]
    BY <1>1, <1>3, Joined, Zenon
  <2>3. whole[Len(front) + 1] = first[1]
    <3>1. 1 \in 1..Len(first)
      BY <1>1
    <3> QED BY <3>1, <1>1, <1>3, Joined, Zenon
  <2> HIDE DEF whole
  <2> QED BY <2>1, <2>2, <2>3, <1>1, <1>3
<1>5. Whole(serial, size) = whole
  BY DEF Whole, first, body, front
<1> HIDE DEF whole
<1>6. \A i \in 1..size : whole[i + 1] = body[i]
  BY <1>3, <1>4
<1>7. whole[1] = Soa(serial) /\ whole[size + 2] = Soa(serial)
  BY <1>1, <1>3, <1>4
<1> QED BY <1>4, <1>5, <1>6, <1>7 DEF body

\* The packets so far are a cut of the records, and current what follows it.
Packing(records, acc, to) ==
  \E from \in 0..to :
    /\ from < to /\ to - from <= MaxRRs
    /\ Sliced(records, acc.packets, 0, from)
    /\ acc.current = SubSeq(records, from + 1, to)

Accumulator == [packets : Seq(Seq(Record)), current : Seq(Record)]

LEMMA PackType ==
  ASSUME NEW acc \in Accumulator, NEW rr \in Record
  PROVE  Pack(acc, rr) \in Accumulator
<1>1. acc.packets \in Seq(Seq(Record)) /\ acc.current \in Seq(Record)
      /\ acc = [packets |-> acc.packets, current |-> acc.current]
  BY DEF Accumulator
<1>2. Append(acc.packets, acc.current) \in Seq(Seq(Record))
  BY <1>1
<1>3. <<rr>> \in Seq(Record) /\ Append(acc.current, rr) \in Seq(Record)
  BY <1>1
<1>4. [acc EXCEPT !.current = Append(@, rr)] \in Accumulator
  <2> DEFINE longer == Append(acc.current, rr)
  <2>1. longer \in Seq(Record)
    BY <1>3
  <2> HIDE DEF longer
  <2>2. [acc EXCEPT !.current = longer] \in Accumulator
    BY <2>1 DEF Accumulator
  <2> QED BY <2>2 DEF longer
<1> QED BY <1>1, <1>2, <1>3, <1>4 DEF Pack, Accumulator

\* Pack puts the next record into the message at hand, or, where that is full,
\* into one of its own.
LEMMA PackStep ==
  ASSUME NEW records \in Seq(Record), NEW acc \in Accumulator,
         NEW to \in 0..(Len(records) - 1), Packing(records, acc, to)
  PROVE  Packing(records, Pack(acc, records[to + 1]), to + 1)
<1> DEFINE rr == records[to + 1]
           next == Pack(acc, rr)
<1>0. MaxRRs \in Nat /\ MaxRRs >= 2 /\ Len(records) \in Nat /\ to \in Nat
      /\ to + 1 \in 1..Len(records)
  BY StreamAssumption
<1>1. PICK from \in 0..to :
        /\ from < to /\ to - from <= MaxRRs
        /\ Sliced(records, acc.packets, 0, from)
        /\ acc.current = SubSeq(records, from + 1, to)
  BY DEF Packing
<1>2. acc.packets \in Seq(Seq(Record)) /\ acc.current \in Seq(Record)
      /\ acc = [packets |-> acc.packets, current |-> acc.current]
  BY DEF Accumulator
<1>3. Len(acc.current) = to - from
  <2>1. \A i \in (from + 1)..to : records[i] \in Record
    BY <1>0, ElementOfSeq
  <2>2. from + 1 \in Int /\ to \in Int
    BY <1>0
  <2>3. Len(SubSeq(records, from + 1, to)) =
          IF from + 1 <= to THEN to - (from + 1) + 1 ELSE 0
    BY <2>1, <2>2, SubSeqProperties
  <2> QED BY <2>3, <1>0, <1>1
<1>4. CASE Len(acc.current) >= MaxRRs
  <2>1. next = [packets |-> Append(acc.packets, acc.current),
                current |-> <<rr>>]
    BY <1>4 DEF Pack
  <2>2. Sliced(records, Append(acc.packets, acc.current), 0, to)
    <3>1. from \in 0..Len(records) /\ to \in 0..Len(records)
      BY <1>0
    <3> QED BY <1>1, <1>2, <3>1, SlicedAppend
  <2>3. <<rr>> = SubSeq(records, to + 1, to + 1)
    BY <1>0
  <2> HIDE DEF next
  <2>4. next.packets = Append(acc.packets, acc.current)
        /\ next.current = <<rr>>
    BY <2>1
  <2>5. to \in 0..(to + 1) /\ to < to + 1 /\ to + 1 - to <= MaxRRs
    BY <1>0
  <2>6. Packing(records, next, to + 1)
    <3>1. /\ Sliced(records, next.packets, 0, to)
          /\ next.current = SubSeq(records, to + 1, to + 1)
      BY <2>2, <2>3, <2>4
    <3> QED BY <2>5, <3>1 DEF Packing
  <2> QED BY <2>6 DEF next
<1>5. CASE ~(Len(acc.current) >= MaxRRs)
  <2>1. next = [acc EXCEPT !.current = Append(acc.current, rr)]
    BY <1>5 DEF Pack
  <2>2. Append(acc.current, rr) = SubSeq(records, from + 1, to + 1)
    BY <1>0, <1>1
  <2> HIDE DEF next
  <2>3. next.packets = acc.packets /\ next.current = Append(acc.current, rr)
    BY <2>1 DEF Accumulator
  <2>4. from \in 0..(to + 1) /\ from < to + 1 /\ to + 1 - from <= MaxRRs
    BY <1>0, <1>1, <1>3, <1>5
  <2>5. Packing(records, next, to + 1)
    <3>1. /\ Sliced(records, next.packets, 0, from)
          /\ next.current = SubSeq(records, from + 1, to + 1)
      BY <1>1, <2>2, <2>3
    <3> QED BY <2>4, <3>1 DEF Packing
  <2> QED BY <2>5 DEF next
<1> QED BY <1>4, <1>5

\* What SubSeq takes out of records are records.
LEMMA PieceType ==
  ASSUME NEW records \in Seq(Record),
         NEW from \in 0..Len(records), NEW to \in 0..Len(records)
  PROVE  /\ SubSeq(records, from + 1, to) \in Seq(Record)
         /\ from <= to => Len(SubSeq(records, from + 1, to)) = to - from
<1>1. Len(records) \in Nat
  OBVIOUS
<1>2. \A i \in (from + 1)..to : records[i] \in Record
  BY <1>1, ElementOfSeq
<1>3. from + 1 \in Int /\ to \in Int
  BY <1>1
<1>4. SubSeq(records, from + 1, to) \in Seq(Record)
      /\ Len(SubSeq(records, from + 1, to)) =
          IF from + 1 <= to THEN to - (from + 1) + 1 ELSE 0
  BY <1>2, <1>3, SubSeqProperties
<1> QED BY <1>1, <1>4

\* axfr_stream cuts the whole zone into messages.
LEMMA AxfrSliced ==
  ASSUME NEW serial \in Nat, NEW size \in Nat
  PROVE  /\ axfr_stream(serial, size) \in Seq(Seq(Record))
         /\ Sliced(Whole(serial, size), axfr_stream(serial, size), 0,
                   Len(Whole(serial, size)))
<1> DEFINE whole == Whole(serial, size)
           records == Append(Body(serial, size), Soa(serial))
           N == Len(records)
           base == [packets |-> <<>>, current |-> <<Soa(serial)>>]
           Steps(f) == f = [n \in 0..N |-> IF n = 0 THEN base
                                          ELSE Pack(f[n - 1], records[n])]
           acc == CHOOSE f : Steps(f)
           step == [n \in 1..N |-> [a \in Accumulator |-> Pack(a, records[n])]]
<1>1. /\ records \in Seq(Record)
      /\ N = size + 1
      /\ \A i \in 1..N : records[i] \in Record /\ records[i] = whole[i + 1]
  <2>1. /\ Body(serial, size) \in Seq(Record)
        /\ Len(Body(serial, size)) = size
    BY BodyType, Zenon
  <2>2. Soa(serial) \in Record
    BY SoaType
  <2>3. /\ records \in Seq(Record) /\ N = size + 1
        /\ \A i \in 1..size : records[i] = Body(serial, size)[i]
        /\ records[size + 1] = Soa(serial)
    BY <2>1, <2>2
  <2>4. /\ whole[size + 2] = Soa(serial)
        /\ \A i \in 1..size : whole[i + 1] = Body(serial, size)[i]
    BY WholeType, Zenon
  <2>5. size + 1 + 1 = size + 2
    OBVIOUS
  <2> HIDE DEF records, whole
  <2>6. \A i \in 1..N : records[i] \in Record
    BY <2>3, ElementOfSeq
  <2>7. ASSUME NEW i \in 1..N
        PROVE  records[i] = whole[i + 1]
    <3>1. CASE i = size + 1
      <4>1. i + 1 = size + 2
        BY <3>1
      <4> QED BY <3>1, <4>1, <2>3, <2>4
    <3>2. CASE i # size + 1
      <4>1. i \in 1..size
        BY <3>2, <2>3
      <4> QED BY <4>1, <2>3, <2>4
    <3> QED BY <3>1, <3>2
  <2> QED BY <2>3, <2>6, <2>7
<1>2. whole \in Seq(Record) /\ Len(whole) = size + 2 /\ whole[1] = Soa(serial)
  BY WholeType, Zenon
<1>3. base \in Accumulator
  BY SoaType DEF Accumulator
<1>4. axfr_stream(serial, size) = Append(acc[N].packets, acc[N].current)
  BY DEF axfr_stream
<1> HIDE DEF whole, records, base, N
<1>5. Steps(acc)
  <2>1. step \in [1..N -> [Accumulator -> Accumulator]]
    BY <1>1, PackType
  <2>2. N \in Nat
    BY <1>1
  <2>3. StepsIn(N, Accumulator, step)
    BY <2>1 DEF StepsIn
  <2> HIDE DEF step
  <2>4. \E f : Iterated(N, Accumulator, base, step, f)
    BY <1>3, <2>2, <2>3, Iterates
  <2>5. PICK f : Iterated(N, Accumulator, base, step, f)
    BY <2>4
  <2>6. /\ f \in [0..N -> Accumulator] /\ f[0] = base
         /\ \A n \in 1..N : f[n] = step[n][f[n - 1]]
    BY <2>5 DEF Iterated
  <2>7. \A n \in 1..N : f[n] = Pack(f[n - 1], records[n])
    <3>1. \A n \in 1..N : f[n - 1] \in Accumulator
      BY <2>2, <2>6
    <3> QED BY <2>6, <3>1 DEF step
  <2>8. Steps(f)
    BY <2>2, <2>6, <2>7
  <2> HIDE DEF Steps
  <2> QED BY <2>8
<1>6. /\ acc[0] = base
      /\ \A n \in 1..N : acc[n] = Pack(acc[n - 1], records[n])
  <2> HIDE DEF acc
  <2> QED BY <1>1, <1>5
<1> HIDE DEF acc
<1> DEFINE Good == {n \in 0..N : acc[n] \in Accumulator
                                 /\ Packing(whole, acc[n], n + 1)}
<1>7. 0 \in Good
  <2>1. <<Soa(serial)>> = SubSeq(whole, 1, 1)
    BY <1>2
  <2>2. Sliced(whole, <<>>, 0, 0)
    <3> DEFINE b == [k \in 0..0 |-> 0]
    <3>1. b \in [0..Len(<<>>) -> 0..Len(whole)] /\ b[0] = 0
      BY <1>2
    <3>2. Len(<<>>) = 0
      OBVIOUS
    <3>3. Cuts(whole, <<>>, b)
      BY <3>2 DEF Cuts
    <3> HIDE DEF b
    <3> QED BY <3>1, <3>2, <3>3 DEF Sliced
  <2>3. /\ Sliced(whole, base.packets, 0, 0)
        /\ base.current = SubSeq(whole, 0 + 1, 1)
    BY <2>1, <2>2 DEF base
  <2>4. 0 \in 0..1 /\ 0 < 1 /\ 1 - 0 <= MaxRRs
    BY StreamAssumption
  <2>5. Packing(whole, base, 1)
    BY <2>3, <2>4 DEF Packing
  <2> QED BY <2>5, <1>1, <1>3, <1>6
<1>8. ASSUME NEW n \in 1..N, n - 1 \in Good
      PROVE  n \in Good
  <2>1. acc[n - 1] \in Accumulator /\ Packing(whole, acc[n - 1], n)
    <3>1. (n - 1) + 1 = n
      BY <1>1
    <3> QED BY <1>8, <3>1
  <2>2. acc[n] = Pack(acc[n - 1], records[n])
    BY <1>6
  <2>3. records[n] \in Record /\ records[n] = whole[n + 1]
    BY <1>1
  <2>4. acc[n] \in Accumulator
    BY <2>1, <2>2, <2>3, PackType
  <2>5. n \in 0..(Len(whole) - 1)
    BY <1>1, <1>2
  <2>6. Packing(whole, Pack(acc[n - 1], whole[n + 1]), n + 1)
    BY <1>2, <2>1, <2>5, PackStep
  <2> QED BY <2>2, <2>3, <2>4, <2>6
<1>9. N \in Good
  <2> HIDE DEF Good
  <2>1. \A n \in 1..N : n - 1 \in Good => n \in Good
    BY <1>8
  <2>2. N \in Nat
    BY <1>1
  <2>3. 0..N \subseteq Good
    BY <1>7, <2>1, <2>2, UpTo
  <2> QED BY <2>2, <2>3
<1>10. acc[N] \in Accumulator /\ Packing(whole, acc[N], Len(whole))
  <2>1. N + 1 = Len(whole)
    BY <1>1, <1>2
  <2> QED BY <1>9, <2>1
<1>11. PICK from \in 0..Len(whole) :
         /\ from < Len(whole) /\ Len(whole) - from <= MaxRRs
         /\ Sliced(whole, acc[N].packets, 0, from)
         /\ acc[N].current = SubSeq(whole, from + 1, Len(whole))
  BY <1>10 DEF Packing
<1>12. acc[N].packets \in Seq(Seq(Record)) /\ acc[N].current \in Seq(Record)
  BY <1>10 DEF Accumulator
<1>13. Sliced(whole, Append(acc[N].packets, acc[N].current), 0, Len(whole))
  <2>1. Len(whole) \in 0..Len(whole)
    BY <1>2
  <2> QED BY <1>2, <1>11, <1>12, <2>1, SlicedAppend
<1>14. Append(acc[N].packets, acc[N].current) \in Seq(Seq(Record))
  BY <1>12
<1> QED BY <1>4, <1>13, <1>14 DEF whole

-----------------------------------------------------------------------------
(* The answers.                                                             *)

\* Two SOA records, each at the head of its half.
TwoHeads(change, d) ==
  /\ change \in Seq(Record)
  /\ change[1] = Soa(d - 1)
  /\ \E h \in 2..Len(change) :
       /\ change[h] = Soa(d)
       /\ \A i \in 1..Len(change) : i \notin {1, h} => change[i].type = "rr"

LEMMA ChangeType ==
  ASSUME NEW d \in Nat, d >= 1, NEW delta \in [removed : Nat, added : Nat]
  PROVE  TwoHeads(Change(d, delta), d)
<1> DEFINE r == delta.removed
           a == delta.added
           old == <<Soa(d - 1)>>
           new == <<Soa(d)>>
           gone == Body(d - 1, r)
           more == Body(d, a)
           s == old \o gone
           t == s \o new
           change == t \o more
<1>1. r \in Nat /\ a \in Nat /\ d - 1 \in Nat
  OBVIOUS
<1>2. /\ old \in Seq(Record) /\ Len(old) = 1 /\ old[1] = Soa(d - 1)
      /\ new \in Seq(Record) /\ Len(new) = 1 /\ new[1] = Soa(d)
  BY <1>1, SoaType
<1> HIDE DEF r, a
<1>3. gone \in Seq(Record) /\ Len(gone) = r
      /\ \A i \in 1..r : gone[i].type = "rr"
  <2>1. gone \in Seq(Record) /\ Len(gone) = r
    BY <1>1, BodyType
  <2>2. \A i \in 1..r : gone[i].type = "rr"
    BY <1>1 DEF Body
  <2> QED BY <2>1, <2>2
<1>4. more \in Seq(Record) /\ Len(more) = a
      /\ \A i \in 1..a : more[i].type = "rr"
  <2>1. more \in Seq(Record) /\ Len(more) = a
    BY <1>1, BodyType
  <2>2. \A i \in 1..a : more[i].type = "rr"
    BY <1>1 DEF Body
  <2> QED BY <2>1, <2>2
<1> HIDE DEF old, new, gone, more
<1>5. /\ s \in Seq(Record) /\ Len(s) = 1 + r /\ s[1] = Soa(d - 1)
      /\ \A i \in 1..r : s[1 + i] = gone[i]
  <2>1. /\ s \in Seq(Record) /\ Len(s) = Len(old) + Len(gone)
        /\ \A i \in 1..Len(old) : s[i] = old[i]
        /\ \A i \in 1..Len(gone) : s[Len(old) + i] = gone[i]
    BY <1>2, <1>3, Joined, Zenon
  <2> HIDE DEF s
  <2> QED BY <2>1, <1>2, <1>3
<1> HIDE DEF s
<1>6. /\ t \in Seq(Record) /\ Len(t) = r + 2 /\ t[r + 2] = Soa(d)
      /\ \A i \in 1..(r + 1) : t[i] = s[i]
  <2>1. /\ t \in Seq(Record) /\ Len(t) = Len(s) + Len(new)
        /\ \A i \in 1..Len(s) : t[i] = s[i]
        /\ \A i \in 1..Len(new) : t[Len(s) + i] = new[i]
    BY <1>2, <1>5, Joined, Zenon
  <2> HIDE DEF t
  <2> QED BY <2>1, <1>1, <1>2, <1>5
<1> HIDE DEF t
<1>7. /\ change \in Seq(Record) /\ Len(change) = r + 2 + a
      /\ \A i \in 1..(r + 2) : change[i] = t[i]
      /\ \A i \in 1..a : change[r + 2 + i] = more[i]
  <2>1. /\ change \in Seq(Record) /\ Len(change) = Len(t) + Len(more)
        /\ \A i \in 1..Len(t) : change[i] = t[i]
        /\ \A i \in 1..Len(more) : change[Len(t) + i] = more[i]
    BY <1>4, <1>6, Joined, Zenon
  <2> HIDE DEF change
  <2> QED BY <2>1, <1>1, <1>4, <1>6
<1>8. change = Change(d, delta)
  BY DEF Change, s, t, old, new, gone, more, r, a
<1> HIDE DEF change
<1>9. change[1] = Soa(d - 1) /\ change[r + 2] = Soa(d)
  BY <1>1, <1>5, <1>6, <1>7
<1>10. ASSUME NEW i \in 1..Len(change), i \notin {1, r + 2}
       PROVE  change[i].type = "rr"
  <2>1. CASE i < r + 2
    <3>1. /\ i - 1 \in 1..r /\ i \in 1..(r + 1) /\ i \in 1..(r + 2)
          /\ 1 + (i - 1) = i
      BY <1>1, <1>7, <1>10, <2>1
    <3>2. change[i] = gone[i - 1]
      BY <3>1, <1>5, <1>6, <1>7
    <3> QED BY <3>1, <3>2, <1>3
  <2>2. CASE i > r + 2
    <3>1. i - (r + 2) \in 1..a /\ r + 2 + (i - (r + 2)) = i
      BY <1>1, <1>7, <2>2
    <3>2. change[i] = more[i - (r + 2)]
      BY <3>1, <1>7
    <3> QED BY <3>1, <3>2, <1>4
  <2> QED BY <2>1, <2>2, <1>1, <1>7, <1>10
<1>11. r + 2 \in 2..Len(change)
  BY <1>1, <1>7
<1>12. \E h \in 2..Len(change) :
         /\ change[h] = Soa(d)
         /\ \A i \in 1..Len(change) : i \notin {1, h} => change[i].type = "rr"
  BY <1>9, <1>10, <1>11
<1> QED BY <1>7, <1>8, <1>9, <1>12 DEF TwoHeads

\* What the deltas so far have put after the announced SOA of the newest
\* version, newest: two SOA records each, and none of the newest version but
\* in the last of them, where only plain records follow it.
Grown(all, d, newest) ==
  /\ all \in Seq(Record)
  /\ Len(all) >= 1
  /\ all[1] = Soa(newest)
  /\ IsFiniteSet(Soas(all))
  /\ Cardinality(Soas(all)) = 2 * d + 1
  /\ d = 0 => Len(all) = 1
  /\ d >= 1 => Len(all) >= 2 /\ all[2] = Soa(0)
  /\ d < newest => \A i \in 2..Len(all) : all[i] # Soa(newest)
  /\ d = newest =>
       \E p \in 2..Len(all) :
         /\ all[p] = Soa(newest)
         /\ \A i \in 2..Len(all) : i # p => all[i] # Soa(newest)
         /\ \A i \in (p + 1)..Len(all) : all[i].type # "soa"

LEMMA SoasTwice ==
  ASSUME NEW all, NEW more, IsFiniteSet(Soas(all)),
         NEW x, NEW y, x \notin Soas(all), y \notin Soas(all), x # y,
         Soas(more) = (Soas(all) \cup {x}) \cup {y}
  PROVE  /\ IsFiniteSet(Soas(more))
         /\ Cardinality(Soas(more)) = Cardinality(Soas(all)) + 2
<1>1. /\ IsFiniteSet(Soas(all) \cup {x})
      /\ Cardinality(Soas(all) \cup {x}) = Cardinality(Soas(all)) + 1
  BY FS_AddElement
<1>2. y \notin Soas(all) \cup {x}
  OBVIOUS
<1>3. /\ IsFiniteSet((Soas(all) \cup {x}) \cup {y})
      /\ Cardinality((Soas(all) \cup {x}) \cup {y})
           = Cardinality(Soas(all) \cup {x}) + 1
  BY <1>1, <1>2, FS_AddElement
<1>4. Cardinality(Soas(all)) \in Nat
  BY FS_CardinalityType
<1>5. Cardinality(Soas(all)) + 1 + 1 = Cardinality(Soas(all)) + 2
  BY <1>4
<1> QED BY <1>1, <1>3, <1>5

LEMMA GrownStep ==
  ASSUME NEW newest \in Nat, NEW d \in 1..newest, NEW all,
         Grown(all, d - 1, newest),
         NEW delta \in [removed : Nat, added : Nat]
  PROVE  Grown(all \o Change(d, delta), d, newest)
<1> DEFINE change == Change(d, delta)
           more == all \o change
           L == Len(all)
<1>1. /\ all \in Seq(Record) /\ L \in Nat /\ L >= 1 /\ all[1] = Soa(newest)
      /\ IsFiniteSet(Soas(all)) /\ Cardinality(Soas(all)) = 2 * (d - 1) + 1
      /\ \A i \in 2..L : all[i] # Soa(newest)
      /\ d - 1 = 0 => L = 1
      /\ d - 1 >= 1 => L >= 2 /\ all[2] = Soa(0)
  BY DEF Grown
<1>2. /\ change \in Seq(Record)
      /\ change[1] = Soa(d - 1)
      /\ \E h \in 2..Len(change) :
           /\ change[h] = Soa(d)
           /\ \A i \in 1..Len(change) :
                i \notin {1, h} => change[i].type = "rr"
  <2>1. d \in Nat /\ d >= 1
    OBVIOUS
  <2>2. TwoHeads(change, d)
    BY <2>1, ChangeType
  <2> HIDE DEF change
  <2> QED BY <2>2 DEF TwoHeads
<1>3. PICK h \in 2..Len(change) :
        /\ change[h] = Soa(d)
        /\ \A i \in 1..Len(change) : i \notin {1, h} => change[i].type = "rr"
  BY <1>2
<1> HIDE DEF change
<1>4. Len(change) \in Nat
  BY <1>2
<1>5. /\ more \in Seq(Record)
      /\ Len(more) = L + Len(change)
      /\ \A i \in 1..L : more[i] = all[i]
      /\ \A i \in 1..Len(change) : more[L + i] = change[i]
  BY <1>1, <1>2, Joined, Zenon
<1> HIDE DEF more, L
<1>6. ASSUME NEW i \in 1..Len(more), i \notin 1..L
      PROVE  /\ i - L \in 1..Len(change) /\ more[i] = change[i - L]
  <2>1. i - L \in 1..Len(change) /\ L + (i - L) = i
    BY <1>1, <1>4, <1>5, <1>6
  <2> QED BY <2>1, <1>5
<1>7. Soas(more) = (Soas(all) \cup {L + 1}) \cup {L + h}
  <2>1. Soas(all) = {i \in 1..L : all[i].type = "soa"}
    BY <1>1 DEF Soas, L
  <2>2. Soas(more) = {i \in 1..Len(more) : more[i].type = "soa"}
    BY <1>5 DEF Soas
  <2>3. L + 1 \in 1..Len(more) /\ L + h \in 1..Len(more)
    BY <1>1, <1>4, <1>5
  <2>4. more[L + 1].type = "soa" /\ more[L + h].type = "soa"
    <3>1. 1 \in 1..Len(change) /\ h \in 1..Len(change)
      BY <1>3, <1>4
    <3>2. more[L + 1] = Soa(d - 1) /\ more[L + h] = Soa(d)
      BY <3>1, <1>2, <1>3, <1>5
    <3> QED BY <3>2 DEF Soa
  <2>5. 1..L \subseteq 1..Len(more)
    BY <1>1, <1>4, <1>5
  <2>6. ASSUME NEW i \in 1..Len(more), i \notin 1..L,
               more[i].type = "soa"
        PROVE  i \in {L + 1, L + h}
    <3>1. i - L \in 1..Len(change) /\ more[i] = change[i - L]
      BY <1>6, <2>6
    <3>2. i - L \in {1, h}
      BY <1>3, <2>6, <3>1
    <3>3. i \in Int /\ h \in Int
      BY <1>4
    <3> QED BY <3>2, <3>3, <1>1
  <2>7. \A i \in 1..L : more[i].type = all[i].type
    BY <1>5
  <2> QED BY <2>1, <2>2, <2>3, <2>4, <2>5, <2>6, <2>7
<1>8. Soas(all) \subseteq 1..L
  BY <1>1 DEF Soas, L
<1>9. L + 1 \notin Soas(all) /\ L + h \notin Soas(all) /\ L + 1 # L + h
  BY <1>1, <1>3, <1>4, <1>8
<1>10. /\ IsFiniteSet(Soas(more))
       /\ Cardinality(Soas(more)) = Cardinality(Soas(all)) + 2
  BY <1>1, <1>7, <1>9, SoasTwice
<1>11. Cardinality(Soas(more)) = 2 * d + 1
  BY <1>1, <1>10
<1>12. Len(more) >= 2 /\ more[1] = Soa(newest)
  BY <1>1, <1>3, <1>4, <1>5
<1>13. more[2] = Soa(0)
  <2>1. CASE d = 1
    <3>1. L = 1 /\ change[1] = Soa(0) /\ 1 \in 1..Len(change)
      BY <1>1, <1>2, <1>3, <1>4, <2>1
    <3> QED BY <3>1, <1>5
  <2>2. CASE d # 1
    <3>1. L >= 2 /\ all[2] = Soa(0)
      BY <1>1, <2>2
    <3> QED BY <3>1, <1>1, <1>5
  <2> QED BY <2>1, <2>2
<1>14. ASSUME NEW i \in 2..L
       PROVE  more[i] # Soa(newest)
  <2>1. i \in 1..L
    BY <1>1
  <2> QED BY <2>1, <1>1, <1>5
<1>15. ASSUME NEW i \in 1..Len(more), i > L, more[i] = Soa(newest)
       PROVE  i = L + h /\ d = newest
  <2>1. i - L \in 1..Len(change) /\ more[i] = change[i - L]
    <3>1. i \notin 1..L
      BY <1>1, <1>15
    <3> QED BY <1>6, <3>1
  <2>2. more[i].type = "soa" /\ more[i].of = newest
    BY <1>15 DEF Soa
  <2>3. i - L \in {1, h}
    BY <1>3, <2>1, <2>2
  <2>4. i - L # 1
    <3>1. (Soa(d - 1)).of = d - 1
      BY DEF Soa
    <3> QED BY <1>2, <2>1, <2>2, <3>1
  <2>5. (Soa(d)).of = d
    BY DEF Soa
  <2> QED BY <1>1, <1>3, <2>1, <2>2, <2>3, <2>4, <2>5
<1>16. ASSUME d < newest
       PROVE  \A i \in 2..Len(more) : more[i] # Soa(newest)
  <2>1. ASSUME NEW i \in 2..Len(more), more[i] = Soa(newest)
        PROVE  FALSE
    <3>1. i \in 1..Len(more) /\ i > L
      BY <1>1, <1>5, <1>14, <2>1
    <3> QED BY <1>15, <1>16, <2>1, <3>1
  <2> QED BY <2>1
<1>17. ASSUME d = newest
       PROVE  \E p \in 2..Len(more) :
                /\ more[p] = Soa(newest)
                /\ \A i \in 2..Len(more) : i # p => more[i] # Soa(newest)
                /\ \A i \in (p + 1)..Len(more) : more[i].type # "soa"
  <2>1. L + h \in 2..Len(more) /\ more[L + h] = Soa(newest)
    BY <1>1, <1>3, <1>4, <1>5, <1>17
  <2>2. ASSUME NEW i \in 2..Len(more), i # L + h
        PROVE  more[i] # Soa(newest)
    <3>1. CASE i \in 2..L
      BY <3>1, <1>14
    <3>2. CASE i \notin 2..L
      <4>1. i \in 1..Len(more) /\ i > L
        BY <1>1, <1>5, <3>2
      <4> QED BY <1>15, <2>2, <4>1
    <3> QED BY <3>1, <3>2
  <2>3. ASSUME NEW i \in (L + h + 1)..Len(more)
        PROVE  more[i].type # "soa"
    <3>1. i \in 1..Len(more) /\ i \notin 1..L
      BY <1>1, <1>3, <1>4, <1>5
    <3>2. i - L \in 1..Len(change) /\ more[i] = change[i - L]
      BY <3>1, <1>6
    <3>3. i - L \notin {1, h}
      BY <1>1, <1>3, <1>4, <1>5
    <3> QED BY <3>2, <3>3, <1>3
  <2> QED BY <2>1, <2>2, <2>3
<1>18. more = all \o Change(d, delta)
  BY DEF more, change
<1>19. Grown(more, d, newest)
  BY <1>5, <1>10, <1>11, <1>12, <1>13, <1>16, <1>17 DEF Grown
<1> QED BY <1>18, <1>19

LEMMA DeltasType ==
  ASSUME NEW deltas \in Deltas
  PROVE  /\ Len(deltas) \in Nat /\ Len(deltas) >= 1
         /\ \A d \in 1..Len(deltas) : deltas[d] \in [removed : Nat, added : Nat]
<1>1. PICK n \in 1..MaxDeltas : deltas \in [1..n -> [removed : Sizes, added : Sizes]]
  BY DEF Deltas
<1>2. n \in Nat /\ n >= 1
  BY StreamAssumption
<1>3. Len(deltas) = n
  BY <1>1, <1>2
<1>4. \A d \in 1..n : deltas[d] \in [removed : Nat, added : Nat]
  BY <1>1, StreamAssumption
<1> QED BY <1>2, <1>3, <1>4

\* The records of an incremental answer but the last have grown by its deltas.
LEMMA IncrementalGrown ==
  ASSUME NEW deltas \in Deltas
  PROVE  \E all : /\ Grown(all, Len(deltas), Len(deltas))
                  /\ Incremental(deltas) = Append(all, Soa(Len(deltas)))
<1> DEFINE N == Len(deltas)
           base == <<Soa(N)>>
           Joins(g, d) == g \o Change(d, deltas[d])
           Steps(f) == f = [d \in 0..N |->
                              IF d = 0 THEN base
                              ELSE Joins(f[d - 1], d)]
           upto == CHOOSE f : Steps(f)
           step == [d \in 1..N |->
                      [g \in Seq(Record) |-> Joins(g, d)]]
<1>1. /\ N \in Nat /\ N >= 1
      /\ \A d \in 1..N : deltas[d] \in [removed : Nat, added : Nat]
  BY DeltasType
<1>2. Incremental(deltas) = Append(upto[N], Soa(N))
  BY DEF Incremental
<1> HIDE DEF N
<1>3. base \in Seq(Record)
  BY <1>1, SoaType
<1>4. \A d \in 1..N : Change(d, deltas[d]) \in Seq(Record)
  <2>1. ASSUME NEW d \in 1..N
        PROVE  Change(d, deltas[d]) \in Seq(Record)
    <3>1. d \in Nat /\ d >= 1 /\ deltas[d] \in [removed : Nat, added : Nat]
      BY <1>1
    <3>2. TwoHeads(Change(d, deltas[d]), d)
      BY <3>1, ChangeType
    <3> QED BY <3>2 DEF TwoHeads
  <2> QED BY <2>1
<1>5. \A d \in 1..N : \A g \in Seq(Record) : Joins(g, d) \in Seq(Record)
  BY <1>4, Joined, Zenon
<1> HIDE DEF base, Joins
<1>6. Steps(upto)
  <2>1. step \in [1..N -> [Seq(Record) -> Seq(Record)]]
    BY <1>5
  <2>2. StepsIn(N, Seq(Record), step)
    BY <2>1 DEF StepsIn
  <2> HIDE DEF step
  <2>3. \E f : Iterated(N, Seq(Record), base, step, f)
    BY <1>1, <1>3, <2>2, Iterates
  <2>4. PICK f : Iterated(N, Seq(Record), base, step, f)
    BY <2>3
  <2>5. /\ f \in [0..N -> Seq(Record)] /\ f[0] = base
        /\ \A d \in 1..N : f[d] = step[d][f[d - 1]]
    BY <2>4 DEF Iterated
  <2>6. \A d \in 1..N : f[d] = Joins(f[d - 1], d)
    <3>1. \A d \in 1..N : f[d - 1] \in Seq(Record)
      BY <1>1, <2>5
    <3> QED BY <2>5, <3>1 DEF step
  <2>7. Steps(f)
    BY <1>1, <2>5, <2>6
  <2> HIDE DEF Steps
  <2> QED BY <2>7
<1>7. /\ upto[0] = base
      /\ \A d \in 1..N : upto[d] = Joins(upto[d - 1], d)
  <2> HIDE DEF upto
  <2> QED BY <1>1, <1>6
<1> HIDE DEF upto
<1> DEFINE Good == {d \in 0..N : Grown(upto[d], d, N)}
<1>8. 0 \in Good
  <2>1. Len(base) = 1 /\ base[1] = Soa(N)
    BY DEF base
  <2>2. Soas(base) = {1}
    BY <2>1, <1>3 DEF Soas, Soa
  <2>3. IsFiniteSet(Soas(base)) /\ Cardinality(Soas(base)) = 2 * 0 + 1
    BY <2>2, FS_Singleton
  <2>4. Grown(base, 0, N)
    BY <1>1, <1>3, <2>1, <2>3 DEF Grown
  <2> QED BY <1>1, <1>7, <2>4
<1>9. ASSUME NEW d \in 1..N, d - 1 \in Good
      PROVE  d \in Good
  <2>1. Grown(upto[d - 1], d - 1, N)
    BY <1>9
  <2>2. deltas[d] \in [removed : Nat, added : Nat]
    BY <1>1
  <2>3. Grown(upto[d - 1] \o Change(d, deltas[d]), d, N)
    BY <1>1, <2>1, <2>2, GrownStep
  <2>4. Grown(upto[d], d, N)
    BY <1>7, <2>3 DEF Joins
  <2> QED BY <2>4
<1>10. Grown(upto[N], N, N)
  <2> HIDE DEF Good
  <2>1. \A d \in 1..N : d - 1 \in Good => d \in Good
    BY <1>9
  <2>2. 0..N \subseteq Good
    BY <1>1, <1>8, <2>1, UpTo
  <2>3. N \in Good
    BY <1>1, <2>2
  <2> QED BY <2>3 DEF Good
<1> QED BY <1>2, <1>10 DEF N

\* Where an incremental answer ends: nowhere before its last SOA.
LEMMA IncrementalEnds ==
  ASSUME NEW newest \in Nat, newest >= 1, NEW grown,
         Grown(grown, newest, newest),
         NEW all, all = Append(grown, Soa(newest)),
         NEW k \in 1..Len(all)
  PROVE  /\ all \in Seq(Record)
         /\ Over("IXFR", SubSeq(all, 1, k)) <=> k = Len(all)
<1> DEFINE L == Len(grown)
           got == SubSeq(all, 1, k)
<1>1. /\ grown \in Seq(Record) /\ L \in Nat /\ L >= 2
      /\ grown[1] = Soa(newest) /\ grown[2] = Soa(0)
      /\ IsFiniteSet(Soas(grown))
      /\ Cardinality(Soas(grown)) = 2 * newest + 1
  BY DEF Grown
<1>2. PICK p \in 2..L :
        /\ grown[p] = Soa(newest)
        /\ \A i \in 2..L : i # p => grown[i] # Soa(newest)
        /\ \A i \in (p + 1)..L : grown[i].type # "soa"
  BY DEF Grown
<1>3. /\ all \in Seq(Record) /\ Len(all) = L + 1
      /\ all[L + 1] = Soa(newest)
      /\ \A i \in 1..L : all[i] = grown[i]
  <2>1. Soa(newest) \in Record
    BY SoaType
  <2> QED BY <1>1, <2>1
<1> HIDE DEF L
<1>4. k \in 1..(L + 1)
  BY <1>3
<1>5. /\ got \in Seq(Record) /\ Len(got) = k
      /\ \A i \in 1..k : got[i] = all[i]
  <2>1. k \in 0..Len(all) /\ 0 \in 0..Len(all) /\ 0 + 1 = 1
    BY <1>1, <1>3, <1>4
  <2>2. SubSeq(all, 0 + 1, k) \in Seq(Record)
        /\ Len(SubSeq(all, 0 + 1, k)) = k - 0
    BY <1>3, <2>1, PieceType
  <2>3. \A i \in 1..k : got[i] = all[i]
    BY <1>1, <1>3, <1>4
  <2> HIDE DEF got
  <2>4. got \in Seq(Record) /\ Len(got) = k - 0
    BY <2>1, <2>2 DEF got
  <2> QED BY <1>4, <1>1, <2>3, <2>4
<1> HIDE DEF got
<1>6. got[1] = Soa(newest)
  BY <1>1, <1>3, <1>4, <1>5
<1>7. Soa(newest) # Soa(0)
  BY DEF Soa
<1>8. CASE k = 1
  <2>1. ~(Len(got) >= 2) /\ k # Len(all)
    BY <1>1, <1>3, <1>5, <1>8
  <2> QED BY <1>3, <1>6, <1>7, <2>1 DEF Over, got
<1>9. ASSUME k >= 2
      PROVE  Over("IXFR", got) <=> IncrementsOver(got)
  <2>1. got[2] = Soa(0) /\ Len(got) >= 2
    BY <1>1, <1>3, <1>4, <1>5, <1>9
  <2> QED BY <1>6, <1>7, <2>1 DEF Over
<1>10. Last(got) = all[k]
  BY <1>4, <1>5, <1>1 DEF Last
<1>11. Soas(grown) = {i \in 1..L : grown[i].type = "soa"}
  BY <1>1 DEF Soas, L
<1>12. Soas(got) = {i \in 1..k : all[i].type = "soa"}
  BY <1>1, <1>4, <1>5 DEF Soas
<1>13. CASE k = L + 1
  <2>1. Soas(got) = Soas(grown) \cup {L + 1}
    <3>1. all[L + 1].type = "soa"
      BY <1>3 DEF Soa
    <3>2. \A i \in 1..L : all[i].type = grown[i].type
      BY <1>3
    <3>3. 1..k = 1..L \cup {L + 1}
      BY <1>1, <1>13
    <3> QED BY <3>1, <3>2, <3>3, <1>11, <1>12
  <2>2. L + 1 \notin Soas(grown)
    BY <1>1, <1>11
  <2>3. Cardinality(Soas(got)) = (2 * newest + 1) + 1
    <3>1. Cardinality(Soas(grown) \cup {L + 1}) = Cardinality(Soas(grown)) + 1
      BY <1>1, <2>2, FS_AddElement
    <3> QED BY <1>1, <2>1, <3>1
  <2>4. Cardinality(Soas(got)) >= 4 /\ Cardinality(Soas(got)) % 2 = 0
    BY <2>3
  <2>5. Last(got) = got[1]
    BY <1>3, <1>6, <1>10, <1>13
  <2>6. IncrementsOver(got)
    BY <2>4, <2>5 DEF IncrementsOver
  <2> QED BY <1>1, <1>3, <1>9, <1>13, <2>6 DEF got
<1>14. CASE k = p
  <2>1. Soas(got) = Soas(grown)
    <3>1. ASSUME NEW i \in 1..L, grown[i].type = "soa"
          PROVE  i \in 1..k
      <4>1. i \notin (p + 1)..L
        BY <1>2, <3>1
      <4> QED BY <4>1, <1>1, <1>2, <1>14
    <3>2. 1..k \subseteq 1..L
      BY <1>1, <1>2, <1>14
    <3>3. \A i \in 1..L : all[i].type = grown[i].type
      BY <1>3
    <3> QED BY <3>1, <3>2, <3>3, <1>11, <1>12
  <2>2. Cardinality(Soas(got)) % 2 # 0
    <3>1. Cardinality(Soas(got)) = 2 * newest + 1
      BY <1>1, <2>1
    <3> QED BY <3>1
  <2>3. ~IncrementsOver(got)
    BY <2>2 DEF IncrementsOver
  <2>4. k >= 2 /\ k # L + 1
    BY <1>1, <1>2, <1>14
  <2> QED BY <1>3, <1>9, <2>3, <2>4 DEF got
<1>15. CASE k \in 2..L /\ k # p
  <2>1. all[k] # Soa(newest)
    <3>1. k \in 1..L
      BY <1>1, <1>15
    <3> QED BY <1>2, <1>3, <1>15, <3>1
  <2>2. ~IncrementsOver(got)
    BY <1>6, <1>10, <2>1 DEF IncrementsOver
  <2>3. k >= 2 /\ k # L + 1
    BY <1>1, <1>15
  <2> QED BY <1>3, <1>9, <2>2, <2>3 DEF got
<1> QED BY <1>1, <1>4, <1>8, <1>13, <1>14, <1>15

\* A whole zone ends with its second SOA, whatever was asked for.
LEMMA WholeEnds ==
  ASSUME NEW size \in Nat, NEW kind \in {"AXFR", "IXFR"},
         NEW k \in 1..Len(Whole(1, size))
  PROVE  Over(kind, SubSeq(Whole(1, size), 1, k)) <=> k = Len(Whole(1, size))
<1> DEFINE whole == Whole(1, size)
           got == SubSeq(whole, 1, k)
<1>1. /\ whole \in Seq(Record) /\ Len(whole) = size + 2
      /\ whole[1] = Soa(1) /\ whole[size + 2] = Soa(1)
      /\ \A i \in 1..size : whole[i + 1] = Body(1, size)[i]
  BY WholeType, Zenon
<1>2. \A i \in 1..size : Body(1, size)[i].type = "rr"
  BY DEF Body
<1> HIDE DEF whole
<1>3. k \in 1..(size + 2)
  BY <1>1 DEF whole
<1>4. /\ got \in Seq(Record) /\ Len(got) = k
      /\ \A i \in 1..k : got[i] = whole[i]
  <2>1. k \in 0..Len(whole) /\ 0 \in 0..Len(whole) /\ 0 + 1 = 1
    BY <1>1, <1>3
  <2>2. SubSeq(whole, 0 + 1, k) \in Seq(Record)
        /\ Len(SubSeq(whole, 0 + 1, k)) = k - 0
    BY <1>1, <2>1, PieceType
  <2>3. \A i \in 1..k : got[i] = whole[i]
    BY <1>1, <1>3
  <2> HIDE DEF got
  <2>4. got \in Seq(Record) /\ Len(got) = k - 0
    BY <2>1, <2>2 DEF got
  <2> QED BY <1>3, <2>3, <2>4
<1> HIDE DEF got
<1>5. got[1] = Soa(1) /\ got[1] # Soa(0)
  <2>1. got[1] = Soa(1)
    BY <1>1, <1>3, <1>4
  <2> QED BY <2>1 DEF Soa
<1>6. ASSUME NEW i \in 2..(size + 1)
      PROVE  whole[i].type = "rr"
  <2>1. i - 1 \in 1..size /\ (i - 1) + 1 = i
    OBVIOUS
  <2> QED BY <1>1, <1>2, <2>1
<1>7. ASSUME k >= 2
      PROVE  got[2] # Soa(0)
  <2>1. got[2] = whole[2]
    BY <1>3, <1>4, <1>7
  <2>2. CASE size = 0
    BY <1>1, <2>1, <2>2 DEF Soa
  <2>3. CASE size # 0
    <3>1. whole[2].type = "rr"
      BY <1>6, <2>3
    <3> QED BY <2>1, <3>1 DEF Soa
  <2> QED BY <2>2, <2>3
<1>8. Over(kind, got) <=> Len(got) >= 2 /\ Last(got).type = "soa"
  BY <1>4, <1>5, <1>7 DEF Over
<1>9. Last(got) = whole[k]
  BY <1>3, <1>4 DEF Last
<1>10. CASE k = size + 2
  <2>1. whole[k].type = "soa"
    BY <1>1, <1>10 DEF Soa
  <2> QED BY <1>1, <1>4, <1>8, <1>9, <1>10, <2>1 DEF got, whole
<1>11. CASE k # size + 2
  <2>1. k = 1 \/ k \in 2..(size + 1)
    BY <1>3, <1>11
  <2>2. ~Over(kind, got)
    BY <1>4, <1>6, <1>8, <1>9, <2>1
  <2> QED BY <1>1, <1>11, <2>2 DEF got, whole
<1> QED BY <1>10, <1>11

\* What a request of a kind may be answered with.
Answers(kind) ==
  {<<>>} \cup {Whole(1, size) : size \in Sizes}
    \cup IF kind = "IXFR"
         THEN {<<Soa(0)>>} \cup {Incremental(deltas) : deltas \in Deltas}
         ELSE {}

\* The secondary's rule for the end of the stream fits every answer: it holds
\* of all of the records, and of no shorter part of them.
LEMMA EndsAtLast ==
  ASSUME NEW kind \in {"AXFR", "IXFR"}, NEW records \in Answers(kind)
  PROVE  /\ records \in Seq(Record)
         /\ \A k \in 1..Len(records) :
              Over(kind, SubSeq(records, 1, k)) <=> k = Len(records)
<1>1. CASE records = <<>>
  BY <1>1
<1>2. ASSUME NEW size \in Sizes, records = Whole(1, size)
      PROVE  /\ records \in Seq(Record)
             /\ \A k \in 1..Len(records) :
                  Over(kind, SubSeq(records, 1, k)) <=> k = Len(records)
  <2>1. size \in Nat
    BY StreamAssumption
  <2>2. Whole(1, size) \in Seq(Record)
    BY <2>1, WholeType
  <2>3. \A k \in 1..Len(Whole(1, size)) :
          Over(kind, SubSeq(Whole(1, size), 1, k)) <=> k = Len(Whole(1, size))
    BY <2>1, WholeEnds
  <2> QED BY <1>2, <2>2, <2>3
<1>3. ASSUME kind = "IXFR", records = <<Soa(0)>>
      PROVE  /\ records \in Seq(Record)
             /\ \A k \in 1..Len(records) :
                  Over(kind, SubSeq(records, 1, k)) <=> k = Len(records)
  <2>1. Soa(0) \in Record
    BY SoaType
  <2>2. records \in Seq(Record) /\ Len(records) = 1
    BY <1>3, <2>1
  <2>3. ASSUME NEW k \in 1..Len(records)
        PROVE  Over(kind, SubSeq(records, 1, k)) /\ k = Len(records)
    <3>1. k = 1
      BY <2>2
    <3>2. SubSeq(records, 1, k)[1] = Soa(0)
      BY <1>3, <2>2, <3>1
    <3> QED BY <1>3, <2>2, <3>1, <3>2 DEF Over
  <2> QED BY <2>2, <2>3
<1>4. ASSUME kind = "IXFR", NEW deltas \in Deltas, records = Incremental(deltas)
      PROVE  /\ records \in Seq(Record)
             /\ \A k \in 1..Len(records) :
                  Over(kind, SubSeq(records, 1, k)) <=> k = Len(records)
  <2>1. Len(deltas) \in Nat /\ Len(deltas) >= 1
    BY DeltasType
  <2>2. PICK grown : /\ Grown(grown, Len(deltas), Len(deltas))
                     /\ records = Append(grown, Soa(Len(deltas)))
    BY <1>4, IncrementalGrown
  <2>3. \A k \in 1..Len(records) :
          Over("IXFR", SubSeq(records, 1, k)) <=> k = Len(records)
    BY <2>1, <2>2, IncrementalEnds
  <2>4. records \in Seq(Record)
    <3>1. grown \in Seq(Record)
      BY <2>2 DEF Grown
    <3>2. Soa(Len(deltas)) \in Record
      BY <2>1, SoaType
    <3> QED BY <2>2, <3>1, <3>2
  <2> QED BY <1>4, <2>3, <2>4
<1> QED BY <1>1, <1>2, <1>3, <1>4 DEF Answers

-----------------------------------------------------------------------------
(* What is on its way.                                                      *)

\* The messages carry the records between two positions, signed as they are
\* in this answer.
Carry(records, messages, from, to) ==
  \E b \in [0..Len(messages) -> 0..Len(records)] :
    /\ b[0] = from
    /\ b[Len(messages)] = to
    /\ \A k \in 1..Len(messages) :
         /\ b[k - 1] < b[k]
         /\ b[k] - b[k - 1] <= MaxRRs
         /\ messages[k] =
              sign_message(SubSeq(records, b[k - 1] + 1, b[k]), AnswerKey)

\* A message holds some records, and not too many, unless it is a refusal.
Fits(m) == Len(m.rrs) <= MaxRRs /\ (m.rrs = <<>> <=> m.refused)

LEMMA AnswerKeyType ==
  ASSUME ring \subseteq Keys
  PROVE  AnswerKey \in Keys \cup {NoKey}
BY DEF AnswerKey

\* Signing the packets of a cut makes the messages of an answer.
LEMMA SignedCarry ==
  ASSUME ring \subseteq Keys, NEW records \in Seq(Record),
         NEW packets \in Seq(Seq(Record)), NEW to,
         Sliced(records, packets, 0, to),
         NEW messages,
         messages = [k \in DOMAIN packets |-> sign_message(packets[k], AnswerKey)]
  PROVE  /\ messages \in Seq(Message)
         /\ \A k \in 1..Len(messages) : Fits(messages[k])
         /\ Carry(records, messages, 0, to)
<1> DEFINE n == Len(packets)
<1>1. n \in Nat /\ DOMAIN packets = 1..n
  BY LenProperties
<1>2. \A k \in 1..n : packets[k] \in Seq(Record)
  BY ElementOfSeq
<1>3. PICK b \in [0..n -> 0..Len(records)] :
        b[0] = 0 /\ b[n] = to /\ Cuts(records, packets, b)
  BY DEF Sliced
<1> HIDE DEF n
<1>4. ASSUME NEW k \in 1..n
      PROVE  sign_message(packets[k], AnswerKey) \in Message
  BY <1>2, AnswerKeyType DEF sign_message, Message
<1>5. messages \in [1..n -> Message]
  BY <1>1, <1>4
<1>6. messages \in Seq(Message) /\ Len(messages) = n
  <2> HIDE DEF Message
  <2> QED BY <1>1, <1>5, SeqDef
<1>7. ASSUME NEW k \in 1..n
      PROVE  /\ b[k - 1] < b[k]
             /\ b[k] - b[k - 1] <= MaxRRs
             /\ packets[k] = SubSeq(records, b[k - 1] + 1, b[k])
  BY <1>7, <1>3 DEF Cuts, n
<1>8. ASSUME NEW k \in 1..n
      PROVE  Fits(messages[k])
  <2>1. b[k - 1] \in 0..Len(records) /\ b[k] \in 0..Len(records)
    BY <1>1, <1>3
  <2>2. Len(packets[k]) = b[k] - b[k - 1]
    <3>1. b[k - 1] <= b[k]
      BY <1>7, <2>1
    <3>2. Len(SubSeq(records, b[k - 1] + 1, b[k])) = b[k] - b[k - 1]
      BY <2>1, <3>1, PieceType
    <3> QED BY <1>7, <3>2
  <2>3. messages[k].rrs = packets[k] /\ messages[k].refused = FALSE
    BY <1>1 DEF sign_message
  <2>4. Len(packets[k]) # 0 /\ Len(packets[k]) <= MaxRRs
    BY <1>7, <2>1, <2>2
  <2>5. packets[k] # <<>>
    BY <2>4
  <2> QED BY <2>3, <2>4, <2>5 DEF Fits
<1>9. Carry(records, messages, 0, to)
  <2>1. \A k \in 1..n :
          messages[k] =
            sign_message(SubSeq(records, b[k - 1] + 1, b[k]), AnswerKey)
    BY <1>1, <1>7
  <2> QED BY <1>3, <1>6, <1>7, <2>1 DEF Carry
<1> QED BY <1>6, <1>8, <1>9

\* The first message carries the records up to mid, the others the rest.
LEMMA CarryHead ==
  ASSUME NEW records, Len(records) \in Nat,
         NEW messages \in Seq(Message), messages # <<>>,
         NEW from, NEW to, Carry(records, messages, from, to)
  PROVE  \E mid \in 0..Len(records) :
           /\ from < mid /\ mid - from <= MaxRRs
           /\ Head(messages) =
                sign_message(SubSeq(records, from + 1, mid), AnswerKey)
           /\ Carry(records, Tail(messages), mid, to)
           /\ Tail(messages) # <<>> => mid < Len(records)
<1> DEFINE n == Len(messages)
           rest == Tail(messages)
<1>1. PICK b \in [0..n -> 0..Len(records)] :
        /\ b[0] = from
        /\ b[n] = to
        /\ \A k \in 1..n :
             /\ b[k - 1] < b[k]
             /\ b[k] - b[k - 1] <= MaxRRs
             /\ messages[k] =
                  sign_message(SubSeq(records, b[k - 1] + 1, b[k]), AnswerKey)
  BY DEF Carry
<1>2. /\ n \in Nat /\ n >= 1 /\ Len(rest) = n - 1 /\ rest \in Seq(Message)
      /\ \A k \in 1..(n - 1) : rest[k] = messages[k + 1]
      /\ Head(messages) = messages[1]
  OBVIOUS
<1> HIDE DEF n, rest
<1> DEFINE c == [k \in 0..(n - 1) |-> b[k + 1]]
<1>3. c \in [0..(n - 1) -> 0..Len(records)] /\ c[0] = b[1] /\ c[n - 1] = b[n]
  BY <1>1, <1>2
<1>4. ASSUME NEW k \in 1..(n - 1)
      PROVE  /\ c[k - 1] < c[k]
             /\ c[k] - c[k - 1] <= MaxRRs
             /\ rest[k] =
                  sign_message(SubSeq(records, c[k - 1] + 1, c[k]), AnswerKey)
  <2>1. k + 1 \in 1..n /\ (k + 1) - 1 = k /\ k \in 0..(n - 1)
        /\ k - 1 \in 0..(n - 1) /\ (k - 1) + 1 = k
    BY <1>2
  <2>2. c[k] = b[k + 1] /\ c[k - 1] = b[k]
    BY <2>1
  <2>3. rest[k] = messages[k + 1]
    BY <1>2
  <2>4. /\ b[k] < b[k + 1]
        /\ b[k + 1] - b[k] <= MaxRRs
        /\ messages[k + 1] =
             sign_message(SubSeq(records, b[k] + 1, b[k + 1]), AnswerKey)
    BY <1>1, <2>1
  <2> QED BY <2>2, <2>3, <2>4
<1> HIDE DEF c
<1>5. Carry(records, rest, b[1], to)
  BY <1>1, <1>2, <1>3, <1>4 DEF Carry
<1>6. /\ b[1] \in 0..Len(records) /\ from < b[1] /\ b[1] - from <= MaxRRs
      /\ Head(messages) =
           sign_message(SubSeq(records, from + 1, b[1]), AnswerKey)
  <2>1. 1 \in 1..n /\ 1 - 1 = 0 /\ 1 \in 0..n
    BY <1>2
  <2> QED BY <1>1, <1>2, <2>1
<1>7. ASSUME rest # <<>>
      PROVE  b[1] < Len(records)
  <2>1. n >= 2
    BY <1>2, <1>7
  <2>2. 2 \in 1..n /\ 2 - 1 = 1 /\ 2 \in 0..n
    BY <1>2, <2>1
  <2>3. b[1] < b[2] /\ b[2] \in 0..Len(records)
    BY <1>1, <2>2
  <2> QED BY <1>6, <2>3
<1> QED BY <1>5, <1>6, <1>7 DEF rest

\* What arrives of a connection that is lost is a first part of the messages.
LEMMA CarryPrefix ==
  ASSUME NEW records, NEW messages \in Seq(Message),
         NEW from, NEW to, Carry(records, messages, from, to),
         NEW n \in 0..Len(messages),
         NEW some \in Seq(Message), Len(some) = n,
         \A k \in 1..n : some[k] = messages[k]
  PROVE  \E mid : Carry(records, some, from, mid)
<1>1. PICK b \in [0..Len(messages) -> 0..Len(records)] :
        /\ b[0] = from
        /\ b[Len(messages)] = to
        /\ \A k \in 1..Len(messages) :
             /\ b[k - 1] < b[k]
             /\ b[k] - b[k - 1] <= MaxRRs
             /\ messages[k] =
                  sign_message(SubSeq(records, b[k - 1] + 1, b[k]), AnswerKey)
  BY DEF Carry
<1> DEFINE c == [k \in 0..n |-> b[k]]
<1>2. Len(messages) \in Nat
  OBVIOUS
<1>3. c \in [0..n -> 0..Len(records)] /\ c[0] = from
  <2>1. 0 \in 0..n /\ 0..n \subseteq 0..Len(messages)
    BY <1>2
  <2>2. \A k \in 0..n : b[k] \in 0..Len(records)
    BY <1>1, <2>1
  <2> QED BY <1>1, <2>1, <2>2
<1>4. ASSUME NEW k \in 1..n
      PROVE  /\ c[k - 1] < c[k]
             /\ c[k] - c[k - 1] <= MaxRRs
             /\ some[k] =
                  sign_message(SubSeq(records, c[k - 1] + 1, c[k]), AnswerKey)
  <2>1. k \in 1..Len(messages) /\ k \in 0..n /\ k - 1 \in 0..n
    BY <1>2
  <2>2. c[k] = b[k] /\ c[k - 1] = b[k - 1]
    BY <2>1
  <2> QED BY <1>1, <2>1, <2>2
<1> HIDE DEF c
<1>5. Carry(records, some, from, c[n])
  BY <1>3, <1>4 DEF Carry
<1> QED BY <1>5

-----------------------------------------------------------------------------
(* The invariant.                                                           *)

Rest == wire \o out

\* The secondary signs with the transfer key, and the window is wide enough.
Trusted ==
  /\ client.key = TransferKey /\ TransferKey \in ring
  /\ MaxSkew + Transit <= Fudge

\* The secondary has the first of the records, and the messages that are left
\* carry those that follow; all of them, unless the connection is lost.
Coming ==
  /\ client.got = SubSeq(meant, 1, Len(client.got))
  /\ Len(client.got) < Len(meant) \/ meant = <<>>
  /\ \E to : /\ Carry(meant, Rest, Len(client.got), to)
             /\ open => to = Len(meant)

\* The one message left is a refusal.
Refusing ==
  /\ ~Trusted
  /\ meant = <<>> /\ client.got = <<>>
  /\ Rest = <<Refusal>>

Flow ==
  /\ meant \in Answers(client.kind)
  /\ request # NoRequest =>
       /\ open /\ client.stage = "reading"
       /\ request.kind = client.kind /\ request.key = client.key
       /\ meant = <<>> /\ client.got = <<>>
       /\ wire = <<>> /\ out = <<>>
  /\ client.stage = "idle" =>
       /\ client.got = <<>> /\ meant = <<>>
       /\ wire = <<>> /\ out = <<>> /\ open
  /\ client.stage \in {"done", "refused"} => wire = <<>> /\ out = <<>>
  /\ client.stage = "done" => client.got = meant
  /\ client.stage \in {"refused", "failed"} => ~Trusted
  /\ client.stage = "reading" =>
       client.kind \in {"AXFR", "IXFR"} /\ (Coming \/ Refusing)

Inv == TypeOK /\ Flow

LEMMA EmptyType ==
  ASSUME NEW S
  PROVE  /\ <<>> \in Seq(S) /\ Len(<<>>) = 0
         /\ \A s \in Seq(S) : s \o <<>> = s /\ <<>> \o s = s
BY EmptySeq, ConcatEmptySeq

\* Nothing carries nothing.
LEMMA CarryNothing ==
  ASSUME NEW records, Len(records) = 0
  PROVE  Carry(records, <<>>, 0, 0)
<1> DEFINE b == [k \in 0..0 |-> 0]
<1>1. b \in [0..0 -> 0..Len(records)] /\ b[0] = 0
  OBVIOUS
<1> HIDE DEF b
<1>2. Len(<<>>) = 0
  OBVIOUS
<1> QED BY <1>1, <1>2 DEF Carry

LEMMA NoRecords ==
  /\ Len(<<>>) = 0
  /\ SubSeq(<<>>, 1, 0) = <<>>
OBVIOUS

\* A secondary that waits for its first message, before the server has the
\* request or when the answer has got lost.
LEMMA ComingNothing ==
  ASSUME meant = <<>>, client.got = <<>>, Rest = <<>>
  PROVE  Coming
<1>1. Carry(meant, Rest, 0, 0)
  BY CarryNothing, NoRecords
<1> QED BY <1>1, NoRecords DEF Coming

THEOREM InitInv ==
  Init => Inv
<1> SUFFICES ASSUME Init
             PROVE  Inv
  OBVIOUS
<1>1. TypeOK
  <2>1. <<>> \in Seq(Message) /\ <<>> \in Seq(Record)
    BY EmptySeq
  <2>2. Range(out) \cup Range(wire) = {}
    BY DEF Init, Range
  <2>3. client \in Client
    BY <2>1 DEF Init, AtRest, Client
  <2>4. 0 \in 0..Transit /\ 0 \in 0..MaxFaults
    BY StreamAssumption
  <2> HIDE DEF Message, Record
  <2> QED BY <2>1, <2>2, <2>3, <2>4 DEF Init, TypeOK
<1>2. Flow
  BY DEF Init, Flow, Answers, AtRest, NoRequest
<1> QED BY <1>1, <1>2 DEF Inv

-----------------------------------------------------------------------------
(* Every step keeps the invariant.                                          *)

LEMMA AskKeepsInv ==
  ASSUME Inv, Ask
  PROVE  Inv'
<1>1. PICK kind \in {"AXFR", "IXFR"}, key \in Keys \cup {NoKey} :
        /\ request' = [kind |-> kind, key |-> key, age |-> 0]
        /\ client' = [AtRest EXCEPT !.stage = "reading", !.kind = kind,
                                    !.key = key]
  BY DEF Ask
<1>2. client' = [stage |-> "reading", kind |-> kind, key |-> key, got |-> <<>>]
  BY <1>1 DEF AtRest
<1>3. /\ client.stage = "idle"
      /\ UNCHANGED <<ring, skew, meant, out, wire, age, open, faults>>
  BY DEF Ask
<1>4. request' \in Request
  BY <1>1, StreamAssumption DEF Request
<1>5. <<>> \in Seq(Record)
  BY EmptySeq
<1>6. client' \in Client
  BY <1>2, <1>5 DEF Client
<1>7. TypeOK'
  BY <1>3, <1>4, <1>6 DEF Inv, TypeOK
<1>8. meant = <<>> /\ wire = <<>> /\ out = <<>> /\ open
  BY <1>3 DEF Inv, Flow
<1>9. Coming'
  <2>1. (meant = <<>>)' /\ (client.got = <<>>)'
    BY <1>2, <1>3, <1>8
  <2>2. (Rest = <<>>)'
    BY <1>3, <1>8 DEF Rest
  <2> QED BY <2>1, <2>2, ComingNothing, PTL
<1>10. Flow'
  <2>1. meant' \in Answers(client'.kind)
    BY <1>3, <1>8 DEF Answers
  <2>2. client'.stage = "reading" /\ client'.kind = kind /\ client'.key = key
        /\ client'.got = <<>>
    BY <1>2
  <2>3. request'.kind = kind /\ request'.key = key
    BY <1>1
  <2> QED BY <1>3, <1>8, <1>9, <2>1, <2>2, <2>3 DEF Flow
<1> QED BY <1>7, <1>10 DEF Inv

\* The parts of the invariant that speak of messages.
LEMMA MessagesType ==
  ASSUME TypeOK
  PROVE  /\ wire \in Seq(Message) /\ out \in Seq(Message)
         /\ Rest \in Seq(Message)
         /\ \A k \in 1..Len(wire) : Fits(wire[k])
         /\ \A k \in 1..Len(out) : Fits(out[k])
<1>1. wire \in Seq(Message) /\ out \in Seq(Message)
  BY DEF TypeOK
<1>2. Rest \in Seq(Message)
  BY <1>1, ConcatProperties DEF Rest
<1>3. DOMAIN wire = 1..Len(wire) /\ DOMAIN out = 1..Len(out)
  BY <1>1, LenProperties
<1>4. \A m \in Range(out) \cup Range(wire) : Fits(m)
  BY DEF TypeOK, Fits
<1>5. /\ \A k \in 1..Len(wire) : wire[k] \in Range(wire)
      /\ \A k \in 1..Len(out) : out[k] \in Range(out)
  BY <1>3 DEF Range
<1> QED BY <1>1, <1>2, <1>4, <1>5

\* Where TypeOK follows from what a step does to the messages.
LEMMA RangeFits ==
  ASSUME NEW messages \in Seq(Message), \A k \in 1..Len(messages) : Fits(messages[k])
  PROVE  \A m \in Range(messages) : Fits(m)
<1>1. DOMAIN messages = 1..Len(messages)
  BY LenProperties
<1> QED BY <1>1 DEF Range

\* With the transfer key, and the window wide enough, no time is out of it.
LEMMA TrustedInTime ==
  ASSUME TypeOK, MaxSkew + Transit <= Fudge, NEW t \in 0..Transit
  PROVE  InWindow(t - skew) /\ InWindow(t + skew)
<1>1. skew \in (0 - MaxSkew)..MaxSkew /\ MaxSkew \in Nat /\ Transit \in Nat
      /\ Fudge \in Nat
  BY StreamAssumption DEF TypeOK
<1> QED BY <1>1 DEF InWindow, Magnitude

LEMMA SendCarries ==
  ASSUME ring \subseteq Keys, NEW records \in Seq(Record),
         NEW packets \in Seq(Seq(Record)),
         Sliced(records, packets, 0, Len(records)), Send(records, packets)
  PROVE  /\ meant' = records
         /\ out' \in Seq(Message)
         /\ \A k \in 1..Len(out') : Fits(out'[k])
         /\ Carry(records, out', 0, Len(records))
BY SignedCarry DEF Send

\* Whatever the server answers, its messages carry the records.
LEMMA TransferCarries ==
  ASSUME ring \subseteq Keys, Transfer
  PROVE  /\ meant' \in Answers(request.kind)
         /\ meant' \in Seq(Record)
         /\ out' \in Seq(Message)
         /\ \A k \in 1..Len(out') : Fits(out'[k])
         /\ Carry(meant', out', 0, Len(meant'))
<1>1. CASE SendWhole
  <2>1. PICK size \in Sizes : Send(Whole(1, size), axfr_stream(1, size))
    BY <1>1 DEF SendWhole
  <2>2. size \in Nat /\ 1 \in Nat
    BY StreamAssumption
  <2>3. /\ Whole(1, size) \in Seq(Record)
        /\ axfr_stream(1, size) \in Seq(Seq(Record))
        /\ Sliced(Whole(1, size), axfr_stream(1, size), 0, Len(Whole(1, size)))
    BY <2>2, WholeType, AxfrSliced
  <2>4. Whole(1, size) \in Answers(request.kind)
    BY DEF Answers
  <2> QED BY <2>1, <2>3, <2>4, SendCarries
<1>2. CASE SendNothing
  <2>1. <<>> \in Seq(Record) /\ <<>> \in Seq(Seq(Record)) /\ Len(<<>>) = 0
    BY EmptySeq
  <2>2. Sliced(<<>>, <<>>, 0, Len(<<>>))
    <3> DEFINE b == [k \in 0..0 |-> 0]
    <3>1. b \in [0..Len(<<>>) -> 0..Len(<<>>)] /\ b[0] = 0
      BY <2>1
    <3>2. Cuts(<<>>, <<>>, b)
      BY <2>1 DEF Cuts
    <3> HIDE DEF b
    <3> QED BY <2>1, <3>1, <3>2 DEF Sliced
  <2>3. <<>> \in Answers(request.kind)
    BY DEF Answers
  <2> QED BY <1>2, <2>1, <2>2, <2>3, SendCarries DEF SendNothing
<1>3. CASE request.kind = "IXFR" /\ SendUpToDate
  <2> DEFINE records == <<Soa(0)>>
             packets == <<records>>
  <2>1. /\ records \in Seq(Record) /\ Len(records) = 1
        /\ packets \in Seq(Seq(Record)) /\ Len(packets) = 1
        /\ packets[1] = records
        /\ SubSeq(records, 1, 1) = records
    <3>1. Soa(0) \in Record
      BY SoaType
    <3>2. records \in Seq(Record) /\ Len(records) = 1
      BY <3>1
    <3> HIDE DEF records
    <3>3. SubSeq(records, 1, 1) = records
      BY <3>2, SubSeqFull
    <3> QED BY <3>2, <3>3
  <2> HIDE DEF records, packets
  <2>2. Sliced(records, packets, 0, Len(records))
    <3> DEFINE b == [k \in 0..1 |-> k]
    <3>1. b \in [0..1 -> 0..1] /\ b[0] = 0 /\ b[1] = 1
      OBVIOUS
    <3> HIDE DEF b
    <3>2. ASSUME NEW k \in 1..1
          PROVE  /\ b[k - 1] < b[k] /\ b[k] - b[k - 1] <= MaxRRs
                 /\ packets[k] = SubSeq(records, b[k - 1] + 1, b[k])
      <4>1. k = 1 /\ b[k] = 1 /\ b[k - 1] = 0
        BY <3>1
      <4> QED BY <4>1, <2>1, StreamAssumption
    <3>3. Cuts(records, packets, b)
      BY <2>1, <3>2 DEF Cuts
    <3> QED BY <2>1, <3>1, <3>3 DEF Sliced
  <2>3. records \in Answers(request.kind)
    BY <1>3 DEF Answers, records
  <2>4. Send(records, packets)
    BY <1>3 DEF SendUpToDate, records, packets
  <2> QED BY <2>1, <2>2, <2>3, <2>4, SendCarries
<1>4. CASE request.kind = "IXFR" /\ SendDeltas
  <2>1. PICK deltas \in Deltas :
          Send(Incremental(deltas), chunks(Incremental(deltas)))
    BY <1>4 DEF SendDeltas
  <2>2. Incremental(deltas) \in Answers("IXFR")
    BY DEF Answers
  <2>3. Incremental(deltas) \in Seq(Record)
    BY <2>2, EndsAtLast
  <2>4. /\ chunks(Incremental(deltas)) \in Seq(Seq(Record))
        /\ Sliced(Incremental(deltas), chunks(Incremental(deltas)), 0,
                  Len(Incremental(deltas)))
    BY <2>3, ChunksSliced
  <2> QED BY <1>4, <2>1, <2>2, <2>3, <2>4, SendCarries
<1> QED BY <1>1, <1>2, <1>3, <1>4 DEF Transfer

\* How TypeOK follows when the messages are known to fit.
LEMMA TypeFromMessages ==
  ASSUME ring' \subseteq Keys, skew' \in (0 - MaxSkew)..MaxSkew,
         request' \in Request \cup {NoRequest},
         out' \in Seq(Message), \A k \in 1..Len(out') : Fits(out'[k]),
         wire' \in Seq(Message), \A k \in 1..Len(wire') : Fits(wire'[k]),
         meant' \in Seq(Record), age' \in 0..Transit, open' \in BOOLEAN,
         client' \in Client, faults' \in 0..MaxFaults
  PROVE  TypeOK'
<1>1. (\A m \in Range(out') : Fits(m)) /\ (\A m \in Range(wire') : Fits(m))
  BY RangeFits
<1>2. \A m \in Range(out') \cup Range(wire') :
        Len(m.rrs) <= MaxRRs /\ (m.rrs = <<>> <=> m.refused)
  BY <1>1 DEF Fits
<1> HIDE DEF Request, NoRequest, Message, Client, Record
<1> QED BY <1>2 DEF TypeOK

LEMMA RefusalType ==
  /\ <<Refusal>> \in Seq(Message)
  /\ Len(<<Refusal>>) = 1
  /\ \A k \in 1..Len(<<Refusal>>) : Fits(<<Refusal>>[k])
<1>1. <<>> \in Seq(Record) /\ Len(<<>>) = 0
  BY EmptySeq
<1>2. Refusal \in Message
  BY <1>1 DEF Refusal, Message
<1>3. Fits(Refusal)
  BY <1>1, StreamAssumption DEF Refusal, Fits
<1> HIDE DEF Refusal
<1> QED BY <1>2, <1>3

LEMMA ServeKeepsInv ==
  ASSUME Inv, Serve
  PROVE  Inv'
<1>1. /\ request # NoRequest /\ request' = NoRequest /\ age' = 0
      /\ UNCHANGED <<ring, skew, wire, open, client, faults>>
      /\ Refuse \/ Transfer
  BY DEF Serve
<1>2. /\ open /\ client.stage = "reading" /\ meant = <<>> /\ client.got = <<>>
      /\ request.kind = client.kind /\ request.key = client.key
      /\ wire = <<>> /\ out = <<>> /\ client.kind \in {"AXFR", "IXFR"}
  BY <1>1 DEF Inv, Flow
<1>3. /\ TypeOK /\ ring \subseteq Keys
      /\ request \in Request /\ request.age \in 0..Transit
  <2>1. request \in Request
    BY <1>1 DEF Inv, TypeOK
  <2> QED BY <2>1 DEF Inv, TypeOK, Request
<1>4. /\ wire' = <<>> /\ wire' \in Seq(Message)
      /\ \A k \in 1..Len(wire') : Fits(wire'[k])
  BY <1>1, <1>2, EmptySeq
<1>5. 0 \in 0..Transit
  BY StreamAssumption
<1>6. ASSUME meant' \in Seq(Record), out' \in Seq(Message),
             \A k \in 1..Len(out') : Fits(out'[k])
      PROVE  TypeOK'
  <2>1. /\ ring' \subseteq Keys /\ skew' \in (0 - MaxSkew)..MaxSkew
        /\ open' \in BOOLEAN /\ client' \in Client /\ faults' \in 0..MaxFaults
    BY <1>1, <1>3 DEF TypeOK
  <2>2. request' \in Request \cup {NoRequest} /\ age' \in 0..Transit
    BY <1>1, <1>5
  <2> QED BY <1>4, <1>6, <2>1, <2>2, TypeFromMessages
<1>7. ASSUME out' \in Seq(Message)
      PROVE  Rest' = out'
  BY <1>4, <1>7, EmptyType DEF Rest
<1>8. ASSUME meant' \in Answers(client.kind), (Coming \/ Refusing)'
      PROVE  Flow'
  BY <1>1, <1>2, <1>8 DEF Flow
<1>9. CASE Refuse
  <2>1. /\ ring # {} /\ ~verify_message(request)
        /\ meant' = <<>> /\ out' = <<Refusal>>
    BY <1>9 DEF Refuse
  <2>2. ~Trusted
    <3>1. SUFFICES ASSUME Trusted
                   PROVE  FALSE
      OBVIOUS
    <3>2. InWindow(request.age - skew)
      BY <1>3, <3>1, TrustedInTime DEF Trusted
    <3> QED BY <1>2, <2>1, <3>1, <3>2 DEF Trusted, verify_message
  <2>3. meant' \in Seq(Record) /\ meant' \in Answers(client.kind)
    BY <2>1, EmptySeq DEF Answers
  <2>4. TypeOK'
    BY <1>6, <2>1, <2>3, RefusalType
  <2>5. Refusing'
    <3>1. Rest' = <<Refusal>>
      BY <1>7, <2>1, RefusalType
    <3> QED BY <1>1, <1>2, <2>1, <2>2, <3>1 DEF Refusing, Trusted
  <2> QED BY <1>8, <2>3, <2>4, <2>5 DEF Inv
<1>10. CASE Transfer
  <2>1. /\ meant' \in Answers(client.kind)
        /\ meant' \in Seq(Record)
        /\ out' \in Seq(Message)
        /\ \A k \in 1..Len(out') : Fits(out'[k])
        /\ Carry(meant', out', 0, Len(meant'))
    BY <1>2, <1>3, <1>10, TransferCarries
  <2>2. TypeOK'
    BY <1>6, <2>1
  <2>3. Coming'
    <3>1. Carry(meant, Rest, 0, Len(meant))'
      BY <1>1, <1>7, <2>1 DEF Carry, AnswerKey
    <3>2. client'.got = <<>> /\ Len(client'.got) = 0
      BY <1>1, <1>2, NoRecords
    <3>3. SubSeq(meant', 1, 0) = <<>>
      BY SubSeqEmpty
    <3>4. 0 < Len(meant') \/ meant' = <<>>
      <4> HIDE DEF Record
      <4> QED BY <2>1, EmptySeq
    <3> QED BY <3>1, <3>2, <3>3, <3>4 DEF Coming
  <2> QED BY <1>8, <2>1, <2>2, <2>3 DEF Inv
<1> QED BY <1>1, <1>9, <1>10

\* A message on its way is still one of the rest.
LEMMA RestAfterWrite ==
  ASSUME NEW v \in Seq(Message), NEW w \in Seq(Message), w # <<>>
  PROVE  /\ Append(v, Head(w)) \o Tail(w) = v \o w
         /\ Append(v, Head(w)) \in Seq(Message)
         /\ Tail(w) \in Seq(Message)
         /\ \A k \in 1..Len(Append(v, Head(w))) :
              \/ k \in 1..Len(v) /\ Append(v, Head(w))[k] = v[k]
              \/ Append(v, Head(w))[k] = w[1]
         /\ \A k \in 1..Len(Tail(w)) :
              k + 1 \in 1..Len(w) /\ Tail(w)[k] = w[k + 1]
         /\ 1 \in 1..Len(w)
<1> HIDE DEF Message
<1>1. /\ Head(w) = w[1] /\ Head(w) \in Message /\ Tail(w) \in Seq(Message)
      /\ Len(Tail(w)) = Len(w) - 1 /\ Len(w) \in Nat /\ Len(w) >= 1
      /\ \A k \in 1..Len(Tail(w)) : Tail(w)[k] = w[k + 1]
  OBVIOUS
<1> DEFINE longer == Append(v, Head(w))
<1>2. /\ longer \in Seq(Message) /\ Len(longer) = Len(v) + 1 /\ Len(v) \in Nat
      /\ \A k \in 1..Len(v) : longer[k] = v[k]
      /\ longer[Len(v) + 1] = w[1]
  BY <1>1
<1> HIDE DEF longer
<1>3. /\ longer \o Tail(w) \in Seq(Message)
      /\ Len(longer \o Tail(w)) = Len(longer) + Len(Tail(w))
      /\ \A i \in 1..Len(longer) + Len(Tail(w)) : (longer \o Tail(w))[i] =
           IF i <= Len(longer) THEN longer[i] ELSE Tail(w)[i - Len(longer)]
  BY <1>1, <1>2, ConcatProperties
<1>4. /\ v \o w \in Seq(Message)
      /\ Len(v \o w) = Len(v) + Len(w)
      /\ \A i \in 1..Len(v) + Len(w) : (v \o w)[i] =
           IF i <= Len(v) THEN v[i] ELSE w[i - Len(v)]
  BY ConcatProperties
<1>5. ASSUME NEW i \in 1..Len(v \o w)
      PROVE  (longer \o Tail(w))[i] = (v \o w)[i]
  <2> DEFINE x == longer \o Tail(w)
             y == v \o w
  <2>1. i \in 1..(Len(v) + Len(w)) /\ i \in 1..Len(longer) + Len(Tail(w))
    BY <1>1, <1>2, <1>4
  <2>2. x[i] = IF i <= Len(longer) THEN longer[i] ELSE Tail(w)[i - Len(longer)]
    BY <1>3, <2>1
  <2>3. y[i] = IF i <= Len(v) THEN v[i] ELSE w[i - Len(v)]
    BY <1>4, <2>1
  <2> HIDE DEF x, y
  <2>4. CASE i <= Len(v)
    BY <1>2, <2>1, <2>2, <2>3, <2>4
  <2>5. CASE i = Len(v) + 1
    <3>1. x[i] = w[1]
      BY <1>2, <2>2, <2>5
    <3>2. y[i] = w[1]
      BY <1>2, <2>3, <2>5
    <3> QED BY <3>1, <3>2 DEF x, y
  <2>6. CASE i > Len(v) + 1
    <3>1. i - Len(longer) \in 1..Len(Tail(w))
          /\ (i - Len(longer)) + 1 = i - Len(v)
      BY <1>1, <1>2, <2>1, <2>6
    <3>2. x[i] = w[i - Len(v)]
      BY <1>1, <1>2, <2>1, <2>2, <2>6, <3>1
    <3>3. y[i] = w[i - Len(v)]
      BY <1>2, <2>1, <2>3, <2>6
    <3> QED BY <3>2, <3>3 DEF x, y
  <2> QED BY <1>2, <2>1, <2>4, <2>5, <2>6 DEF x, y
<1>6. Len(longer \o Tail(w)) = Len(v \o w)
  BY <1>1, <1>2, <1>3, <1>4
<1>7. longer \o Tail(w) = v \o w
  BY <1>3, <1>4, <1>5, <1>6, SeqEqual
<1>8. ASSUME NEW k \in 1..Len(longer)
      PROVE  (k \in 1..Len(v) /\ longer[k] = v[k]) \/ longer[k] = w[1]
  <2>1. k \in 1..Len(v) \/ k = Len(v) + 1
    BY <1>2
  <2> QED BY <1>2, <2>1
<1>9. ASSUME NEW k \in 1..Len(Tail(w))
      PROVE  k + 1 \in 1..Len(w) /\ Tail(w)[k] = w[k + 1]
  BY <1>1
<1> QED BY <1>1, <1>2, <1>7, <1>8, <1>9 DEF longer

\* Reading takes the first of the rest.
LEMMA RestAfterRead ==
  ASSUME NEW v \in Seq(Message), NEW w \in Seq(Message), v # <<>>
  PROVE  /\ Tail(v) \o w = Tail(v \o w)
         /\ Head(v \o w) = Head(v)
         /\ v \o w # <<>> /\ v \o w \in Seq(Message)
<1> HIDE DEF Message
<1>1. /\ Head(v) = v[1] /\ Tail(v) \in Seq(Message)
      /\ Len(Tail(v)) = Len(v) - 1 /\ Len(v) \in Nat /\ Len(v) >= 1
      /\ \A k \in 1..Len(Tail(v)) : Tail(v)[k] = v[k + 1]
  OBVIOUS
<1> DEFINE x == Tail(v) \o w
           y == v \o w
<1>2. /\ x \in Seq(Message)
      /\ Len(x) = Len(Tail(v)) + Len(w)
      /\ \A i \in 1..Len(Tail(v)) + Len(w) : x[i] =
           IF i <= Len(Tail(v)) THEN Tail(v)[i] ELSE w[i - Len(Tail(v))]
  BY <1>1, ConcatProperties
<1>3. /\ y \in Seq(Message)
      /\ Len(y) = Len(v) + Len(w)
      /\ \A i \in 1..Len(v) + Len(w) : y[i] =
           IF i <= Len(v) THEN v[i] ELSE w[i - Len(v)]
  BY ConcatProperties
<1>4. Len(w) \in Nat
  OBVIOUS
<1> HIDE DEF x, y
<1>5. y # <<>> /\ Head(y) = y[1] /\ y[1] = v[1]
  BY <1>1, <1>3, <1>4
<1>6. /\ Tail(y) \in Seq(Message) /\ Len(Tail(y)) = Len(y) - 1
      /\ \A i \in 1..Len(Tail(y)) : Tail(y)[i] = y[i + 1]
  BY <1>3, <1>5, HeadTailProperties
<1>7. ASSUME NEW i \in 1..Len(x)
      PROVE  x[i] = Tail(y)[i]
  <2>1. /\ i \in 1..Len(Tail(v)) + Len(w) /\ i \in 1..Len(Tail(y))
        /\ i + 1 \in 1..Len(v) + Len(w)
    BY <1>1, <1>2, <1>3, <1>4, <1>6
  <2>2. Tail(y)[i] = IF i + 1 <= Len(v) THEN v[i + 1] ELSE w[i + 1 - Len(v)]
    BY <1>3, <1>6, <2>1
  <2>3. x[i] = IF i <= Len(Tail(v)) THEN Tail(v)[i] ELSE w[i - Len(Tail(v))]
    BY <1>2, <2>1
  <2>4. CASE i <= Len(Tail(v))
    BY <1>1, <2>1, <2>2, <2>3, <2>4
  <2>5. CASE i > Len(Tail(v))
    <3>1. i - Len(Tail(v)) = i + 1 - Len(v)
      BY <1>1, <2>1
    <3> QED BY <1>1, <2>1, <2>2, <2>3, <2>5, <3>1
  <2> QED BY <1>1, <2>1, <2>4, <2>5
<1>8. Len(x) = Len(Tail(y))
  BY <1>1, <1>2, <1>3, <1>4, <1>6
<1>9. x = Tail(y)
  BY <1>2, <1>6, <1>7, <1>8, SeqEqual
<1> QED BY <1>1, <1>3, <1>5, <1>9 DEF x, y

LEMMA WriteKeepsInv ==
  ASSUME Inv, Write
  PROVE  Inv'
<1>1. /\ open /\ out # <<>>
      /\ wire' = Append(wire, Head(out)) /\ out' = Tail(out)
      /\ UNCHANGED <<ring, skew, request, meant, age, open, client, faults>>
  BY DEF Write
<1>2. /\ wire \in Seq(Message) /\ out \in Seq(Message)
      /\ \A k \in 1..Len(wire) : Fits(wire[k])
      /\ \A k \in 1..Len(out) : Fits(out[k])
  BY MessagesType DEF Inv
<1>3. /\ wire' \in Seq(Message) /\ out' \in Seq(Message)
      /\ \A k \in 1..Len(wire') : Fits(wire'[k])
      /\ \A k \in 1..Len(out') : Fits(out'[k])
      /\ Rest' = Rest
  <2>1. /\ wire' \in Seq(Message) /\ out' \in Seq(Message) /\ Rest' = Rest
        /\ \A k \in 1..Len(wire') :
             (k \in 1..Len(wire) /\ wire'[k] = wire[k]) \/ wire'[k] = out[1]
        /\ \A k \in 1..Len(out') : k + 1 \in 1..Len(out) /\ out'[k] = out[k + 1]
        /\ 1 \in 1..Len(out)
    BY <1>1, <1>2, RestAfterWrite DEF Rest
  <2> QED BY <1>2, <2>1
<1>4. TypeOK'
  <2>1. /\ ring' \subseteq Keys /\ skew' \in (0 - MaxSkew)..MaxSkew
        /\ request' \in Request \cup {NoRequest}
        /\ meant' \in Seq(Record) /\ age' \in 0..Transit /\ open' \in BOOLEAN
        /\ client' \in Client /\ faults' \in 0..MaxFaults
    BY <1>1 DEF Inv, TypeOK
  <2> QED BY <1>3, <2>1, TypeFromMessages
<1>5. Flow'
  <2>1. request = NoRequest /\ client.stage # "idle"
        /\ client.stage \notin {"done", "refused"}
    BY <1>1 DEF Inv, Flow
  <2>2. Coming' <=> Coming
    BY <1>1, <1>3 DEF Coming, Carry, AnswerKey
  <2>3. Refusing' <=> Refusing
    BY <1>1, <1>3 DEF Refusing, Trusted
  <2>4. Trusted' <=> Trusted
    BY <1>1 DEF Trusted
  <2> QED BY <1>1, <2>1, <2>2, <2>3, <2>4 DEF Inv, Flow
<1> QED BY <1>4, <1>5 DEF Inv

LEMMA CutKeepsInv ==
  ASSUME Inv, Cut
  PROVE  Inv'
<1>1. /\ open /\ client.stage # "idle" /\ faults < MaxFaults
      /\ open' = FALSE /\ request' = NoRequest /\ out' = <<>>
      /\ faults' = faults + 1
      /\ UNCHANGED <<ring, skew, meant, age, client>>
  BY DEF Cut
<1>2. PICK n \in 0..Len(wire) : wire' = SubSeq(wire, 1, n)
  BY DEF Cut
<1>3. /\ wire \in Seq(Message) /\ out \in Seq(Message) /\ Rest \in Seq(Message)
      /\ \A k \in 1..Len(wire) : Fits(wire[k])
  BY MessagesType DEF Inv
<1>4. /\ wire' \in Seq(Message) /\ Len(wire') = n
      /\ \A k \in 1..n : k \in 1..Len(wire) /\ wire'[k] = wire[k]
  <2> HIDE DEF Message
  <2>1. Len(wire) \in Nat
    BY <1>3
  <2>2. \A i \in 1..n : wire[i] \in Message
    BY <1>3, <2>1, ElementOfSeq
  <2>3. /\ SubSeq(wire, 1, n) \in Seq(Message)
        /\ Len(SubSeq(wire, 1, n)) = IF 1 <= n THEN n - 1 + 1 ELSE 0
        /\ \A i \in 1..(n - 1 + 1) : SubSeq(wire, 1, n)[i] = wire[1 + i - 1]
    BY <2>1, <2>2, SubSeqProperties
  <2>4. n \in Nat /\ n - 1 + 1 = n /\ \A i \in 1..n : 1 + i - 1 = i
    BY <2>1
  <2> QED BY <1>2, <2>1, <2>3, <2>4
<1>5. /\ Rest' = wire' /\ n \in 0..Len(Rest)
      /\ \A k \in 1..n : Rest'[k] = Rest[k]
  <2>1. Rest' = wire'
    BY <1>1, <1>4, EmptyType DEF Rest
  <2>2. /\ Len(Rest) = Len(wire) + Len(out)
        /\ \A i \in 1..Len(wire) + Len(out) : Rest[i] =
             IF i <= Len(wire) THEN wire[i] ELSE out[i - Len(wire)]
    BY <1>3, ConcatProperties DEF Rest
  <2>3. Len(wire) \in Nat /\ Len(out) \in Nat
    BY <1>3
  <2>4. \A k \in 1..n : Rest[k] = wire[k]
    BY <2>2, <2>3
  <2> QED BY <1>4, <2>1, <2>2, <2>3, <2>4
<1>6. /\ out' \in Seq(Message) /\ \A k \in 1..Len(out') : Fits(out'[k])
      /\ \A k \in 1..Len(wire') : Fits(wire'[k])
  BY <1>1, <1>3, <1>4, EmptyType
<1>7. TypeOK'
  <2>1. /\ ring' \subseteq Keys /\ skew' \in (0 - MaxSkew)..MaxSkew
        /\ request' \in Request \cup {NoRequest}
        /\ meant' \in Seq(Record) /\ age' \in 0..Transit /\ open' \in BOOLEAN
        /\ client' \in Client
    BY <1>1 DEF Inv, TypeOK
  <2>2. faults' \in 0..MaxFaults
    BY <1>1, StreamAssumption DEF Inv, TypeOK
  <2> QED BY <1>4, <1>6, <2>1, <2>2, TypeFromMessages
<1>8. ASSUME Coming
      PROVE  Coming'
  <2>1. PICK to : Carry(meant, Rest, Len(client.got), to)
    BY <1>8 DEF Coming
  <2>2. \E mid : Carry(meant, wire', Len(client.got), mid)
    BY <1>3, <1>4, <1>5, <2>1, CarryPrefix
  <2>3. \E mid : Carry(meant, Rest, Len(client.got), mid)'
    BY <1>1, <1>5, <2>2 DEF Carry, AnswerKey
  <2> QED BY <1>1, <1>8, <2>3 DEF Coming
<1>9. ASSUME Refusing
      PROVE  (Coming \/ Refusing)'
  <2>1. Rest = <<Refusal>> /\ Len(Rest) = 1
    BY <1>9 DEF Refusing
  <2>2. CASE n = 0
    <3>1. (Rest = <<>>)'
      BY <1>4, <1>5, <2>2
    <3>2. (meant = <<>>)' /\ (client.got = <<>>)'
      BY <1>1, <1>9 DEF Refusing
    <3>3. Coming'
      BY <3>1, <3>2, ComingNothing, PTL
    <3> QED BY <3>3
  <2>3. CASE n # 0
    <3>1. n = 1
      BY <1>5, <2>1, <2>3
    <3>2. Rest' = Rest
      <4>1. Rest' \in Seq(Message) /\ Len(Rest') = Len(Rest)
        BY <1>4, <1>5, <2>1, <3>1
      <4>2. \A i \in 1..Len(Rest) : Rest'[i] = Rest[i]
        BY <1>5, <2>1, <3>1
      <4> QED BY <1>3, <4>1, <4>2, SeqEqual
    <3> QED BY <1>1, <1>9, <3>2 DEF Refusing, Trusted
  <2> QED BY <2>2, <2>3
<1>10. Flow'
  <2>1. wire = <<>> => wire' = <<>>
    <3>1. ASSUME wire = <<>>
          PROVE  wire' = <<>>
      <4>1. n = 0
        BY <3>1
      <4> QED BY <1>4, <4>1
    <3> QED BY <3>1
  <2>2. Trusted' <=> Trusted
    BY <1>1 DEF Trusted
  <2>3. client.stage = "reading" => (Coming \/ Refusing)'
    BY <1>8, <1>9 DEF Inv, Flow
  <2> QED BY <1>1, <2>1, <2>2, <2>3 DEF Inv, Flow
<1> QED BY <1>7, <1>10 DEF Inv

LEMMA TickKeepsInv ==
  ASSUME Inv, Tick
  PROVE  Inv'
<1>1. /\ UNCHANGED <<ring, skew, meant, out, wire, open, client, faults>>
      /\ \/ /\ request # NoRequest /\ request.age < Transit
            /\ request' = [request EXCEPT !.age = @ + 1] /\ age' = age
         \/ /\ age < Transit /\ age' = age + 1 /\ request' = request
  BY DEF Tick
<1>2. /\ request' \in Request \cup {NoRequest} /\ age' \in 0..Transit
      /\ request = NoRequest => request' = NoRequest
      /\ request # NoRequest =>
           request'.kind = request.kind /\ request'.key = request.key
  <2>1. CASE request # NoRequest /\ request.age < Transit
             /\ request' = [request EXCEPT !.age = @ + 1] /\ age' = age
    <3>1. request \in Request
      BY <2>1 DEF Inv, TypeOK
    <3>2. request.age + 1 \in 0..Transit
      BY <2>1, <3>1, StreamAssumption DEF Request
    <3>3. request' \in Request
      BY <2>1, <3>1, <3>2 DEF Request
    <3>4. request'.kind = request.kind /\ request'.key = request.key
      BY <2>1, <3>1 DEF Request
    <3> QED BY <2>1, <3>3, <3>4 DEF Inv, TypeOK
  <2>2. CASE age < Transit /\ age' = age + 1 /\ request' = request
    <3>1. age + 1 \in 0..Transit
      BY <2>2, StreamAssumption DEF Inv, TypeOK
    <3> QED BY <2>2, <3>1 DEF Inv, TypeOK
  <2> QED BY <1>1, <2>1, <2>2
<1>3. TypeOK'
  BY <1>1, <1>2 DEF Inv, TypeOK
<1>4. Flow'
  <2>1. Rest' = Rest
    BY <1>1 DEF Rest
  <2>2. Coming' <=> Coming
    BY <1>1, <2>1 DEF Coming, Carry, AnswerKey
  <2>3. Refusing' <=> Refusing
    BY <1>1, <2>1 DEF Refusing, Trusted
  <2>4. Trusted' <=> Trusted
    BY <1>1 DEF Trusted
  <2> QED BY <1>1, <1>2, <2>2, <2>3, <2>4 DEF Inv, Flow
<1> QED BY <1>3, <1>4 DEF Inv

LEMMA CloseKeepsInv ==
  ASSUME Inv, Close
  PROVE  Inv'
<1>1. /\ \/ client.stage \in {"done", "refused", "failed"}
         \/ client.stage = "reading" /\ Silent
      /\ client' = AtRest /\ open' = TRUE /\ meant' = <<>> /\ age' = 0
      /\ UNCHANGED <<ring, skew, request, faults>>
  BY DEF Close
<1>2. \/ open /\ client.stage \in {"done", "refused"} /\ UNCHANGED <<out, wire>>
      \/ out' = <<>> /\ wire' = <<>>
  BY DEF Close
<1>3. request = NoRequest
  BY <1>1 DEF Inv, Flow, Silent
<1>4. out' = <<>> /\ wire' = <<>>
  BY <1>2 DEF Inv, Flow
<1>5. /\ out' \in Seq(Message) /\ wire' \in Seq(Message)
      /\ \A k \in 1..Len(out') : Fits(out'[k])
      /\ \A k \in 1..Len(wire') : Fits(wire'[k])
  BY <1>4, EmptyType
<1>6. TypeOK'
  <2>1. /\ ring' \subseteq Keys /\ skew' \in (0 - MaxSkew)..MaxSkew
        /\ request' \in Request \cup {NoRequest} /\ faults' \in 0..MaxFaults
    BY <1>1 DEF Inv, TypeOK
  <2>2. meant' \in Seq(Record) /\ open' \in BOOLEAN /\ age' \in 0..Transit
    BY <1>1, EmptyType, StreamAssumption
  <2>3. client' \in Client
    <3>1. <<>> \in Seq(Record)
      BY EmptyType
    <3> QED BY <1>1, <3>1 DEF AtRest, Client
  <2> QED BY <1>5, <2>1, <2>2, <2>3, TypeFromMessages
<1>7. Flow'
  BY <1>1, <1>3, <1>4 DEF Flow, AtRest, Answers
<1> QED BY <1>6, <1>7 DEF Inv

\* What has been read so far, and one message more.
LEMMA MoreRead ==
  ASSUME NEW records \in Seq(Record), NEW from \in 0..Len(records),
         NEW mid \in 0..Len(records), from <= mid
  PROVE  /\ SubSeq(records, 1, from) \o SubSeq(records, from + 1, mid)
              = SubSeq(records, 1, mid)
         /\ Len(SubSeq(records, 1, mid)) = mid
         /\ SubSeq(records, 1, mid) \in Seq(Record)
         /\ \A k \in 1..mid :
              SubSeq(SubSeq(records, 1, mid), 1, k) = SubSeq(records, 1, k)
<1> HIDE DEF Record
<1>0. Len(records) \in Nat /\ 0 \in 0..Len(records) /\ 0 + 1 = 1
  OBVIOUS
<1> DEFINE s == SubSeq(records, 1, from)
           t == SubSeq(records, from + 1, mid)
           u == SubSeq(records, 1, mid)
<1>1. s \in Seq(Record) /\ Len(s) = from
      /\ \A i \in 1..from : s[i] = records[i]
  <2>1. SubSeq(records, 0 + 1, from) \in Seq(Record)
        /\ Len(SubSeq(records, 0 + 1, from)) = from - 0
    BY <1>0, PieceType
  <2>2. \A i \in 1..from : s[i] = records[i]
    BY <1>0
  <2> HIDE DEF s
  <2>3. s \in Seq(Record) /\ Len(s) = from - 0
    BY <1>0, <2>1 DEF s
  <2> QED BY <1>0, <2>2, <2>3
<1>2. t \in Seq(Record) /\ Len(t) = mid - from
      /\ \A i \in 1..(mid - from) : t[i] = records[from + i]
  <2>1. SubSeq(records, from + 1, mid) \in Seq(Record)
        /\ Len(SubSeq(records, from + 1, mid)) = mid - from
    BY <1>0, PieceType
  <2>2. \A i \in 1..(mid - from) : t[i] = records[from + i]
    BY <1>0
  <2> QED BY <2>1, <2>2
<1>3. u \in Seq(Record) /\ Len(u) = mid
      /\ \A i \in 1..mid : u[i] = records[i]
  <2>1. SubSeq(records, 0 + 1, mid) \in Seq(Record)
        /\ Len(SubSeq(records, 0 + 1, mid)) = mid - 0
    BY <1>0, PieceType
  <2>2. \A i \in 1..mid : u[i] = records[i]
    BY <1>0
  <2> HIDE DEF u
  <2>3. u \in Seq(Record) /\ Len(u) = mid - 0
    BY <1>0, <2>1 DEF u
  <2> QED BY <1>0, <2>2, <2>3
<1> HIDE DEF s, t, u
<1>4. s \o t = u
  <2>1. /\ s \o t \in Seq(Record)
        /\ Len(s \o t) = Len(s) + Len(t)
        /\ \A i \in 1..Len(s) : (s \o t)[i] = s[i]
        /\ \A i \in 1..Len(t) : (s \o t)[Len(s) + i] = t[i]
    BY <1>1, <1>2, Joined, Zenon
  <2> DEFINE st == s \o t
  <2> HIDE DEF st
  <2>2. /\ st \in Seq(Record)
        /\ Len(st) = Len(s) + Len(t)
        /\ \A i \in 1..Len(s) : st[i] = s[i]
        /\ \A i \in 1..Len(t) : st[Len(s) + i] = t[i]
    BY <2>1 DEF st
  <2>3. Len(st) = Len(u)
    BY <1>0, <1>1, <1>2, <1>3, <2>2
  <2>4. ASSUME NEW i \in 1..Len(st)
        PROVE  st[i] = u[i]
    <3>1. i \in 1..mid
      BY <1>3, <2>3
    <3>2. CASE i <= from
      BY <1>0, <1>1, <1>3, <2>2, <3>1, <3>2
    <3>3. CASE i > from
      <4>1. i - from \in 1..(mid - from) /\ from + (i - from) = i
        BY <1>0, <3>1, <3>3
      <4>2. st[from + (i - from)] = t[i - from]
        BY <1>1, <1>2, <2>2, <4>1
      <4>3. t[i - from] = records[from + (i - from)]
        BY <1>2, <4>1
      <4> QED BY <1>3, <3>1, <4>1, <4>2, <4>3
    <3> QED BY <1>0, <3>1, <3>2, <3>3
  <2>5. st = u
    BY <1>3, <2>2, <2>3, <2>4, SeqEqual
  <2> QED BY <2>5 DEF st
<1>5. ASSUME NEW k \in 1..mid
      PROVE  SubSeq(u, 1, k) = SubSeq(records, 1, k)
  <2>1. k \in 1..Len(records) /\ k \in Nat
    BY <1>0
  <2>2. SubSeq(u, 1, k) = [i \in 1..k |-> u[i]]
    BY <1>3, <2>1
  <2>3. SubSeq(records, 1, k) = [i \in 1..k |-> records[i]]
    BY <1>0, <2>1
  <2>4. \A i \in 1..k : u[i] = records[i]
    BY <1>0, <1>3
  <2> QED BY <2>2, <2>3, <2>4
<1> QED BY <1>3, <1>4, <1>5 DEF s, t, u

\* The places within the message at which the stream is over.
Ends(all) ==
  {k \in (Len(client.got) + 1)..Len(all) : Over(client.kind, SubSeq(all, 1, k))}

\* The first of the messages left is taken for what it is: the answer goes on,
\* or it is over with its last record.
LEMMA ReadComing ==
  ASSUME Inv, Read, Coming
  PROVE  Flow' /\ client' \in Client
<1> DEFINE m == Head(wire)
           g == Len(client.got)
           L == Len(meant)
           all == client.got \o m.rrs
<1>1. /\ client.stage = "reading" /\ wire # <<>> /\ wire' = Tail(wire)
      /\ UNCHANGED <<ring, skew, request, meant, out, age, open, faults>>
      /\ client' =
           IF m.refused THEN [client EXCEPT !.stage = "refused"]
           ELSE IF ~Accepts(m) THEN [client EXCEPT !.stage = "failed"]
           ELSE IF Ends(all) = {} THEN [client EXCEPT !.got = all]
           ELSE [client EXCEPT !.stage = "done",
                               !.got = SubSeq(all, 1, CHOOSE k \in Ends(all) :
                                                \A j \in Ends(all) : k <= j)]
  BY DEF Read, Ends
<1>2. /\ TypeOK /\ client \in Client /\ meant \in Seq(Record)
      /\ client.kind \in {"AXFR", "IXFR"}
      /\ request = NoRequest
  <2>1. TypeOK /\ client \in Client /\ meant \in Seq(Record)
        /\ client.kind \in {"AXFR", "IXFR"}
    BY <1>1 DEF Inv, Flow, TypeOK
  <2>2. request = NoRequest
    BY <1>1 DEF Inv, Flow
  <2> QED BY <2>1, <2>2
<1>3. wire \in Seq(Message) /\ out \in Seq(Message) /\ Rest \in Seq(Message)
  BY <1>2, MessagesType
<1>4. /\ Tail(wire) \o out = Tail(Rest) /\ Head(Rest) = m /\ Rest # <<>>
      /\ Rest' = Tail(Rest)
  BY <1>1, <1>3, RestAfterRead DEF Rest
<1>5. PICK to : Carry(meant, Rest, g, to) /\ (open => to = L)
  BY DEF Coming
<1>6. L \in Nat /\ g \in Nat
  <2>1. client.got \in Seq(Record)
    BY <1>2 DEF Client
  <2> QED BY <1>2, <2>1
<1>7. PICK mid \in 0..L :
        /\ g < mid /\ mid - g <= MaxRRs
        /\ m = sign_message(SubSeq(meant, g + 1, mid), AnswerKey)
        /\ Carry(meant, Tail(Rest), mid, to)
        /\ Tail(Rest) # <<>> => mid < L
  BY <1>3, <1>4, <1>5, <1>6, CarryHead
<1>8. m.refused = FALSE /\ m.rrs = SubSeq(meant, g + 1, mid) /\ m.key = AnswerKey
  <2> DEFINE rrs == SubSeq(meant, g + 1, mid)
  <2> HIDE DEF m, rrs
  <2>1. m = [rrs |-> rrs, key |-> AnswerKey, refused |-> FALSE]
    BY <1>7 DEF sign_message, rrs
  <2> QED BY <2>1 DEF rrs
<1>9. /\ all = SubSeq(meant, 1, mid) /\ Len(all) = mid /\ all \in Seq(Record)
      /\ \A k \in 1..mid : SubSeq(all, 1, k) = SubSeq(meant, 1, k)
  <2>1. g \in 0..L /\ g <= mid
    BY <1>6, <1>7
  <2>2. client.got = SubSeq(meant, 1, g)
    BY DEF Coming
  <2>3. /\ SubSeq(meant, 1, g) \o SubSeq(meant, g + 1, mid)
              = SubSeq(meant, 1, mid)
        /\ Len(SubSeq(meant, 1, mid)) = mid
        /\ SubSeq(meant, 1, mid) \in Seq(Record)
        /\ \A k \in 1..mid :
             SubSeq(SubSeq(meant, 1, mid), 1, k) = SubSeq(meant, 1, k)
    BY <1>2, <2>1, MoreRead
  <2>4. all = SubSeq(meant, 1, mid)
    BY <1>8, <2>2, <2>3
  <2> HIDE DEF all, g
  <2> QED BY <2>3, <2>4
<1>10. \A k \in 1..L : Over(client.kind, SubSeq(meant, 1, k)) <=> k = L
  <2>1. meant \in Answers(client.kind)
    BY DEF Inv, Flow
  <2> QED BY <1>2, <2>1, EndsAtLast
<1> HIDE DEF all, m, g, L
<1>11. Ends(all) = IF mid = L THEN {L} ELSE {}
  <2>1. Ends(all) = {k \in (g + 1)..mid : Over(client.kind, SubSeq(all, 1, k))}
    BY <1>9 DEF Ends, g
  <2>2. ASSUME NEW k \in (g + 1)..mid
        PROVE  Over(client.kind, SubSeq(all, 1, k)) <=> k = L
    <3>1. k \in 1..mid /\ k \in 1..L
      BY <1>6, <1>7
    <3> QED BY <1>9, <1>10, <3>1
  <2>3. L \in (g + 1)..mid <=> mid = L
    BY <1>6, <1>7
  <2>4. ASSUME mid # L, NEW k \in (g + 1)..mid
        PROVE  k # L
    BY <1>6, <1>7, <2>4
  <2> QED BY <2>1, <2>2, <2>3, <2>4
<1>12. /\ client = [stage |-> "reading", kind |-> client.kind,
                    key |-> client.key, got |-> client.got]
       /\ client.key \in Keys \cup {NoKey} /\ client.got \in Seq(Record)
  <2> HIDE DEF Record
  <2> QED BY <1>1, <1>2 DEF Client
<1>13. CASE ~Accepts(m)
  <2>1. client' = [client EXCEPT !.stage = "failed"]
    BY <1>1, <1>8, <1>13
  <2>2. ~Trusted
    <3>1. SUFFICES ASSUME Trusted
                   PROVE  FALSE
      OBVIOUS
    <3>2. age \in 0..Transit
      BY <1>2 DEF TypeOK
    <3>3. InWindow(age + skew)
      BY <1>2, <3>1, <3>2, TrustedInTime DEF Trusted
    <3>4. m.key = client.key
      BY <1>8, <3>1 DEF Trusted, AnswerKey
    <3> QED BY <1>13, <3>3, <3>4 DEF Accepts
  <2>3. client'.stage = "failed" /\ client'.kind = client.kind
        /\ client'.key = client.key
    BY <1>2, <2>1 DEF Client
  <2>4. client' \in Client
    BY <1>2, <2>1 DEF Client
  <2>5. ~Trusted'
    BY <1>1, <2>2, <2>3 DEF Trusted
  <2>6. meant' \in Answers(client'.kind)
    BY <1>1, <2>3 DEF Inv, Flow
  <2> QED BY <1>1, <1>2, <2>3, <2>4, <2>5, <2>6 DEF Flow
<1>14. CASE Accepts(m) /\ mid = L
  <2>1. Ends(all) = {L}
    BY <1>11, <1>14
  <2>2. (CHOOSE k \in Ends(all) : \A j \in Ends(all) : k <= j) = L
    BY <1>6, <2>1
  <2>3. client' = [client EXCEPT !.stage = "done", !.got = SubSeq(all, 1, L)]
    BY <1>1, <1>8, <1>14, <2>1, <2>2
  <2>4. SubSeq(all, 1, L) = meant
    <3>1. all = meant
      BY <1>2, <1>9, <1>14, SubSeqFull DEF L
    <3> QED BY <1>2, <3>1, SubSeqFull DEF L
  <2>5. client'.stage = "done" /\ client'.kind = client.kind
        /\ client'.key = client.key /\ client'.got = meant
    BY <1>2, <2>3, <2>4 DEF Client
  <2>6. client' \in Client
    BY <1>2, <2>3, <2>4 DEF Client
  <2>7. wire' = <<>> /\ out' = <<>>
    <3>1. Tail(wire) \o out = <<>>
      BY <1>4, <1>6, <1>7, <1>14
    <3>2. Tail(wire) \in Seq(Message)
      BY <1>1, <1>3, HeadTailProperties
    <3>3. Tail(wire) = <<>> /\ out = <<>>
      BY <1>3, <3>1, <3>2, ConcatEqualIffEmpty
    <3> QED BY <1>1, <3>3
  <2>8. meant' \in Answers(client'.kind)
    BY <1>1, <2>5 DEF Inv, Flow
  <2> QED BY <1>1, <1>2, <2>5, <2>6, <2>7, <2>8 DEF Flow
<1>15. CASE Accepts(m) /\ mid # L
  <2>1. Ends(all) = {}
    BY <1>11, <1>15
  <2>2. client' = [client EXCEPT !.got = all]
    BY <1>1, <1>8, <1>15, <2>1
  <2>3. client'.stage = "reading" /\ client'.kind = client.kind
        /\ client'.key = client.key /\ client'.got = all
    BY <1>1, <1>2, <2>2 DEF Client
  <2>4. client' \in Client
    BY <1>2, <1>9, <2>2 DEF Client
  <2>5. meant' \in Answers(client'.kind)
    BY <1>1, <2>3 DEF Inv, Flow
  <2>6. Coming'
    <3>1. Len(client'.got) = mid /\ client'.got = SubSeq(meant', 1, mid)
      BY <1>1, <1>9, <2>3
    <3>2. mid < Len(meant')
      BY <1>1, <1>6, <1>15 DEF L
    <3>3. Carry(meant, Rest, mid, to)'
      <4>1. AnswerKey' = AnswerKey
        BY <1>1 DEF AnswerKey
      <4> QED BY <1>1, <1>4, <1>7, <4>1 DEF Carry
    <3>4. open' => to = Len(meant')
      BY <1>1, <1>5 DEF L
    <3> QED BY <3>1, <3>2, <3>3, <3>4 DEF Coming
  <2> QED BY <1>1, <1>2, <2>3, <2>4, <2>5, <2>6 DEF Flow
<1> QED BY <1>13, <1>14, <1>15

LEMMA ReadRefusing ==
  ASSUME Inv, Read, Refusing
  PROVE  Flow' /\ client' \in Client
<1>1. /\ client.stage = "reading" /\ wire # <<>> /\ wire' = Tail(wire)
      /\ UNCHANGED <<ring, skew, request, meant, out, age, open, faults>>
  BY DEF Read
<1>2. TypeOK /\ client \in Client /\ request = NoRequest
  <2>1. TypeOK /\ client \in Client
    BY DEF Inv, TypeOK
  <2>2. request = NoRequest
    BY <1>1 DEF Inv, Flow
  <2> QED BY <2>1, <2>2
<1>3. wire \in Seq(Message) /\ out \in Seq(Message)
  BY <1>2, MessagesType
<1>4. Rest = <<Refusal>> /\ ~Trusted
  BY DEF Refusing
<1>5. Tail(wire) \o out = Tail(Rest) /\ Head(Rest) = Head(wire)
  BY <1>1, <1>3, RestAfterRead DEF Rest
<1>6. Head(wire) = Refusal /\ Tail(wire) \o out = <<>>
  BY <1>4, <1>5
<1>7. (Head(wire)).refused
  BY <1>6 DEF Refusal
<1>8. client' = [client EXCEPT !.stage = "refused"]
  BY <1>7 DEF Read
<1>9. wire' = <<>> /\ out' = <<>>
  <2>1. Tail(wire) \in Seq(Message)
    BY <1>1, <1>3, HeadTailProperties
  <2>2. Tail(wire) = <<>> /\ out = <<>>
    BY <1>3, <1>6, <2>1, ConcatEqualIffEmpty
  <2> QED BY <1>1, <2>2
<1>10. client'.stage = "refused" /\ client'.kind = client.kind
       /\ client'.key = client.key
  BY <1>2, <1>8 DEF Client
<1>11. client' \in Client
  BY <1>2, <1>8 DEF Client
<1>12. ~Trusted'
  BY <1>1, <1>4, <1>10 DEF Trusted
<1>13. meant' \in Answers(client'.kind)
  BY <1>1, <1>10 DEF Inv, Flow
<1> QED BY <1>1, <1>2, <1>9, <1>10, <1>11, <1>12, <1>13 DEF Flow

LEMMA ReadKeepsInv ==
  ASSUME Inv, Read
  PROVE  Inv'
<1>1. /\ client.stage = "reading" /\ wire # <<>> /\ wire' = Tail(wire)
      /\ UNCHANGED <<ring, skew, request, meant, out, age, open, faults>>
  BY DEF Read
<1>2. Coming \/ Refusing
  BY <1>1 DEF Inv, Flow
<1>3. Flow' /\ client' \in Client
  BY <1>2, ReadComing, ReadRefusing
<1>4. /\ wire \in Seq(Message) /\ out \in Seq(Message)
      /\ \A k \in 1..Len(wire) : Fits(wire[k])
      /\ \A k \in 1..Len(out) : Fits(out[k])
  BY MessagesType DEF Inv
<1>5. /\ wire' \in Seq(Message)
      /\ \A k \in 1..Len(wire') : Fits(wire'[k])
  <2> HIDE DEF Message
  <2>1. /\ Tail(wire) \in Seq(Message) /\ Len(Tail(wire)) = Len(wire) - 1
        /\ \A k \in 1..Len(Tail(wire)) : Tail(wire)[k] = wire[k + 1]
        /\ Len(wire) \in Nat
    BY <1>1, <1>4, HeadTailProperties
  <2> QED BY <1>1, <1>4, <2>1
<1>6. out' \in Seq(Message) /\ \A k \in 1..Len(out') : Fits(out'[k])
  BY <1>1, <1>4
<1>7. TypeOK'
  <2>1. /\ ring' \subseteq Keys /\ skew' \in (0 - MaxSkew)..MaxSkew
        /\ request' \in Request \cup {NoRequest}
        /\ meant' \in Seq(Record) /\ age' \in 0..Transit /\ open' \in BOOLEAN
        /\ faults' \in 0..MaxFaults
    BY <1>1 DEF Inv, TypeOK
  <2> QED BY <1>3, <1>5, <1>6, <2>1, TypeFromMessages
<1> QED BY <1>3, <1>7 DEF Inv

-----------------------------------------------------------------------------
(* The properties.                                                          *)

LEMMA NextKeepsInv ==
  ASSUME Inv, [Next]_vars
  PROVE  Inv'
<1>1. CASE Ask
  BY <1>1, AskKeepsInv
<1>2. CASE Serve
  BY <1>2, ServeKeepsInv
<1>3. CASE Write
  BY <1>3, WriteKeepsInv
<1>4. CASE Cut
  BY <1>4, CutKeepsInv
<1>5. CASE Read
  BY <1>5, ReadKeepsInv
<1>6. CASE Close
  BY <1>6, CloseKeepsInv
<1>7. CASE Tick
  BY <1>7, TickKeepsInv
<1>8. CASE UNCHANGED vars
  <2>1. UNCHANGED <<ring, skew, request, meant, out, wire, age, open, client,
                    faults>>
    BY <1>8 DEF vars
  <2>2. TypeOK'
    BY <2>1 DEF Inv, TypeOK
  <2>3. Rest' = Rest
    BY <2>1 DEF Rest
  <2>4. Coming' <=> Coming
    BY <2>1, <2>3 DEF Coming, Carry, AnswerKey
  <2>5. (Refusing' <=> Refusing) /\ (Trusted' <=> Trusted)
    BY <2>1, <2>3 DEF Refusing, Trusted
  <2>6. Flow'
    BY <2>1, <2>4, <2>5 DEF Inv, Flow
  <2> QED BY <2>2, <2>6 DEF Inv
<1> QED BY <1>1, <1>2, <1>3, <1>4, <1>5, <1>6, <1>7, <1>8 DEF Next

THEOREM Invariance == Spec => []Inv
<1>1. Init => Inv
  BY InitInv
<1>2. Inv /\ [Next]_vars => Inv'
  BY NextKeepsInv
<1> QED BY <1>1, <1>2, PTL DEF Spec

\* Every message that maybe_zone_transfer makes holds at least one and at most
\* MAX_RRS_PER_MSG records, unless it refuses.
THEOREM MessagesStayTyped == Spec => []TypeOK
<1>1. Inv => TypeOK
  BY DEF Inv
<1> QED BY <1>1, Invariance, PTL

\* A secondary takes a stream for complete only where axfr_stream and
\* ixfr_stream have put its last record, and has all of them then.
THEOREM CompleteStreamIsWhole == Spec => []CompleteIsWhole
<1>1. Inv => CompleteIsWhole
  BY DEF Inv, Flow, CompleteIsWhole
<1> QED BY <1>1, Invariance, PTL

\* A stream that is written to its end is not taken for one of which more is
\* to come: nothing carries no part of an answer that is not over.
LEMMA EndSeen ==
  ASSUME Inv
  PROVE  EndIsSeen
<1>1. SUFFICES ASSUME client.stage = "reading", open, Silent
               PROVE  meant = <<>>
  BY DEF EndIsSeen
<1>2. Rest = <<>> /\ Len(Rest) = 0
  BY <1>1, EmptyType DEF Rest, Silent
<1>3. ~Refusing
  <2>1. <<>> # <<Refusal>>
    BY RefusalType, NoRecords
  <2> QED BY <1>2, <2>1 DEF Refusing
<1>4. Coming
  BY <1>1, <1>3 DEF Inv, Flow
<1>5. PICK to : Carry(meant, Rest, Len(client.got), to) /\ to = Len(meant)
  BY <1>1, <1>4 DEF Coming
<1>6. Len(client.got) = Len(meant)
  BY <1>2, <1>5 DEF Carry
<1>7. meant \in Seq(Record)
  BY DEF Inv, TypeOK
<1>8. ~(Len(client.got) < Len(meant))
  <2> HIDE DEF Record
  <2> QED BY <1>6, <1>7
<1> QED BY <1>4, <1>8 DEF Coming

\* A stream that handle_tcp has written to its end is never taken for one of
\* which more is to come.
THEOREM EndOfStreamIsSeen == Spec => []EndIsSeen
<1>1. Inv => EndIsSeen
  BY EndSeen
<1> QED BY <1>1, Invariance, PTL

\* verify_message takes a secondary that signs with the transfer key at its
\* word, and what sign_message makes of the answer is taken by the secondary.
THEOREM SignaturesAreTaken == Spec => []SignaturesHold
<1>1. Inv => SignaturesHold
  BY DEF Inv, Flow, Trusted, SignaturesHold
<1> QED BY <1>1, Invariance, PTL

-----------------------------------------------------------------------------
(* A transfer is delivered as a whole or not at all.                        *)

\* A secondary at rest has no request, and one that was refused no answer.
Outcome ==
  /\ client.stage = "idle" <=> client.kind = "none"
  /\ client.stage = "refused" => meant = <<>>

\* Only a refusal is taken for one, and it comes alone.
LEMMA RefusalComesAlone ==
  ASSUME Inv, client.stage = "reading", wire # <<>>, Head(wire).refused
  PROVE  meant = <<>>
<1>1. TypeOK /\ client \in Client /\ meant \in Seq(Record)
  BY DEF Inv, TypeOK
<1>2. wire \in Seq(Message) /\ out \in Seq(Message) /\ Rest \in Seq(Message)
  BY <1>1, MessagesType
<1>3. Head(Rest) = Head(wire) /\ Rest # <<>>
  BY <1>2, RestAfterRead DEF Rest
<1>4. Len(meant) \in Nat
  BY <1>1, LenProperties
<1>5. ASSUME Coming
      PROVE  FALSE
  <2>1. PICK to : Carry(meant, Rest, Len(client.got), to)
    BY <1>5 DEF Coming
  <2>2. PICK mid : Head(Rest) =
          sign_message(SubSeq(meant, Len(client.got) + 1, mid), AnswerKey)
    BY <1>2, <1>3, <1>4, <2>1, CarryHead
  <2> DEFINE rrs == SubSeq(meant, Len(client.got) + 1, mid)
  <2> HIDE DEF rrs
  <2>3. Head(wire) = [rrs |-> rrs, key |-> AnswerKey, refused |-> FALSE]
    BY <1>3, <2>2 DEF sign_message, rrs
  <2> QED BY <2>3
<1>6. Refusing
  BY <1>5 DEF Inv, Flow
<1> QED BY <1>6 DEF Refusing

\* What reading a message can make of the secondary.
LEMMA ReadOutcome ==
  ASSUME Inv, Read
  PROVE  /\ client'.kind = client.kind
         /\ client'.stage \in {"reading", "refused", "failed", "done"}
         /\ client'.stage = "refused" => meant = <<>>
<1>1. client \in Client /\ client.stage = "reading" /\ wire # <<>>
  BY DEF Read, Inv, TypeOK
<1>2. CASE Head(wire).refused
  <2>1. client' = [client EXCEPT !.stage = "refused"]
    BY <1>2 DEF Read
  <2> HIDE DEF Record
  <2> QED BY <1>1, <1>2, <2>1, RefusalComesAlone DEF Client
<1>3. CASE ~Head(wire).refused
  <2> DEFINE all == client.got \o Head(wire).rrs
             first == CHOOSE k \in Ends(all) : \A j \in Ends(all) : k <= j
             upto == SubSeq(all, 1, first)
  <2>1. \/ client' = [client EXCEPT !.stage = "failed"]
        \/ client' = [client EXCEPT !.got = all]
        \/ client' = [client EXCEPT !.stage = "done", !.got = upto]
    BY <1>3 DEF Read, Ends
  <2> HIDE DEF all, upto, Record
  <2> QED BY <1>1, <2>1 DEF Client
<1> QED BY <1>2, <1>3

LEMMA OutcomeKept ==
  ASSUME Inv, Outcome, [Next]_vars
  PROVE  Outcome'
<1> HIDE DEF Record
<1>1. CASE Ask
  <2>1. PICK kind \in {"AXFR", "IXFR"}, key \in Keys \cup {NoKey} :
          client' = [AtRest EXCEPT !.stage = "reading", !.kind = kind, !.key = key]
    BY <1>1 DEF Ask
  <2> QED BY <2>1 DEF Outcome, AtRest
<1>2. CASE Serve
  <2>1. client.stage = "reading" /\ client' = client
    BY <1>2 DEF Serve, Inv, Flow
  <2> QED BY <2>1 DEF Outcome
<1>3. CASE Write \/ Cut \/ Tick \/ UNCHANGED vars
  <2>1. client' = client /\ meant' = meant
    BY <1>3 DEF Write, Cut, Tick, vars
  <2> QED BY <2>1 DEF Outcome
<1>4. CASE Read
  <2>1. client.stage = "reading" /\ meant' = meant
    BY <1>4 DEF Read
  <2> QED BY <1>4, <2>1, ReadOutcome DEF Outcome
<1>5. CASE Close
  BY <1>5 DEF Close, Outcome, AtRest
<1> QED BY <1>1, <1>2, <1>3, <1>4, <1>5 DEF Next

LEMMA OutcomeHolds == Spec => []Outcome
<1>1. Init => Outcome
  BY DEF Init, Outcome, AtRest
<1>2. Inv /\ Outcome /\ [Next]_vars => Outcome'
  BY OutcomeKept
<1> QED BY <1>1, <1>2, Invariance, PTL DEF Spec

\* What the server answers is an answer to a request of that kind.
LEMMA AnswersAreReplies ==
  ASSUME NEW kind \in {"AXFR", "IXFR"}
  PROVE  DOMAIN Replies = {"AXFR", "IXFR"} /\ Answers(kind) = {<<>>} \cup Replies[kind]
BY DEF Replies, Answers

LEMMA StepDelivers ==
  ASSUME Inv, Inv', Outcome, Outcome', [Next]_vars
  PROVE  [D!Next]_(D!vars)
<1> USE DEF D!vars
<1> HIDE DEF Record
<1>1. CASE Ask
  <2>1. PICK kind \in {"AXFR", "IXFR"}, key \in Keys \cup {NoKey} :
          client' = [AtRest EXCEPT !.stage = "reading", !.kind = kind, !.key = key]
    BY <1>1 DEF Ask
  <2>2. client'.kind = kind /\ client'.stage = "reading"
    BY <2>1 DEF AtRest
  <2>3. client.stage = "idle" /\ client.kind = "none"
        /\ meant' = meant /\ open' = open
    BY <1>1 DEF Ask, Outcome
  <2>4. D!Request
    BY <2>2, <2>3, AnswersAreReplies DEF D!Request
  <2> QED BY <2>4 DEF D!Next
<1>2. CASE Serve
  <2>1. /\ client.stage = "reading" /\ client' = client
        /\ open /\ open' = open /\ meant = <<>>
        /\ client.kind \in {"AXFR", "IXFR"}
    BY <1>2 DEF Serve, Inv, Flow
  <2>2. meant' = <<>> \/ meant' \in Replies[client.kind]
    <3>1. meant' \in Answers(client.kind)
      BY <2>1 DEF Inv, Flow
    <3> QED BY <2>1, <3>1, AnswersAreReplies
  <2>3. CASE meant' = <<>>
    BY <2>1, <2>3
  <2>4. CASE meant' \in Replies[client.kind]
    <3>1. D!Answer
      BY <2>1, <2>4 DEF D!Answer
    <3> QED BY <3>1 DEF D!Next
  <2> QED BY <2>2, <2>3, <2>4
<1>3. CASE Write \/ Tick \/ UNCHANGED vars
  <2>1. client' = client /\ meant' = meant /\ open' = open
    BY <1>3 DEF Write, Tick, vars
  <2> QED BY <2>1
<1>4. CASE Cut
  <2>1. /\ client' = client /\ meant' = meant
        /\ open = TRUE /\ open' = FALSE /\ client.stage # "idle"
    BY <1>4 DEF Cut, Inv, TypeOK
  <2>2. CASE client.stage = "failed"
    BY <2>1, <2>2
  <2>3. CASE client.stage # "failed"
    <3>1. D!Lose
      BY <2>1, <2>3 DEF D!Lose, Outcome
    <3> QED BY <3>1 DEF D!Next
  <2> QED BY <2>2, <2>3
<1>5. CASE Read
  <2>1. /\ client.stage = "reading" /\ meant' = meant /\ open' = open
        /\ client'.kind = client.kind
        /\ client'.stage \in {"reading", "refused", "failed", "done"}
    BY <1>5, ReadOutcome DEF Read
  <2>2. CASE client'.stage \in {"reading", "refused"}
    BY <2>1, <2>2
  <2>3. CASE client'.stage = "failed"
    <3>1. CASE open
      <4>1. D!Lose
        BY <2>1, <2>3, <3>1 DEF D!Lose, Outcome
      <4> QED BY <4>1 DEF D!Next
    <3>2. CASE ~open
      BY <2>1, <2>3, <3>2
    <3> QED BY <3>1, <3>2
  <2>4. CASE client'.stage = "done"
    <3>1. client'.got = meant
      BY <2>1, <2>4 DEF Inv, Flow
    <3>2. CASE meant = <<>>
      BY <2>1, <2>4, <3>1, <3>2
    <3>3. CASE meant # <<>>
      <4>1. D!Take
        BY <2>1, <2>4, <3>1, <3>3 DEF D!Take
      <4> QED BY <4>1 DEF D!Next
    <3> QED BY <3>2, <3>3
  <2> QED BY <2>1, <2>2, <2>3, <2>4
<1>6. CASE Close
  <2>1. /\ client' = AtRest /\ open' = TRUE /\ meant' = <<>>
        /\ \/ client.stage \in {"done", "refused", "failed"}
           \/ client.stage = "reading" /\ Silent
    BY <1>6 DEF Close
  <2>2. client.kind # "none"
    BY <2>1 DEF Outcome
  <2>3. CASE client.stage = "done"
    <3>1. client.got = meant
      BY <2>3 DEF Inv, Flow
    <3>2. D!End
      BY <2>1, <2>2, <2>3, <3>1 DEF D!End, AtRest
    <3> QED BY <3>2 DEF D!Next
  <2>4. CASE client.stage # "done"
    <3>1. meant = <<>> \/ ~open \/ client.stage = "failed"
      BY <2>1, <2>4, EndSeen DEF Outcome, EndIsSeen
    <3>2. D!End
      BY <2>1, <2>2, <2>4, <3>1 DEF D!End, AtRest
    <3> QED BY <3>2 DEF D!Next
  <2> QED BY <2>3, <2>4
<1> QED BY <1>1, <1>2, <1>3, <1>4, <1>5, <1>6 DEF Next

\* Whatever axfr_stream, ixfr_stream and handle_tcp make of an answer, and
\* whatever is lost of it, the transfer is the atomic one of Delivery: one
\* answer to a request, taken as it was given or lost.
THEOREM TransferIsAtomic == Spec => DeliverySpec
<1>1. Init => D!Init
  BY DEF Init, AtRest, D!Init
<1>2. Inv /\ Inv' /\ Outcome /\ Outcome' /\ [Next]_vars => [D!Next]_(D!vars)
  BY StepDelivers
<1> QED BY <1>1, <1>2, Invariance, OutcomeHolds, PTL
        DEF Spec, DeliverySpec, D!Spec
=============================================================================
