--------------------------- MODULE TransferStream ---------------------------
(***************************************************************************)
(* A zone transfer on the wire: how axfr.rs cuts the records of an answer   *)
(* into messages, how tsig.rs and maybe_zone_transfer protect request and   *)
(* answer, how handle_tcp writes the messages one after the other, and a    *)
(* secondary that finds the end of the stream by its SOA records alone.     *)
(* Which answer is given, and whether it is the right one, is the subject   *)
(* of ZoneReload.                                                          *)
(*                                                                         *)
(* The secondary's version has serial 0; the server's is 0 or newer.  A     *)
(* frame carries a whole message, which fits the 16 bits of its length.     *)
(***************************************************************************)
EXTENDS Integers, FiniteSets, SequencesExt

CONSTANTS
  MaxRRs,       \* MAX_RRS_PER_MSG (64 in the code)
  Sizes,        \* records of a zone, or of one half of a delta
  MaxDeltas,    \* bound: deltas of one answer
  Keys,         \* TSIG keys
  TransferKey,  \* the key named "transfer-key."
  NoKey,        \* no signature
  Fudge,        \* ticks by which a signature's time may be off (300 s)
  MaxSkew,      \* bound: ticks between the clocks of server and secondary
  Transit,      \* bound: ticks that a request, or an answer, is on its way
  MaxFaults     \* bound: lost connections

ASSUME StreamAssumption ==
  /\ MaxRRs \in Nat /\ MaxRRs >= 2
  /\ Sizes \subseteq Nat
  /\ MaxDeltas \in Nat
  /\ NoKey \notin Keys
  /\ {Fudge, MaxSkew, Transit, MaxFaults} \subseteq Nat

VARIABLES
  ring,      \* State.tsig_keys, which main.rs fills at the start
  skew,      \* the secondary's clock minus the server's
  request,   \* the request on its way
  meant,     \* the records of the answer, as they should arrive
  out,       \* messages that handle_tcp has still to write
  wire,      \* messages on their way
  age,       \* ticks since the answer was signed
  open,      \* whether the connection is
  client,    \* the secondary
  faults     \* lost connections so far

vars == <<ring, skew, request, meant, out, wire, age, open, client, faults>>

-----------------------------------------------------------------------------
(* The records of an answer.                                                *)

Record == [type : {"soa", "rr"}, of : Nat, n : Nat]

Soa(serial) == [type |-> "soa", of |-> serial, n |-> 0]
Body(of, size) == [n \in 1..size |-> [type |-> "rr", of |-> of, n |-> n]]

\* A whole zone, as RFC 5936 has it.
Whole(serial, size) ==
  <<Soa(serial)>> \o Body(serial, size) \o <<Soa(serial)>>

\* Delta d leads from serial d - 1 to d.
Change(d, delta) ==
  <<Soa(d - 1)>> \o Body(d - 1, delta.removed) \o
  <<Soa(d)>> \o Body(d, delta.added)

\* The deltas between two of the newest SOA, as RFC 1995 has it.
Incremental(deltas) ==
  LET upto[d \in 0..Len(deltas)] ==
        IF d = 0 THEN <<Soa(Len(deltas))>>
                 ELSE upto[d - 1] \o Change(d, deltas[d])
  IN  Append(upto[Len(deltas)], Soa(Len(deltas)))

Deltas == UNION {[1..n -> [removed : Sizes, added : Sizes]] : n \in 1..MaxDeltas}

-----------------------------------------------------------------------------
(* axfr.rs: messages of at most MaxRRs records.                             *)

\* MUTANT of Pack: one record too many.
PackTooMany(acc, rr) ==
  IF Len(acc.current) > MaxRRs
  THEN [packets |-> Append(acc.packets, acc.current), current |-> <<rr>>]
  ELSE [acc EXCEPT !.current = Append(@, rr)]

\* MUTANT of Pack: the record that does not fit is forgotten.
PackDropping(acc, rr) ==
  IF Len(acc.current) >= MaxRRs
  THEN [packets |-> Append(acc.packets, acc.current), current |-> <<>>]
  ELSE [acc EXCEPT !.current = Append(@, rr)]

Pack(acc, rr) ==
  IF Len(acc.current) >= MaxRRs
  THEN [packets |-> Append(acc.packets, acc.current), current |-> <<rr>>]
  ELSE [acc EXCEPT !.current = Append(@, rr)]

axfr_stream(serial, size) ==
  LET records == Append(Body(serial, size), Soa(serial))
      acc[n \in 0..Len(records)] ==
        IF n = 0 THEN [packets |-> <<>>, current |-> <<Soa(serial)>>]
                 ELSE Pack(acc[n - 1], records[n])
      last == acc[Len(records)]
  IN  Append(last.packets, last.current)

\* MUTANT of chunks: only full messages are sent.
chunks_full(rrs) ==
  [k \in 1..(Len(rrs) \div MaxRRs) |->
     SubSeq(rrs, (k - 1) * MaxRRs + 1, k * MaxRRs)]

chunks(rrs) ==
  [k \in 1..((Len(rrs) + MaxRRs - 1) \div MaxRRs) |->
     SubSeq(rrs, (k - 1) * MaxRRs + 1,
            IF k * MaxRRs < Len(rrs) THEN k * MaxRRs ELSE Len(rrs))]

-----------------------------------------------------------------------------
(* tsig.rs.  A signature names its key and the time of its making, and      *)
(* verifies with that key alone.                                            *)

Request == [kind : {"AXFR", "IXFR"}, key : Keys \cup {NoKey}, age : 0..Transit]
NoRequest == [kind |-> "none"]

Message == [rrs : Seq(Record), key : Keys \cup {NoKey}, refused : BOOLEAN]

Magnitude(n) == IF n < 0 THEN -n ELSE n

\* MUTANT of InWindow: a time ahead of one's own is not accepted.
InWindowPast(difference) == difference \in 0..Fudge

InWindow(difference) == Magnitude(difference) <= Fudge

\* The request was signed by the secondary's clock.
verify_message(r) == r.key \in ring /\ InWindow(r.age - skew)

sign_message(rrs, key) == [rrs |-> rrs, key |-> key, refused |-> FALSE]

Refusal == [rrs |-> <<>>, key |-> NoKey, refused |-> TRUE]

-----------------------------------------------------------------------------
(* The server.                                                              *)

\* With a keyring every answer is signed, by the key of one fixed name.
AnswerKey == IF TransferKey \in ring THEN TransferKey ELSE NoKey

Send(records, packets) ==
  /\ meant' = records
  /\ out' = [k \in DOMAIN packets |-> sign_message(packets[k], AnswerKey)]

\* Another zone has that serial now, or the history does not reach back.
SendWhole == \E size \in Sizes : Send(Whole(1, size), axfr_stream(1, size))

SendUpToDate == Send(<<Soa(0)>>, <<<<Soa(0)>>>>)

SendDeltas ==
  \E deltas \in Deltas : Send(Incremental(deltas), chunks(Incremental(deltas)))

\* The zone has lost its SOA record: there is nothing to send.
SendNothing == Send(<<>>, <<>>)

\* handle_tcp has read a request; a keyring makes its signature mandatory.
Refuse ==
  /\ ring # {} /\ ~verify_message(request)
  /\ meant' = <<>>
  /\ out' = <<Refusal>>

Transfer ==
  /\ ring = {} \/ verify_message(request)
  /\ \/ SendWhole
     \/ SendNothing
     \/ request.kind = "IXFR" /\ (SendUpToDate \/ SendDeltas)

\* MUTANT of Serve: the request is not done with.
ServeAgain ==
  /\ request # NoRequest
  /\ Refuse \/ Transfer
  /\ age' = 0
  /\ UNCHANGED <<ring, skew, request, wire, open, client, faults>>

Serve ==
  /\ request # NoRequest
  /\ Refuse \/ Transfer
  /\ request' = NoRequest
  /\ age' = 0
  /\ UNCHANGED <<ring, skew, wire, open, client, faults>>

Write ==
  /\ open
  /\ out # <<>>
  /\ wire' = Append(wire, Head(out))
  /\ out' = Tail(out)
  /\ UNCHANGED <<ring, skew, request, meant, age, open, client, faults>>

\* A write fails or times out, and handle_tcp returns; what was written may
\* still arrive, or the last of it be lost.  (A secondary at rest opens a new
\* connection and asks there.)
Cut ==
  /\ open
  /\ client.stage # "idle"
  /\ faults < MaxFaults
  /\ open' = FALSE
  /\ request' = NoRequest
  /\ out' = <<>>
  /\ \E n \in 0..Len(wire) : wire' = SubSeq(wire, 1, n)
  /\ faults' = faults + 1
  /\ UNCHANGED <<ring, skew, meant, age, client>>

-----------------------------------------------------------------------------
(* The secondary (external), after RFC 5936, RFC 1995 and RFC 8945.         *)

Client == [stage : {"idle", "reading", "done", "refused", "failed"},
           kind : {"none", "AXFR", "IXFR"}, key : Keys \cup {NoKey},
           got : Seq(Record)]

AtRest == [stage |-> "idle", kind |-> "none", key |-> NoKey, got |-> <<>>]

Ask ==
  /\ client.stage = "idle"
  /\ \E kind \in {"AXFR", "IXFR"}, key \in Keys \cup {NoKey} :
       /\ request' = [kind |-> kind, key |-> key, age |-> 0]
       /\ client' = [AtRest EXCEPT !.stage = "reading", !.kind = kind,
                                   !.key = key]
  /\ UNCHANGED <<ring, skew, meant, out, wire, age, open, faults>>

Soas(got) == {i \in DOMAIN got : got[i].type = "soa"}

\* Deletions and additions take turns, each after a SOA; the stream is over
\* where deletions would begin from the version that was announced first.
IncrementsOver(got) ==
  /\ Last(got) = got[1]
  /\ Cardinality(Soas(got)) >= 4 /\ Cardinality(Soas(got)) % 2 = 0

\* Whether the records got so far are a whole answer.
Over(kind, got) ==
  \/ kind = "IXFR" /\ got[1] = Soa(0)
  \/ /\ Len(got) >= 2
     /\ IF kind = "IXFR" /\ got[2] = Soa(0) THEN IncrementsOver(got)
                                            ELSE Last(got).type = "soa"

\* A signed request wants an answer signed by the same key, just now.
Accepts(m) ==
  client.key = NoKey \/ (m.key = client.key /\ InWindow(age + skew))

Read ==
  /\ client.stage = "reading"
  /\ wire # <<>>
  /\ LET m == Head(wire)
         all == client.got \o m.rrs
         Ends == {k \in (Len(client.got) + 1)..Len(all) :
                    Over(client.kind, SubSeq(all, 1, k))}
     IN  client' =
           IF m.refused THEN [client EXCEPT !.stage = "refused"]
           ELSE IF ~Accepts(m) THEN [client EXCEPT !.stage = "failed"]
           ELSE IF Ends = {} THEN [client EXCEPT !.got = all]
           ELSE [client EXCEPT !.stage = "done",
                               !.got = SubSeq(all, 1, CHOOSE k \in Ends :
                                                \A j \in Ends : k <= j)]
  /\ wire' = Tail(wire)
  /\ UNCHANGED <<ring, skew, request, meant, out, age, open, faults>>

Silent == request = NoRequest /\ out = <<>> /\ wire = <<>>

\* The secondary is through with the answer, or nothing more will come.  It
\* goes on with the connection only if all went well.
Close ==
  /\ \/ client.stage \in {"done", "refused", "failed"}
     \/ client.stage = "reading" /\ Silent
  /\ client' = AtRest
  /\ open' = TRUE
  /\ meant' = <<>>
  /\ age' = 0
  /\ IF open /\ client.stage \in {"done", "refused"}
     THEN UNCHANGED <<out, wire>>
     ELSE out' = <<>> /\ wire' = <<>>
  /\ UNCHANGED <<ring, skew, request, faults>>

-----------------------------------------------------------------------------
Init ==
  /\ ring \in SUBSET Keys
  /\ skew \in (0 - MaxSkew)..MaxSkew
  /\ request = NoRequest
  /\ meant = <<>>
  /\ out = <<>>
  /\ wire = <<>>
  /\ age = 0
  /\ open = TRUE
  /\ client = AtRest
  /\ faults = 0

\* Time passes; an answer counts as on its way until its last message is read.
Tick ==
  /\ \/ /\ request # NoRequest
        /\ request.age < Transit
        /\ request' = [request EXCEPT !.age = @ + 1]
        /\ UNCHANGED age
     \/ /\ out # <<>> \/ wire # <<>>
        /\ age < Transit
        /\ age' = age + 1
        /\ UNCHANGED request
  /\ UNCHANGED <<ring, skew, meant, out, wire, open, client, faults>>

Next == Ask \/ Serve \/ Write \/ Cut \/ Read \/ Close \/ Tick

Spec == Init /\ [][Next]_vars

-----------------------------------------------------------------------------
(* Properties.                                                              *)

\* Every message holds at most MaxRRs records and is never empty but when it
\* refuses; the other variables have their types.
TypeOK ==
  /\ ring \subseteq Keys
  /\ skew \in (0 - MaxSkew)..MaxSkew
  /\ request \in Request \cup {NoRequest}
  /\ {out, wire} \subseteq Seq(Message)
  /\ \A m \in Range(out) \cup Range(wire) :
       Len(m.rrs) <= MaxRRs /\ (m.rrs = <<>> <=> m.refused)
  /\ meant \in Seq(Record)
  /\ age \in 0..Transit
  /\ open \in BOOLEAN
  /\ client \in Client
  /\ faults \in 0..MaxFaults

\* A secondary that takes a stream for complete has all of its records, in
\* order, and no message of it is left to confuse the next one, wherever the
\* records fall on the boundaries of messages and the connection is lost.
CompleteIsWhole ==
  client.stage = "done" => client.got = meant /\ out = <<>> /\ wire = <<>>

\* A secondary is never left waiting for the end of a stream that the server
\* has sent completely; only a zone without a SOA is answered by silence.
EndIsSeen ==
  client.stage = "reading" /\ open /\ Silent => meant = <<>>

\* Who signs with the transfer key gets the transfer: neither the request nor
\* any message of the answer is taken for too old or too new, as long as the
\* difference of the clocks and the time on the way add up to no more than
\* the window, in either direction.
SignaturesHold ==
  client.key = TransferKey /\ TransferKey \in ring /\ MaxSkew + Transit <= Fudge
    => client.stage \notin {"refused", "failed"}

\* What a request of each kind may be answered with.
Replies ==
  [kind \in {"AXFR", "IXFR"} |->
     {Whole(1, size) : size \in Sizes}
       \cup IF kind = "IXFR"
            THEN {<<Soa(0)>>} \cup {Incremental(deltas) : deltas \in Deltas}
            ELSE {}]

D == INSTANCE Delivery WITH
       kind   <- client.kind,
       answer <- meant,
       lost   <- ~open \/ client.stage = "failed",
       taken  <- IF client.stage = "done" THEN client.got ELSE <<>>

\* Messages, signatures and lost connections make up one transfer that is all
\* or nothing: handle_tcp gives a request one answer, which the secondary takes
\* as it is, and a secondary that gives up after all was sent and nothing lost
\* has been given nothing.  It is what ZoneReload takes a transfer for.
DeliverySpec == D!Spec
=============================================================================
