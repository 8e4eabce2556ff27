------------------------ MODULE EvidencePlaneProofs ------------------------
(***************************************************************************)
(* Proofs about EvidencePlane, for every set of payloads and keys and      *)
(* every bound.                                                            *)
(***************************************************************************)
EXTENDS EvidencePlane, SequenceTheorems, WellFoundedInduction, TLAPS

-----------------------------------------------------------------------------
(* The inductive invariant.                                                *)

\* A sequence, of whatever its elements are.
IsSeq(s) == s \in Seq({s[i] : i \in DOMAIN s})

Shapes == IsSeq(events) /\ IsSeq(pending_sink) /\ IsSeq(sink)

Numbered == epoch_id \in Nat \ {0} /\ next_sequence = Len(events) + 1

\* The head is the hash the next event has to name.
HashBefore(i) ==
  IF i = 1 THEN FirstParent(epoch_id, epoch_parent_hash, signer) ELSE events[i - 1].hash

HeadIsLast == head_hash = HashBefore(Len(events) + 1)

Chained ==
  \A i \in 1..Len(events) :
    /\ events[i].epoch = epoch_id /\ events[i].parent = epoch_parent_hash
    /\ events[i].signer = signer /\ events[i].sequence = i
    /\ events[i].previous = HashBefore(i)
    /\ Authentic(events[i])

\* The events the sink answered for; there are none without a sink.
Confirmed == IF has_sink THEN Len(events) - Len(pending_sink) ELSE 0

\* An event waits only for a sink there is.
QueueHasSink == has_sink \in BOOLEAN /\ (has_sink \/ pending_sink = <<>>)

QueueIsTail ==
  /\ Len(pending_sink) <= Len(events)
  /\ \A i \in 1..Len(pending_sink) : pending_sink[i] = events[Confirmed + i]

InSink(e) == \E k \in 1..Len(sink) : sink[k] = e

ConfirmedStored == \A i \in 1..Confirmed : InSink(events[i])

\* A receipt is of an event there was, and there is one for each.
ReceiptsPast ==
  \A r \in receipts :
    /\ r.epoch \in Nat /\ r.sequence \in Nat
    /\ r.epoch <= epoch_id /\ (r.epoch = epoch_id => r.sequence < next_sequence)
    /\ r.delivered => \E k \in 1..Len(sink) : sink[k].hash = r.hash

ReceiptsDistinct ==
  \A r, q \in receipts : r.epoch = q.epoch /\ r.sequence = q.sequence => r = q

IInv ==
  /\ Shapes /\ Numbered /\ HeadIsLast /\ Chained
  /\ QueueIsTail /\ QueueHasSink /\ ConfirmedStored
  /\ ReceiptsPast /\ ReceiptsDistinct

-----------------------------------------------------------------------------
(* Sequences.                                                              *)

\* What the provers need to know of a sequence.
LEMMA SeqShape ==
  ASSUME NEW s, IsSeq(s)
  PROVE  Len(s) \in Nat /\ DOMAIN s = 1..Len(s)
  BY DEF IsSeq

\* A sequence over some set is one.
LEMMA MembersMakeSeq ==
  ASSUME NEW S, NEW s \in Seq(S)
  PROVE  IsSeq(s)
<1> DEFINE R == {s[i] : i \in DOMAIN s}
<1>1. Len(s) \in Nat /\ DOMAIN s = 1..Len(s) /\ s \in [1..Len(s) -> S]
  BY LenProperties
<1>2. s \in [1..Len(s) -> R]
  BY <1>1
<1>3. s \in Seq(R)
  BY <1>1, <1>2, SeqDef
<1> QED
  BY <1>3 DEF IsSeq

\* The empty sequence.
LEMMA EmptyIsSeq == IsSeq(<<>>) /\ Len(<<>>) = 0
  BY EmptySeq, MembersMakeSeq

\* Appending anything adds one position at the end.
LEMMA AppendShape ==
  ASSUME NEW s, IsSeq(s), NEW e
  PROVE  /\ IsSeq(Append(s, e))
         /\ Len(Append(s, e)) = Len(s) + 1
         /\ \A i \in 1..Len(s) : Append(s, e)[i] = s[i]
         /\ Append(s, e)[Len(s) + 1] = e
<1> DEFINE S == {s[i] : i \in DOMAIN s} \cup {e}
<1>1. s \in Seq(S) /\ e \in S
  BY SeqMonotonic DEF IsSeq
<1>2. Append(s, e) \in Seq(S)
  BY <1>1
<1>3. IsSeq(Append(s, e))
  BY <1>2, MembersMakeSeq
<1> HIDE DEF S
<1> QED
  BY <1>1, <1>3

\* The concatenation of two.
LEMMA ConcatShape ==
  ASSUME NEW s, IsSeq(s), NEW t, IsSeq(t)
  PROVE  /\ IsSeq(s \o t)
         /\ Len(s \o t) = Len(s) + Len(t)
         /\ \A i \in 1..Len(s) : (s \o t)[i] = s[i]
         /\ \A i \in 1..Len(t) : (s \o t)[Len(s) + i] = t[i]
<1> DEFINE S == {s[i] : i \in DOMAIN s} \cup {t[i] : i \in DOMAIN t}
<1>1. s \in Seq(S) /\ t \in Seq(S)
  BY SeqMonotonic DEF IsSeq
<1> HIDE DEF S
<1>2. s \o t \in Seq(S) /\ Len(s \o t) = Len(s) + Len(t)
      /\ \A i \in 1..(Len(s) + Len(t)) :
           (s \o t)[i] = IF i <= Len(s) THEN s[i] ELSE t[i - Len(s)]
  BY <1>1, ConcatProperties
<1>3. IsSeq(s \o t)
  BY <1>2, MembersMakeSeq
<1>4. Len(s) \in Nat /\ Len(t) \in Nat
  BY SeqShape
<1> QED
  BY <1>2, <1>3, <1>4

\* A part of a sequence.
LEMMA SubSeqShape ==
  ASSUME NEW s, IsSeq(s), NEW m \in 1..(Len(s) + 1), NEW n \in (m - 1)..Len(s)
  PROVE  /\ IsSeq(SubSeq(s, m, n))
         /\ Len(SubSeq(s, m, n)) = n - m + 1
         /\ \A i \in 1..(n - m + 1) : SubSeq(s, m, n)[i] = s[m + i - 1]
<1> DEFINE S == {s[i] : i \in DOMAIN s}
<1>1. Len(s) \in Nat /\ DOMAIN s = 1..Len(s)
  BY SeqShape
<1>2. \A i \in m..n : s[i] \in S
  BY <1>1
<1>3. m \in Int /\ n \in Int
  BY <1>1
<1> HIDE DEF S
<1>4. SubSeq(s, m, n) \in Seq(S)
      /\ Len(SubSeq(s, m, n)) = (IF m <= n THEN n - m + 1 ELSE 0)
      /\ \A i \in 1..(n - m + 1) : SubSeq(s, m, n)[i] = s[m + i - 1]
  BY <1>2, <1>3, SubSeqProperties
<1>5. IsSeq(SubSeq(s, m, n))
  BY <1>4, MembersMakeSeq
<1> QED
  BY <1>1, <1>3, <1>4, <1>5

-----------------------------------------------------------------------------
(* A new event.                                                            *)

\* append fills in an event that names the head and verifies.
LEMMA NewEventShape ==
  ASSUME NEW p
  PROVE  /\ NewEvent(p).epoch = epoch_id /\ NewEvent(p).parent = epoch_parent_hash
         /\ NewEvent(p).signer = signer /\ NewEvent(p).sequence = next_sequence
         /\ NewEvent(p).previous = head_hash
         /\ Authentic(NewEvent(p))
  BY DEF NewEvent, PreviousHash, Authentic, EventHash, Sign

\* What holds at the start of an epoch does.
LEMMA InitIInv == Init => IInv
<1> SUFFICES ASSUME Init PROVE IInv
  OBVIOUS
<1> USE EmptyIsSeq
<1>1. events = <<>> /\ pending_sink = <<>> /\ sink = <<>> /\ receipts = {}
  BY DEF Init
<1>2. Shapes /\ Chained /\ QueueIsTail /\ QueueHasSink /\ ConfirmedStored
  BY <1>1 DEF Init, Shapes, Chained, QueueIsTail, QueueHasSink, ConfirmedStored, Confirmed
<1>3. Numbered /\ HeadIsLast
  BY <1>1 DEF Init, Numbered, HeadIsLast, HashBefore, FirstParent
<1>4. ReceiptsPast /\ ReceiptsDistinct
  BY <1>1 DEF ReceiptsPast, ReceiptsDistinct
<1> QED
  BY <1>2, <1>3, <1>4 DEF IInv

-----------------------------------------------------------------------------
(* append                                                                  *)

\* The chain grows by one event, the one that names the head.
LEMMA AppendChain ==
  ASSUME IInv, NEW p \in Payloads, AppendEvent(p)
  PROVE  IsSeq(events') /\ Numbered' /\ HeadIsLast' /\ Chained'
<1> DEFINE e == NewEvent(p)
<1> DEFINE n == Len(events)
<1>1. events' = Append(events, e) /\ head_hash' = e.hash
      /\ next_sequence' = next_sequence + 1
      /\ UNCHANGED <<epoch_id, epoch_parent_hash, signer>>
  BY DEF AppendEvent, Advanced
<1>2. /\ IsSeq(events') /\ Len(events') = n + 1 /\ events'[n + 1] = e
      /\ \A i \in 1..n : events'[i] = events[i]
  BY <1>1, AppendShape DEF IInv, Shapes
<1>3. n \in Nat /\ next_sequence = n + 1
  BY SeqShape DEF IInv, Shapes, Numbered
<1>4. /\ e.epoch = epoch_id /\ e.parent = epoch_parent_hash /\ e.signer = signer
      /\ e.sequence = next_sequence /\ e.previous = head_hash /\ Authentic(e)
  BY NewEventShape
<1>5. \A i \in 1..(n + 1) : HashBefore(i)' = HashBefore(i)
  <2> SUFFICES ASSUME NEW i \in 1..(n + 1) PROVE HashBefore(i)' = HashBefore(i)
    OBVIOUS
  <2>1. CASE i = 1
    BY <2>1, <1>1 DEF HashBefore
  <2>2. CASE i # 1
    <3>1. i - 1 \in 1..n
      BY <2>2, <1>3
    <3> QED
      BY <2>2, <3>1, <1>2 DEF HashBefore
  <2> QED
    BY <2>1, <2>2
<1> HIDE DEF e, n
<1>6. Numbered'
  BY <1>1, <1>2, <1>3 DEF IInv, Numbered, n
<1>7. HeadIsLast'
  <2>1. (Len(events) + 1)' = n + 2 /\ n + 2 # 1 /\ (n + 2) - 1 = n + 1
    BY <1>2, <1>3
  <2>2. head_hash' = events'[n + 1].hash
    BY <1>1, <1>2
  <2> QED
    BY <2>1, <2>2 DEF HeadIsLast, HashBefore
<1>8. Chained'
  <2> SUFFICES ASSUME NEW i \in 1..(n + 1)
               PROVE  /\ events'[i].epoch = epoch_id' /\ events'[i].parent = epoch_parent_hash'
                      /\ events'[i].signer = signer' /\ events'[i].sequence = i
                      /\ events'[i].previous = HashBefore(i)' /\ Authentic(events'[i])
    BY <1>2 DEF Chained, Authentic
  <2>1. CASE i \in 1..n
    BY <2>1, <1>1, <1>2, <1>5 DEF IInv, Chained, n
  <2>2. CASE i = n + 1
    BY <2>2, <1>1, <1>2, <1>3, <1>4, <1>5 DEF IInv, HeadIsLast, n
  <2> QED
    BY <2>1, <2>2, <1>3
<1> QED
  BY <1>2, <1>6, <1>7, <1>8

\* What is in the sink is not taken out, and appending puts in what is appended.
LEMMA SinkGrows ==
  ASSUME IsSeq(sink), NEW e, NEW outcome, sink' = Stored(sink, e, outcome)
  PROVE  /\ IsSeq(sink')
         /\ \A k \in 1..Len(sink) : k \in 1..Len(sink') /\ sink'[k] = sink[k]
         /\ outcome # "failed" => \E k \in 1..Len(sink') : sink'[k] = e
<1>1. Len(sink) \in Nat
  BY SeqShape
<1>2. CASE outcome = "failed"
  BY <1>2 DEF Stored
<1>3. CASE outcome # "failed"
  BY <1>1, <1>3, AppendShape DEF Stored
<1> QED
  BY <1>2, <1>3

\* The event is delivered, or joins the queue.
LEMMA AppendQueue ==
  ASSUME IInv, NEW p \in Payloads, AppendEvent(p)
  PROVE  /\ IsSeq(pending_sink') /\ IsSeq(sink')
         /\ QueueIsTail' /\ QueueHasSink' /\ ConfirmedStored'
         /\ \A k \in 1..Len(sink) : k \in 1..Len(sink') /\ sink'[k] = sink[k]
<1> DEFINE e == NewEvent(p)
<1> DEFINE n == Len(events)
<1> DEFINE q == Len(pending_sink)
<1>1. PICK outcome \in WriteOutcomes :
        LET delivered == SinkIsTried /\ outcome = "ok" IN
        /\ sink' = IF SinkIsTried THEN Stored(sink, e, outcome) ELSE sink
        /\ pending_sink' = IF has_sink /\ ~delivered THEN Append(pending_sink, e) ELSE pending_sink
  BY DEF AppendEvent
<1>2. IsSeq(events) /\ IsSeq(sink) /\ IsSeq(pending_sink) /\ n \in Nat /\ q \in Nat
      /\ Len(sink) \in Nat
  BY SeqShape DEF IInv, Shapes
<1>0. has_sink' = has_sink
  BY DEF AppendEvent
<1>3. /\ Len(events') = n + 1 /\ events'[n + 1] = e
      /\ \A i \in 1..n : events'[i] = events[i]
  BY <1>2, AppendShape DEF AppendEvent
<1>4. /\ IsSeq(sink')
      /\ \A k \in 1..Len(sink) : k \in 1..Len(sink') /\ sink'[k] = sink[k]
      /\ SinkIsTried /\ outcome = "ok" => \E k \in 1..Len(sink') : sink'[k] = e
  <2>1. CASE SinkIsTried
    BY <2>1, <1>1, <1>2, SinkGrows
  <2>2. CASE ~SinkIsTried
    BY <2>2, <1>1, <1>2
  <2> QED
    BY <2>1, <2>2
<1> HIDE DEF e, n, q
<1>5. CASE SinkIsTried /\ outcome = "ok"
  <2>1. has_sink /\ pending_sink = <<>> /\ pending_sink' = <<>> /\ q = 0
    BY <1>1, <1>5, EmptyIsSeq DEF SinkIsTried, q
  <2>2. IsSeq(pending_sink') /\ QueueIsTail' /\ QueueHasSink'
    BY <1>0, <2>1, <1>2, <1>3, EmptyIsSeq DEF IInv, QueueIsTail, QueueHasSink
  <2>3. ConfirmedStored'
    <3> SUFFICES ASSUME NEW i \in 1..(n + 1) PROVE \E k \in 1..Len(sink') : sink'[k] = events'[i]
      BY <2>1, <1>0, <1>2, <1>3, EmptyIsSeq DEF ConfirmedStored, Confirmed, InSink
    <3>1. CASE i \in 1..n
      <4>1. PICK k \in 1..Len(sink) : sink[k] = events[i]
        BY <3>1, <2>1, <1>2 DEF IInv, ConfirmedStored, Confirmed, InSink, n, q
      <4> QED
        BY <4>1, <3>1, <1>3, <1>4
    <3>2. CASE i = n + 1
      BY <3>2, <1>3, <1>4, <1>5
    <3> QED
      BY <3>1, <3>2, <1>2
  <2> QED
    BY <2>2, <2>3, <1>4
<1>6. CASE has_sink /\ ~(SinkIsTried /\ outcome = "ok")
  <2>1. pending_sink' = Append(pending_sink, e)
    BY <1>1, <1>6
  <2>2. /\ IsSeq(pending_sink') /\ Len(pending_sink') = q + 1 /\ pending_sink'[q + 1] = e
        /\ \A i \in 1..q : pending_sink'[i] = pending_sink[i]
    BY <2>1, <1>2, AppendShape DEF q
  <2>3. q <= n /\ \A i \in 1..q : pending_sink[i] = events[n - q + i]
    BY <1>6 DEF IInv, QueueIsTail, Confirmed, n, q
  <2>4. Confirmed' = n - q /\ Confirmed = n - q
    BY <1>0, <1>6, <2>2, <1>2, <1>3 DEF Confirmed, n, q
  <2>5. QueueIsTail'
    <3> SUFFICES ASSUME NEW i \in 1..(q + 1) PROVE pending_sink'[i] = events'[n - q + i]
      BY <2>2, <2>3, <2>4, <1>2, <1>3 DEF QueueIsTail
    <3>1. CASE i \in 1..q
      <4>1. n - q + i \in 1..n
        BY <3>1, <2>3, <1>2
      <4> QED
        BY <4>1, <3>1, <2>2, <2>3, <1>3
    <3>2. CASE i = q + 1
      BY <3>2, <2>2, <1>2, <1>3
    <3> QED
      BY <3>1, <3>2, <1>2
  <2>6. ConfirmedStored'
    <3> SUFFICES ASSUME NEW i \in 1..(n - q) PROVE \E k \in 1..Len(sink') : sink'[k] = events'[i]
      BY <2>4 DEF ConfirmedStored, InSink
    <3>1. PICK k \in 1..Len(sink) : sink[k] = events[i]
      BY <2>4 DEF IInv, ConfirmedStored, InSink
    <3>2. events'[i] = events[i]
      BY <1>2, <1>3, <2>3
    <3> QED
      BY <3>1, <3>2, <1>4
  <2> QED
    BY <1>0, <1>6, <2>2, <2>5, <2>6, <1>4 DEF IInv, QueueHasSink
<1>7. CASE ~has_sink
  <2>1. pending_sink' = <<>> /\ Confirmed' = 0
    BY <1>0, <1>1, <1>7 DEF IInv, QueueHasSink, Confirmed
  <2>2. IsSeq(pending_sink') /\ QueueIsTail' /\ QueueHasSink' /\ ConfirmedStored'
    BY <1>0, <2>1, <1>2, <1>3, EmptyIsSeq DEF IInv, QueueIsTail, QueueHasSink, ConfirmedStored
  <2> QED
    BY <2>2, <1>4
<1> QED
  BY <1>5, <1>6, <1>7

\* The receipt is the first of its place in the chain, and Delivered only when
\* the event is in the sink.
LEMMA AppendReceipts ==
  ASSUME IInv, NEW p \in Payloads, AppendEvent(p)
  PROVE  ReceiptsPast' /\ ReceiptsDistinct'
<1> DEFINE e == NewEvent(p)
<1>1. PICK outcome \in WriteOutcomes :
        LET delivered == SinkIsTried /\ outcome = "ok" IN
        /\ sink' = IF SinkIsTried THEN Stored(sink, e, outcome) ELSE sink
        /\ receipts' = receipts \cup
             {[epoch |-> epoch_id, sequence |-> e.sequence, hash |-> e.hash,
               delivered |-> delivered]}
  BY DEF AppendEvent
<1> DEFINE new == [epoch |-> epoch_id, sequence |-> e.sequence, hash |-> e.hash,
                   delivered |-> SinkIsTried /\ outcome = "ok"]
<1>2. e.sequence = next_sequence
  BY NewEventShape
<1>3. /\ receipts' = receipts \cup {new}
      /\ new.epoch = epoch_id /\ new.sequence = next_sequence /\ new.hash = e.hash
      /\ new.delivered => SinkIsTried /\ outcome = "ok"
  BY <1>1, <1>2
<1>4. new.delivered => \E k \in 1..Len(sink') : sink'[k] = e
  BY <1>1, <1>3, SinkGrows DEF IInv, Shapes
<1>5. /\ epoch_id' = epoch_id /\ next_sequence' = next_sequence + 1
      /\ epoch_id \in Nat /\ next_sequence \in Nat
  BY SeqShape DEF AppendEvent, Advanced, IInv, Shapes, Numbered
<1>6. \A k \in 1..Len(sink) : k \in 1..Len(sink') /\ sink'[k] = sink[k]
  BY AppendQueue
<1> HIDE DEF e, new
<1>7. ReceiptsPast'
  <2> SUFFICES ASSUME NEW r \in receipts'
               PROVE  /\ r.epoch \in Nat /\ r.sequence \in Nat
                      /\ r.epoch <= epoch_id'
                      /\ r.epoch = epoch_id' => r.sequence < next_sequence'
                      /\ r.delivered => \E k \in 1..Len(sink') : sink'[k].hash = r.hash
    BY DEF ReceiptsPast
  <2>1. CASE r \in receipts
    BY <2>1, <1>5, <1>6 DEF IInv, ReceiptsPast
  <2>2. CASE r = new
    BY <2>2, <1>3, <1>4, <1>5
  <2> QED
    BY <2>1, <2>2, <1>3
<1>8. ReceiptsDistinct'
  <2>1. \A r \in receipts : r.epoch # new.epoch \/ r.sequence # new.sequence
    BY <1>3, <1>5 DEF IInv, ReceiptsPast
  <2> QED
    BY <2>1, <1>3 DEF IInv, ReceiptsDistinct
<1> QED
  BY <1>7, <1>8

\* append, with the sink tried or not and whatever it answers, keeps the invariant.
LEMMA AppendIInv ==
  ASSUME IInv, NEW p \in Payloads, AppendEvent(p)
  PROVE  IInv'
  BY AppendChain, AppendQueue, AppendReceipts DEF IInv, Shapes

-----------------------------------------------------------------------------
(* flush_pending                                                           *)

\* The events written become confirmed ones; those that stay queued stay the
\* tail. The event whose write failed may be in the sink, and is retried.
LEMMA FlushIInv ==
  ASSUME IInv, FlushPending
  PROVE  IInv'
<1> DEFINE q == Len(pending_sink)
<1>1. PICK n \in 0..q, last \in WriteOutcomes :
        LET written == sink \o SubSeq(pending_sink, 1, n) IN
        /\ (last = "ok") <=> (n = q)
        /\ sink' = IF last = "ok" THEN written ELSE Stored(written, pending_sink[n + 1], last)
        /\ pending_sink' = Unwritten(n)
  BY DEF FlushPending
<1> DEFINE first == SubSeq(pending_sink, 1, n)
<1> DEFINE written == sink \o first
<1>2. IsSeq(events) /\ IsSeq(sink) /\ IsSeq(pending_sink) /\ q \in Nat
      /\ Len(sink) \in Nat /\ Len(events) \in Nat
  BY SeqShape DEF IInv, Shapes
<1>3. has_sink /\ UNCHANGED <<epoch_id, epoch_parent_hash, head_hash, next_sequence, events,
                             signer, has_sink, receipts>>
  BY DEF FlushPending
<1>4. /\ IsSeq(first) /\ Len(first) = n
      /\ \A i \in 1..n : first[i] = pending_sink[i]
  BY <1>2, SubSeqShape
<1>5. /\ IsSeq(pending_sink') /\ Len(pending_sink') = q - n
      /\ \A i \in 1..(q - n) : pending_sink'[i] = pending_sink[n + i]
  <2>1. n + 1 \in 1..(Len(pending_sink) + 1) /\ q \in ((n + 1) - 1)..Len(pending_sink)
    BY <1>2
  <2>2. pending_sink' = SubSeq(pending_sink, n + 1, q)
    BY <1>1 DEF Unwritten
  <2> HIDE DEF q
  <2> QED
    BY <1>2, <2>1, <2>2, SubSeqShape
<1>6. /\ IsSeq(written) /\ Len(written) = Len(sink) + n
      /\ \A k \in 1..Len(sink) : written[k] = sink[k]
      /\ \A i \in 1..n : written[Len(sink) + i] = pending_sink[i]
  <2> HIDE DEF first, written, q
  <2>1. IsSeq(sink) /\ IsSeq(first)
    BY <1>2, <1>4
  <2>2. /\ IsSeq(sink \o first) /\ Len(sink \o first) = Len(sink) + Len(first)
        /\ \A k \in 1..Len(sink) : (sink \o first)[k] = sink[k]
        /\ \A i \in 1..Len(first) : (sink \o first)[Len(sink) + i] = first[i]
    BY <2>1, ConcatShape
  <2> QED
    BY <2>2, <1>4 DEF written
<1>7. IsSeq(sink') /\ \A k \in 1..Len(written) : k \in 1..Len(sink') /\ sink'[k] = written[k]
  <2>1. CASE last = "ok"
    BY <2>1, <1>1, <1>2, <1>6
  <2>2. CASE last # "ok"
    <3> HIDE DEF written
    <3>1. sink' = Stored(written, pending_sink[n + 1], last)
      BY <2>2, <1>1 DEF written
    <3>2. CASE last = "failed"
      BY <3>1, <3>2, <1>6, <1>2 DEF Stored
    <3>3. CASE last # "failed"
      BY <3>1, <3>3, <1>6, <1>2, AppendShape DEF Stored
    <3> QED
      BY <3>2, <3>3
  <2> QED
    BY <2>1, <2>2
<1> HIDE DEF first, written, q
<1>8. /\ \A k \in 1..Len(sink) : k \in 1..Len(sink') /\ sink'[k] = sink[k]
      /\ \A i \in 1..n : \E k \in 1..Len(sink') : sink'[k] = pending_sink[i]
  <2>1. \A k \in 1..Len(sink) : k \in 1..Len(written)
    BY <1>2, <1>6
  <2>2. \A i \in 1..n : Len(sink) + i \in 1..Len(written)
    BY <1>2, <1>6
  <2> QED
    BY <2>1, <2>2, <1>6, <1>7
<1>9. Confirmed = Len(events) - q /\ Confirmed' = Confirmed + n /\ q <= Len(events)
  BY <1>2, <1>3, <1>5 DEF Confirmed, IInv, QueueIsTail, q
<1>10. QueueIsTail'
  <2> SUFFICES ASSUME NEW i \in 1..(q - n) PROVE pending_sink'[i] = events[Confirmed + n + i]
    BY <1>2, <1>3, <1>5, <1>9 DEF QueueIsTail
  <2>1. n + i \in 1..q /\ Confirmed + (n + i) = Confirmed + n + i
    BY <1>2, <1>9
  <2> QED
    BY <2>1, <1>5 DEF IInv, QueueIsTail, q
<1>11. ConfirmedStored'
  <2> SUFFICES ASSUME NEW i \in 1..(Confirmed + n)
               PROVE  \E k \in 1..Len(sink') : sink'[k] = events[i]
    BY <1>3, <1>9 DEF ConfirmedStored, InSink
  <2>1. CASE i \in 1..Confirmed
    BY <2>1, <1>8 DEF IInv, ConfirmedStored, InSink
  <2>2. CASE i \notin 1..Confirmed
    <3>1. i - Confirmed \in 1..n /\ i - Confirmed \in 1..q /\ Confirmed + (i - Confirmed) = i
      BY <2>2, <1>2, <1>9
    <3>2. pending_sink[i - Confirmed] = events[i]
      BY <3>1 DEF IInv, QueueIsTail, q
    <3> QED
      BY <3>1, <3>2, <1>8
  <2> QED
    BY <2>1, <2>2
<1>12. Numbered' /\ HeadIsLast' /\ Chained'
  BY <1>3 DEF IInv, Numbered, HeadIsLast, Chained, HashBefore
<1>13. ReceiptsPast' /\ ReceiptsDistinct'
  BY <1>3, <1>8 DEF IInv, ReceiptsPast, ReceiptsDistinct
<1> QED
  BY <1>2, <1>3, <1>5, <1>7, <1>10, <1>11, <1>12, <1>13 DEF IInv, Shapes, QueueHasSink

-----------------------------------------------------------------------------
(* The other steps.                                                        *)

\* A new process starts on an empty epoch: what it knows is what new sets, and
\* the receipts that were answered are of earlier epochs.
LEMMA StartIInv ==
  ASSUME IInv, NEW key, NEW parent, Start(key, parent)
  PROVE  IInv'
<1>1. /\ events' = <<>> /\ pending_sink' = <<>> /\ next_sequence' = 1
      /\ epoch_id' = epoch_id + 1 /\ epoch_parent_hash' = parent /\ signer' = key
      /\ head_hash' = FirstParent(epoch_id + 1, parent, key)
      /\ has_sink' \in BOOLEAN /\ UNCHANGED <<sink, receipts>>
  BY DEF Start
<1>2. Shapes' /\ Chained' /\ QueueIsTail' /\ QueueHasSink' /\ ConfirmedStored'
  BY <1>1, EmptyIsSeq
  DEF IInv, Shapes, IsSeq, Chained, QueueIsTail, QueueHasSink, ConfirmedStored, Confirmed
<1>3. Numbered' /\ HeadIsLast'
  BY <1>1, EmptyIsSeq DEF IInv, Numbered, HeadIsLast, HashBefore
<1>4. ReceiptsPast' /\ ReceiptsDistinct'
  BY <1>1 DEF IInv, Numbered, ReceiptsPast, ReceiptsDistinct
<1> QED
  BY <1>2, <1>3, <1>4 DEF IInv

\* A step that leaves the plane, the sink and the receipts alone.
LEMMA UnchangedIInv ==
  ASSUME IInv, UNCHANGED <<plane, sink, receipts>>
  PROVE  IInv'
<1>1. Confirmed' = Confirmed /\ Shapes' /\ Numbered' /\ HeadIsLast' /\ Chained'
  BY DEF IInv, plane, Confirmed, Shapes, IsSeq, Numbered, HeadIsLast, HashBefore, Chained
<1>2. QueueIsTail' /\ QueueHasSink' /\ ConfirmedStored'
  BY <1>1 DEF IInv, plane, QueueIsTail, QueueHasSink, ConfirmedStored, InSink
<1>3. ReceiptsPast' /\ ReceiptsDistinct'
  BY DEF IInv, plane, ReceiptsPast, ReceiptsDistinct
<1> QED
  BY <1>1, <1>2, <1>3 DEF IInv

\* Every step of the plane, of the sink and of a restart keeps the invariant.
LEMMA NextIInv == IInv /\ [Next]_vars => IInv'
<1> SUFFICES ASSUME IInv, [Next]_vars PROVE IInv'
  OBVIOUS
<1>1. CASE \E p \in Payloads : AppendEvent(p)
  BY <1>1, AppendIInv
<1>2. CASE FlushPending
  BY <1>2, FlushIInv
<1>3. CASE Checkpoint
  BY <1>3, UnchangedIInv DEF Checkpoint
<1>4. CASE \E k \in Keys : RestartNew(k)
  BY <1>4, StartIInv DEF RestartNew
<1>5. CASE \E k \in Keys, c \in checkpoints : RestartFromCheckpoint(k, c)
  BY <1>5, StartIInv DEF RestartFromCheckpoint
<1>6. CASE UNCHANGED vars
  BY <1>6, UnchangedIInv DEF vars
<1> QED
  BY <1>1, <1>2, <1>3, <1>4, <1>5, <1>6 DEF Next

\* The invariant holds of every reachable state.
THEOREM Invariance == Spec => []IInv
<1> QED
  BY InitIInv, NextIInv, PTL DEF Spec

-----------------------------------------------------------------------------
(* What follows from it.                                                   *)

\* Every snapshot of every plane verifies, and its head and next sequence number
\* are those of its last event, whatever append, flush_pending and the restarts
\* did before.
THEOREM SnapshotCorrect == Spec => []SnapshotVerifies
<1>1. ASSUME IInv PROVE SnapshotVerifies
  <2>1. Len(events) \in Nat /\ DOMAIN events = 1..Len(events)
    BY <1>1, SeqShape DEF IInv, Shapes
  <2>2. VerifySnapshot(events)
    <3> SUFFICES ASSUME NEW i \in 1..Len(events)
                 PROVE  /\ events[i].epoch = events[1].epoch
                        /\ events[i].parent = events[1].parent
                        /\ events[i].signer = events[1].signer
                        /\ events[i].sequence = i /\ Follows(events, i)
                        /\ Authentic(events[i])
      BY <2>1 DEF VerifySnapshot
    <3>1. 1 \in 1..Len(events)
      BY <2>1
    <3> QED
      BY <1>1, <3>1 DEF IInv, Chained, Follows, HashBefore
  <2>3. head_hash = IF events = <<>> THEN FirstParent(epoch_id, epoch_parent_hash, signer)
                    ELSE events[Len(events)].hash
    <3>1. CASE events = <<>>
      BY <1>1, <3>1, EmptyIsSeq DEF IInv, HeadIsLast, HashBefore
    <3>2. CASE events # <<>>
      <4>1. Len(events) # 0
        BY <1>1, <3>2, EmptySeq DEF IInv, Shapes, IsSeq
      <4> QED
        BY <1>1, <3>2, <4>1, <2>1 DEF IInv, HeadIsLast, HashBefore
    <3> QED
      BY <3>1, <3>2
  <2> QED
    BY <1>1, <2>2, <2>3 DEF SnapshotVerifies, IInv, Numbered
<1> QED
  BY <1>1, Invariance, PTL

\* A sink that fails, or confirms what it did not report, costs append and
\* flush_pending no event: what is not queued is stored.
THEOREM NothingLostCorrect == Spec => []NothingLost
<1>1. ASSUME IInv, has_sink PROVE NothingLost
  <2>1. /\ IsSeq(events) /\ IsSeq(pending_sink)
        /\ Len(events) \in Nat /\ Len(pending_sink) \in Nat /\ Len(sink) \in Nat
        /\ DOMAIN sink = 1..Len(sink) /\ DOMAIN pending_sink = 1..Len(pending_sink)
    BY <1>1, SeqShape DEF IInv, Shapes
  <2>2. Confirmed \in 0..Len(events) /\ Len(events) - Confirmed = Len(pending_sink)
    BY <1>1, <2>1 DEF IInv, QueueIsTail, Confirmed
  <2> DEFINE tail == SubSeq(events, Confirmed + 1, Len(events))
  <2>3. /\ IsSeq(tail) /\ Len(tail) = Len(pending_sink)
        /\ \A i \in 1..Len(pending_sink) : tail[i] = events[Confirmed + i]
    <3>1. /\ Confirmed + 1 \in 1..(Len(events) + 1)
          /\ Len(events) \in ((Confirmed + 1) - 1)..Len(events)
          /\ Len(events) - (Confirmed + 1) + 1 = Len(pending_sink)
      BY <2>1, <2>2
    <3>2. /\ IsSeq(tail) /\ Len(tail) = Len(events) - (Confirmed + 1) + 1
          /\ \A i \in 1..(Len(events) - (Confirmed + 1) + 1) :
               tail[i] = events[(Confirmed + 1) + i - 1]
      BY <2>1, <3>1, SubSeqShape
    <3>3. \A i \in 1..Len(pending_sink) : (Confirmed + 1) + i - 1 = Confirmed + i
      BY <2>2
    <3> QED
      BY <3>1, <3>2, <3>3
  <2> HIDE DEF tail
  <2>4. pending_sink = tail
    <3>1. \A i \in 1..Len(pending_sink) : pending_sink[i] = tail[i]
      BY <1>1, <2>3 DEF IInv, QueueIsTail
    <3>2. /\ DOMAIN tail = DOMAIN pending_sink
          /\ tail = [i \in DOMAIN tail |-> tail[i]]
          /\ pending_sink = [i \in DOMAIN pending_sink |-> pending_sink[i]]
      BY <2>1, <2>3, SeqShape DEF IsSeq
    <3> QED
      BY <3>1, <3>2, <2>1
  <2>5. \A i \in 1..Confirmed : \E k \in DOMAIN sink : sink[k] = events[i]
    BY <1>1, <2>1 DEF IInv, ConfirmedStored, InSink
  <2> QED
    BY <1>1, <2>2, <2>4, <2>5 DEF NothingLost, Confirmed, tail
<1>2. ASSUME IInv, ~has_sink PROVE NothingLost
  BY <1>2 DEF IInv, QueueHasSink, NothingLost
<1>3. IInv => NothingLost
  BY <1>1, <1>2
<1> QED
  BY <1>3, Invariance, PTL

\* append never answers Delivered for an event the sink does not have, and never
\* gives two events one place in the chain.
THEOREM ReceiptsCorrect == Spec => []ReceiptsTruthful
<1>1. ASSUME IInv PROVE ReceiptsTruthful
  <2>1. DOMAIN sink = 1..Len(sink)
    BY <1>1, SeqShape DEF IInv, Shapes
  <2> QED
    BY <1>1, <2>1 DEF IInv, ReceiptsPast, ReceiptsDistinct, ReceiptsTruthful
<1> QED
  BY <1>1, Invariance, PTL

-----------------------------------------------------------------------------
(* The epochs that are over, the checkpoints and the order of the sink.    *)

\* The fields of EvidenceEvent, and no others.
IsEvent(e) ==
  e = [epoch |-> e.epoch, parent |-> e.parent, sequence |-> e.sequence, payload |-> e.payload,
       previous |-> e.previous, signer |-> e.signer, hash |-> e.hash,
       signature |-> e.signature]

\* The events of an epoch, which verify together.
ChainOf(T, epoch) ==
  /\ IsSeq(T) /\ Len(T) <= MaxEvents
  /\ \A i \in 1..Len(T) :
       /\ IsEvent(T[i])
       /\ T[i].epoch = epoch /\ T[i].parent = T[1].parent /\ T[i].signer = T[1].signer
       /\ T[i].sequence = i /\ Follows(T, i) /\ Authentic(T[i])

Epochs ==
  /\ IsSeq(ended) /\ Len(ended) = epoch_id - 1
  /\ \A n \in 1..epoch_id : ChainOf(EventsOf(n), n)

\* A checkpoint is of an event there was, or of the start of an epoch.
CheckpointOf(c, T) ==
  /\ CheckpointVerifies(c)
  /\ c.last_sequence \in 0..Len(T)
  /\ c.last_sequence > 0 =>
       T[c.last_sequence].hash = c.head /\ T[c.last_sequence].signer = c.signer

CheckpointsPast ==
  \A c \in checkpoints : c.epoch \in 1..epoch_id /\ CheckpointOf(c, EventsOf(c.epoch))

\* The writes of the same epoch before a write, and the latest of some writes.
WritesBefore(S, k) == {i \in 1..(k - 1) : S[i].epoch = S[k].epoch}

LatestOf(W, j) == j \in W /\ \A h \in W : h <= j

InOrderAt(S, k) ==
  \/ WritesBefore(S, k) = {} /\ S[k].sequence = 1
  \/ \E j \in WritesBefore(S, k) :
       /\ LatestOf(WritesBefore(S, k), j)
       /\ S[k].sequence \in {S[j].sequence, S[j].sequence + 1}

\* The latest write of an epoch is of its last confirmed event, or of the next
\* one when that write was not confirmed.
Reaches(S, epoch, confirmed) ==
  LET W == {i \in 1..Len(S) : S[i].epoch = epoch} IN
  \/ W = {} /\ confirmed = 0
  \/ \E j \in W : LatestOf(W, j) /\ S[j].sequence \in {confirmed, confirmed + 1}

SinkOrdered ==
  /\ \A k \in 1..Len(sink) : sink[k].epoch \in 1..epoch_id /\ InOrderAt(sink, k)
  /\ Reaches(sink, epoch_id, Confirmed)

Bounded == epoch_id <= MaxEpochs /\ Len(sink) <= MaxSink /\ signer \in Keys

History == Epochs /\ CheckpointsPast /\ SinkOrdered /\ Bounded

-----------------------------------------------------------------------------
(* Writes in order.                                                        *)

\* What is true of a write does not depend on those that follow it.
LEMMA InOrderExtends ==
  ASSUME NEW S, NEW R, NEW k \in Nat, \A i \in 1..k : R[i] = S[i], InOrderAt(S, k), k >= 1
  PROVE  InOrderAt(R, k)
<1>1. WritesBefore(R, k) = WritesBefore(S, k)
  BY DEF WritesBefore
<1>2. R[k] = S[k] /\ \A j \in WritesBefore(S, k) : R[j] = S[j]
  BY DEF WritesBefore
<1> QED BY <1>1, <1>2 DEF InOrderAt, LatestOf

\* One more write, of the next event of its epoch, is in order.
LEMMA WriteInOrder ==
  ASSUME NEW S, IsSeq(S), NEW e, NEW confirmed \in Nat,
         \A k \in 1..Len(S) : InOrderAt(S, k),
         Reaches(S, e.epoch, confirmed), e.sequence = confirmed + 1
  PROVE  LET R == Append(S, e) IN
         /\ \A k \in 1..Len(R) : InOrderAt(R, k)
         /\ Reaches(R, e.epoch, confirmed) /\ Reaches(R, e.epoch, confirmed + 1)
<1> DEFINE R == Append(S, e)
           n == Len(S)
           W == {i \in 1..n : S[i].epoch = e.epoch}
<1>1. /\ n \in Nat /\ Len(R) = n + 1 /\ R[n + 1] = e /\ \A i \in 1..n : R[i] = S[i]
  BY SeqShape, AppendShape
<1> HIDE DEF R
<1>2. WritesBefore(R, n + 1) = W
  BY <1>1 DEF WritesBefore
<1>3. InOrderAt(R, n + 1)
  <2>1. CASE W = {} /\ confirmed = 0
    BY <1>1, <1>2, <2>1 DEF InOrderAt
  <2>2. ASSUME NEW j \in W, LatestOf(W, j), S[j].sequence \in {confirmed, confirmed + 1}
        PROVE  InOrderAt(R, n + 1)
    <3>1. R[j] = S[j]
      BY <1>1, <2>2 DEF LatestOf
    <3>2. R[n + 1].sequence \in {R[j].sequence, R[j].sequence + 1}
      BY <1>1, <2>2, <3>1
    <3> QED BY <1>2, <2>2, <3>2 DEF InOrderAt
  <2> QED BY <2>1, <2>2 DEF Reaches
<1>4. \A k \in 1..Len(R) : InOrderAt(R, k)
  <2> SUFFICES ASSUME NEW k \in 1..Len(R) PROVE InOrderAt(R, k)
    OBVIOUS
  <2>1. CASE k = n + 1
    BY <1>3, <2>1
  <2>2. CASE k # n + 1
    <3>1. k \in 1..n /\ k \in Nat /\ k >= 1 /\ \A i \in 1..k : R[i] = S[i]
      BY <1>1, <2>2
    <3> QED BY <3>1, InOrderExtends
  <2> QED BY <2>1, <2>2
<1>5. /\ Reaches(R, e.epoch, confirmed) /\ Reaches(R, e.epoch, confirmed + 1)
  <2> DEFINE V == {i \in 1..Len(R) : R[i].epoch = e.epoch}
  <2>1. n + 1 \in V /\ LatestOf(V, n + 1)
    BY <1>1 DEF LatestOf
  <2>2. R[n + 1].sequence = confirmed + 1
    BY <1>1
  <2> QED BY <2>1, <2>2 DEF Reaches
<1> QED BY <1>4, <1>5 DEF R

\* So are several writes, of the events that follow each other.
LEMMA WritesInOrder ==
  ASSUME NEW S, IsSeq(S), NEW t, IsSeq(t), NEW epoch, NEW confirmed \in Nat,
         \A k \in 1..Len(S) : InOrderAt(S, k),
         Reaches(S, epoch, confirmed),
         \A i \in 1..Len(t) : t[i].epoch = epoch /\ t[i].sequence = confirmed + i
  PROVE  LET R == S \o t IN
         /\ \A k \in 1..Len(R) : InOrderAt(R, k)
         /\ Reaches(R, epoch, confirmed + Len(t))
<1> DEFINE R == S \o t
           n == Len(S)
           m == Len(t)
           W == {i \in 1..n : S[i].epoch = epoch}
<1>1. /\ n \in Nat /\ m \in Nat /\ Len(R) = n + m
      /\ \A i \in 1..n : R[i] = S[i]
      /\ \A i \in 1..m : R[n + i] = t[i]
  BY SeqShape, ConcatShape
<1> HIDE DEF R
<1>2. ASSUME NEW k \in 1..n PROVE InOrderAt(R, k)
  <2>1. k \in Nat /\ k >= 1 /\ \A i \in 1..k : R[i] = S[i]
    BY <1>1
  <2> QED BY <2>1, InOrderExtends
<1>3. ASSUME m >= 1 PROVE InOrderAt(R, n + 1)
  <2>1. R[n + 1].epoch = epoch /\ R[n + 1].sequence = confirmed + 1
    BY <1>1, <1>3
  <2>2. WritesBefore(R, n + 1) = W
    BY <1>1, <2>1 DEF WritesBefore
  <2>3. CASE W = {} /\ confirmed = 0
    BY <2>1, <2>2, <2>3 DEF InOrderAt
  <2>4. ASSUME NEW j \in W, LatestOf(W, j), S[j].sequence \in {confirmed, confirmed + 1}
        PROVE  InOrderAt(R, n + 1)
    <3>1. R[j] = S[j]
      BY <1>1
    <3>2. R[n + 1].sequence \in {R[j].sequence, R[j].sequence + 1}
      BY <2>1, <2>4, <3>1
    <3> QED BY <2>2, <2>4, <3>2 DEF InOrderAt
  <2> QED BY <2>3, <2>4 DEF Reaches
<1>4. ASSUME NEW i \in 2..m PROVE InOrderAt(R, n + i)
  <2>1. /\ i \in 1..m /\ i - 1 \in 1..m /\ n + (i - 1) = n + i - 1 /\ n + i - 1 \in 1..(n + i - 1)
    BY <1>1
  <2>2. /\ R[n + i].epoch = epoch /\ R[n + i].sequence = confirmed + i
        /\ R[n + i - 1].epoch = epoch /\ R[n + i - 1].sequence = confirmed + (i - 1)
    BY <1>1, <2>1
  <2>3. /\ n + i - 1 \in WritesBefore(R, n + i)
        /\ LatestOf(WritesBefore(R, n + i), n + i - 1)
    BY <2>1, <2>2 DEF WritesBefore, LatestOf
  <2>4. R[n + i].sequence = R[n + i - 1].sequence + 1
    BY <2>2, <2>1
  <2> QED BY <2>3, <2>4 DEF InOrderAt
<1>5. \A k \in 1..Len(R) : InOrderAt(R, k)
  <2> SUFFICES ASSUME NEW k \in 1..Len(R) PROVE InOrderAt(R, k)
    OBVIOUS
  <2>1. CASE k \in 1..n
    BY <1>2, <2>1
  <2>2. CASE k = n + 1
    BY <1>1, <1>3, <2>2
  <2>3. CASE k > n + 1
    <3>1. k - n \in 2..m /\ n + (k - n) = k
      BY <1>1, <2>3
    <3> QED BY <1>4, <3>1
  <2> QED BY <1>1, <2>1, <2>2, <2>3
<1>6. Reaches(R, epoch, confirmed + m)
  <2> DEFINE V == {i \in 1..Len(R) : R[i].epoch = epoch}
  <2>1. CASE m = 0
    <3>1. V = W /\ confirmed + m = confirmed /\ \A j \in W : R[j] = S[j]
      BY <1>1, <2>1
    <3> QED BY <3>1 DEF Reaches
  <2>2. CASE m # 0
    <3>1. m \in 1..m /\ n + m \in 1..Len(R)
      BY <1>1, <2>2
    <3>2. R[n + m].epoch = epoch /\ R[n + m].sequence = confirmed + m
      BY <1>1, <3>1
    <3>3. n + m \in V /\ LatestOf(V, n + m)
      BY <1>1, <3>1, <3>2 DEF LatestOf
    <3> QED BY <3>2, <3>3 DEF Reaches
  <2> QED BY <2>1, <2>2
<1> QED BY <1>5, <1>6 DEF R

-----------------------------------------------------------------------------
(* The steps keep the history.                                             *)

LEMMA InitHistory == Init => History
<1> SUFFICES ASSUME Init PROVE History
  OBVIOUS
<1> USE EmptyIsSeq
<1>1. /\ epoch_id = 1 /\ events = <<>> /\ pending_sink = <<>> /\ sink = <<>>
      /\ checkpoints = {} /\ ended = <<>> /\ signer \in Keys
  BY DEF Init
<1>2. Epochs
  <2>1. ASSUME NEW n \in 1..epoch_id PROVE ChainOf(EventsOf(n), n)
    BY <1>1, BoundsAssumption DEF EventsOf, ChainOf
  <2> QED BY <1>1, <2>1 DEF Epochs
<1>3. CheckpointsPast /\ Bounded
  BY <1>1, BoundsAssumption DEF CheckpointsPast, Bounded
<1>4. SinkOrdered
  BY <1>1 DEF SinkOrdered, Reaches, Confirmed
<1> QED BY <1>2, <1>3, <1>4 DEF History

\* A checkpoint of an epoch is one of the epoch when it has gone on.
LEMMA CheckpointKept ==
  ASSUME NEW c, NEW T, NEW U, Len(T) \in Nat, Len(U) \in Nat, Len(T) <= Len(U),
         \A i \in 1..Len(T) : U[i] = T[i], CheckpointOf(c, T)
  PROVE  CheckpointOf(c, U)
<1>1. c.last_sequence \in 0..Len(T) /\ c.last_sequence \in 0..Len(U)
  BY DEF CheckpointOf
<1>2. c.last_sequence > 0 => U[c.last_sequence] = T[c.last_sequence]
  BY <1>1
<1> QED BY <1>1, <1>2 DEF CheckpointOf

\* append fills in the fields of an event.
LEMMA NewEventIsEvent ==
  ASSUME NEW p
  PROVE  IsEvent(NewEvent(p))
  BY DEF NewEvent, IsEvent

LEMMA AppendEpochs ==
  ASSUME IInv, History, NEW p \in Payloads, AppendEvent(p)
  PROVE  Epochs' /\ CheckpointsPast'
<1> DEFINE e == NewEvent(p)
<1> DEFINE m == Len(events)
<1>1. /\ events' = Append(events, e)
      /\ UNCHANGED <<epoch_id, ended, checkpoints>> /\ m < MaxEvents
  BY DEF AppendEvent
<1>2. IsEvent(e)
  BY NewEventIsEvent
<1> HIDE DEF e
<1>3. /\ IsSeq(events') /\ Len(events') = m + 1 /\ events'[m + 1] = e /\ m \in Nat
      /\ \A i \in 1..m : events'[i] = events[i]
  BY <1>1, SeqShape, AppendShape DEF IInv, Shapes
<1>4. epoch_id \in Nat \ {0}
  BY DEF IInv, Numbered
<1>5. \A i \in 1..m : IsEvent(events[i])
  BY <1>4 DEF History, Epochs, ChainOf, EventsOf
<1>6. ChainOf(events', epoch_id)
  <2>1. Chained'
    BY AppendChain
  <2>2. m + 1 <= MaxEvents
    BY <1>1, <1>3, BoundsAssumption
  <2>3. ASSUME NEW i \in 1..(m + 1)
        PROVE  /\ IsEvent(events'[i]) /\ events'[i].epoch = epoch_id
               /\ events'[i].parent = events'[1].parent
               /\ events'[i].signer = events'[1].signer
               /\ events'[i].sequence = i /\ Follows(events', i) /\ Authentic(events'[i])
    <3>1. IsEvent(events'[i])
      <4>1. CASE i \in 1..m
        BY <4>1, <1>3, <1>5
      <4>2. CASE i = m + 1
        BY <4>2, <1>2, <1>3
      <4> QED BY <4>1, <4>2, <1>3
    <3>2. /\ i \in 1..Len(events') /\ 1 \in 1..Len(events')
      BY <1>3
    <3>3. /\ events'[i].epoch = epoch_id /\ events'[i].parent = epoch_parent_hash'
          /\ events'[i].signer = signer' /\ events'[i].sequence = i
          /\ events'[i].previous = HashBefore(i)' /\ Authentic(events'[i])
          /\ events'[1].epoch = epoch_id /\ events'[1].parent = epoch_parent_hash'
          /\ events'[1].signer = signer'
      BY <1>1, <2>1, <3>2 DEF Chained, Authentic
    <3>4. HashBefore(i)' = IF i = 1 THEN FirstParent(epoch_id', epoch_parent_hash', signer')
                           ELSE events'[i - 1].hash
      BY DEF HashBefore, FirstParent, GenesisHash
    <3> QED BY <1>1, <3>1, <3>3, <3>4 DEF Follows
  <2> QED BY <1>3, <2>2, <2>3 DEF ChainOf
<1>7. ASSUME NEW n \in 1..epoch_id
      PROVE  /\ EventsOf(n)' = IF n = epoch_id THEN events' ELSE EventsOf(n)
             /\ n = epoch_id => EventsOf(n) = events
  BY <1>1 DEF EventsOf
<1>8. Epochs'
  BY <1>1, <1>6, <1>7 DEF History, Epochs
<1>9. CheckpointsPast'
  <2> SUFFICES ASSUME NEW c \in checkpoints
               PROVE  c.epoch \in 1..epoch_id /\ CheckpointOf(c, EventsOf(c.epoch)')
    BY <1>1 DEF CheckpointsPast, CheckpointOf
  <2>1. c.epoch \in 1..epoch_id /\ CheckpointOf(c, EventsOf(c.epoch))
    BY DEF History, CheckpointsPast
  <2>2. CASE c.epoch = epoch_id
    <3>1. CheckpointOf(c, events')
      BY <1>3, <1>7, <2>1, <2>2, CheckpointKept
    <3> QED BY <1>7, <2>1, <2>2, <3>1
  <2>3. CASE c.epoch # epoch_id
    BY <1>7, <2>1, <2>3
  <2> QED BY <2>2, <2>3
<1> QED BY <1>8, <1>9

LEMMA AppendSink ==
  ASSUME IInv, History, NEW p \in Payloads, AppendEvent(p)
  PROVE  SinkOrdered' /\ Bounded'
<1> DEFINE e == NewEvent(p)
<1> DEFINE m == Len(events)
<1> DEFINE q == Len(pending_sink)
<1>1. PICK outcome \in WriteOutcomes :
        LET delivered == SinkIsTried /\ outcome = "ok" IN
        /\ sink' = IF SinkIsTried THEN Stored(sink, e, outcome) ELSE sink
        /\ Len(sink') <= MaxSink
        /\ pending_sink' = IF has_sink /\ ~delivered THEN Append(pending_sink, e) ELSE pending_sink
  BY DEF AppendEvent
<1>2. /\ events' = Append(events, e) /\ UNCHANGED <<epoch_id, signer, has_sink>>
  BY DEF AppendEvent
<1>3. /\ IsSeq(events) /\ IsSeq(pending_sink) /\ IsSeq(sink)
      /\ m \in Nat /\ q \in Nat /\ Len(sink) \in Nat /\ q <= m
      /\ epoch_id \in Nat \ {0} /\ next_sequence = m + 1
  BY SeqShape DEF IInv, Shapes, Numbered, QueueIsTail
<1>4. e.epoch = epoch_id /\ e.sequence = m + 1
  BY <1>3, NewEventShape
<1> HIDE DEF e
<1>5. Len(events') = m + 1 /\ Len(Append(pending_sink, e)) = q + 1
  BY <1>2, <1>3, AppendShape
<1>6. /\ \A k \in 1..Len(sink) : sink[k].epoch \in 1..epoch_id /\ InOrderAt(sink, k)
      /\ Reaches(sink, epoch_id, Confirmed)
      /\ m - q \in Nat /\ (has_sink => Confirmed = m - q)
  BY <1>3 DEF History, SinkOrdered, Confirmed
<1>7. /\ SinkIsTried /\ outcome = "ok" => Confirmed' = m - q + 1
      /\ ~(SinkIsTried /\ outcome = "ok") => Confirmed' = Confirmed
  <2>1. has_sink => Confirmed' = m + 1 - Len(pending_sink')
    BY <1>2, <1>5 DEF Confirmed
  <2>2. CASE SinkIsTried /\ outcome = "ok"
    <3>1. pending_sink' = pending_sink
      BY <1>1, <2>2
    <3> QED BY <1>3, <2>1, <2>2, <3>1 DEF SinkIsTried
  <2>3. CASE has_sink /\ ~(SinkIsTried /\ outcome = "ok")
    <3>1. pending_sink' = Append(pending_sink, e)
      BY <1>1, <2>3
    <3> QED BY <1>3, <1>5, <1>6, <2>1, <2>3, <3>1
  <2>4. CASE ~has_sink
    BY <1>2, <2>4 DEF Confirmed, SinkIsTried
  <2> QED BY <2>2, <2>3, <2>4
<1>8. CASE ~SinkIsTried \/ outcome = "failed"
  <2>1. sink' = sink /\ Confirmed' = Confirmed
    BY <1>1, <1>7, <1>8 DEF Stored
  <2>2. \A k \in 1..Len(sink') : sink'[k].epoch \in 1..epoch_id' /\ InOrderAt(sink', k)
    BY <1>2, <1>6, <2>1
  <2>3. Reaches(sink', epoch_id', Confirmed')
    BY <1>2, <1>6, <2>1
  <2>4. SinkOrdered'
    BY <2>2, <2>3 DEF SinkOrdered, InOrderAt, Reaches, WritesBefore, LatestOf
  <2> QED BY <1>1, <1>2, <2>4 DEF Bounded, History
<1>9. CASE SinkIsTried /\ outcome # "failed"
  <2>1. sink' = Append(sink, e)
    BY <1>1, <1>9 DEF Stored
  <2>2. q = 0 /\ m - q = m /\ Confirmed = m
    BY <1>6, <1>3, <1>9, EmptyIsSeq DEF SinkIsTried
  <2>3. /\ Reaches(sink, e.epoch, m) /\ e.sequence = m + 1
    BY <1>4, <1>6, <2>2
  <2>4. /\ \A k \in 1..Len(sink') : InOrderAt(sink', k)
        /\ Reaches(sink', epoch_id, m) /\ Reaches(sink', epoch_id, m + 1)
    BY <1>3, <1>4, <1>6, <2>1, <2>3, WriteInOrder
  <2>5. ASSUME NEW k \in 1..Len(sink') PROVE sink'[k].epoch \in 1..epoch_id
    <3>1. CASE k \in 1..Len(sink)
      BY <1>3, <1>6, <2>1, <3>1, AppendShape
    <3>2. CASE k = Len(sink) + 1
      BY <1>3, <1>4, <2>1, <3>2, AppendShape
    <3> QED BY <1>3, <2>1, <3>1, <3>2, AppendShape
  <2>6. Confirmed' \in {m, m + 1}
    BY <1>7, <2>2
  <2>7. Reaches(sink', epoch_id', Confirmed')
    BY <1>2, <2>4, <2>6
  <2> QED BY <1>1, <1>2, <2>4, <2>5, <2>7 DEF SinkOrdered, Bounded, History, InOrderAt,
                                      Reaches, WritesBefore, LatestOf
<1> QED BY <1>8, <1>9

\* The writes of flush_pending are those of the events that wait, in their order;
\* the one that failed may have reached the sink.
LEMMA FlushHistory ==
  ASSUME IInv, History, FlushPending
  PROVE  History'
<1> DEFINE q == Len(pending_sink)
           m == Len(events)
           c == m - q
<1>1. PICK n \in 0..q, last \in WriteOutcomes :
        LET written == sink \o SubSeq(pending_sink, 1, n) IN
        /\ (last = "ok") <=> (n = q)
        /\ sink' = IF last = "ok" THEN written ELSE Stored(written, pending_sink[n + 1], last)
        /\ Len(sink') <= MaxSink
        /\ pending_sink' = SubSeq(pending_sink, n + 1, q)
  BY DEF FlushPending, Unwritten
<1>2. has_sink /\ UNCHANGED <<epoch_id, events, signer, has_sink, checkpoints, ended>>
  BY DEF FlushPending
<1>3. /\ IsSeq(pending_sink) /\ IsSeq(sink) /\ IsSeq(events)
      /\ m \in Nat /\ q \in Nat /\ c \in Nat /\ n \in Nat /\ Len(sink) \in Nat
      /\ epoch_id \in Nat \ {0}
  BY SeqShape DEF IInv, Shapes, QueueIsTail, Numbered
<1>4. \A i \in 1..q : pending_sink[i].epoch = epoch_id /\ pending_sink[i].sequence = c + i
  <2> SUFFICES ASSUME NEW i \in 1..q
               PROVE  pending_sink[i].epoch = epoch_id /\ pending_sink[i].sequence = c + i
    OBVIOUS
  <2>1. c + i \in 1..m
    BY <1>3
  <2>2. pending_sink[i] = events[c + i]
    BY <1>2 DEF IInv, QueueIsTail, Confirmed
  <2> QED BY <2>1, <2>2 DEF IInv, Chained
<1>5. Len(SubSeq(pending_sink, n + 1, q)) = q - n
  <2>1. n + 1 \in 1..(q + 1) /\ q \in ((n + 1) - 1)..q
    BY <1>3
  <2>2. Len(SubSeq(pending_sink, n + 1, q)) = q - (n + 1) + 1
    BY <1>3, <2>1, SubSeqShape
  <2> QED BY <1>3, <2>2
<1>6. Confirmed' = c + n
  <2>1. Confirmed' = m - (q - n)
    BY <1>1, <1>2, <1>5 DEF Confirmed
  <2> QED BY <1>3, <2>1
<1> DEFINE t == SubSeq(pending_sink, 1, n)
           written == sink \o t
<1>7. /\ IsSeq(t) /\ Len(t) = n /\ \A i \in 1..n : t[i] = pending_sink[i]
  <2>1. 1 \in 1..(q + 1) /\ n \in (1 - 1)..q
    BY <1>3
  <2>2. /\ IsSeq(t) /\ Len(t) = n - 1 + 1
        /\ \A i \in 1..(n - 1 + 1) : t[i] = pending_sink[1 + i - 1]
    BY <1>3, <2>1, SubSeqShape
  <2>3. n - 1 + 1 = n /\ \A i \in 1..n : 1 + i - 1 = i
    BY <1>3
  <2> QED BY <2>2, <2>3
<1>8. \A i \in 1..n : t[i].epoch = epoch_id /\ t[i].sequence = c + i
  <2>1. \A i \in 1..n : i \in 1..q
    BY <1>1, <1>3
  <2> QED BY <1>4, <1>7, <2>1
<1> HIDE DEF t
<1>9. /\ \A k \in 1..Len(sink) : sink[k].epoch \in 1..epoch_id /\ InOrderAt(sink, k)
      /\ Reaches(sink, epoch_id, c)
  BY <1>2 DEF History, SinkOrdered, Confirmed
<1>10. /\ IsSeq(written) /\ \A k \in 1..Len(written) : InOrderAt(written, k)
       /\ Reaches(written, epoch_id, c + n)
  BY <1>3, <1>7, <1>8, <1>9, WritesInOrder, ConcatShape
<1>11. ASSUME NEW k \in 1..Len(written) PROVE written[k].epoch \in 1..epoch_id
  <2>1. /\ Len(written) = Len(sink) + n
        /\ \A i \in 1..Len(sink) : written[i] = sink[i]
        /\ \A i \in 1..n : written[Len(sink) + i] = t[i]
    <3>1. /\ Len(written) = Len(sink) + Len(t)
          /\ \A i \in 1..Len(sink) : written[i] = sink[i]
          /\ \A i \in 1..Len(t) : written[Len(sink) + i] = t[i]
      <4>1. IsSeq(sink) /\ IsSeq(t)
        BY <1>3, <1>7
      <4> QED BY <4>1, ConcatShape
    <3> QED BY <1>7, <3>1
  <2>2. CASE k \in 1..Len(sink)
    BY <1>9, <2>1, <2>2
  <2>3. CASE k > Len(sink)
    <3>1. k - Len(sink) \in 1..n /\ Len(sink) + (k - Len(sink)) = k
      BY <1>3, <2>1, <2>3
    <3>2. written[k].epoch = epoch_id
      BY <1>8, <2>1, <3>1
    <3> QED BY <1>3, <3>2
  <2> QED BY <1>3, <2>1, <2>2, <2>3
<1> HIDE DEF written
<1>12. /\ \A k \in 1..Len(sink') : sink'[k].epoch \in 1..epoch_id /\ InOrderAt(sink', k)
       /\ Reaches(sink', epoch_id, c + n)
  <2>1. CASE last = "ok" \/ last = "failed"
    <3>1. sink' = written
      BY <1>1, <2>1 DEF Stored, written, t
    <3> QED BY <1>10, <1>11, <3>1
  <2>2. CASE last = "unconfirmed"
    <3> DEFINE e == pending_sink[n + 1]
    <3>1. n # q /\ n + 1 \in 1..q
      BY <1>1, <1>3, <2>2
    <3>2. sink' = Append(written, e)
      BY <1>1, <2>2 DEF Stored, written, t
    <3>3. /\ e.epoch = epoch_id /\ e.sequence = c + (n + 1)
      BY <1>4, <3>1
    <3>4. e.sequence = (c + n) + 1 /\ c + n \in Nat
      BY <1>3, <3>3
    <3> HIDE DEF e
    <3>5. /\ \A k \in 1..Len(sink') : InOrderAt(sink', k)
          /\ Reaches(sink', epoch_id, c + n)
      BY <1>10, <3>2, <3>3, <3>4, WriteInOrder
    <3>6. ASSUME NEW k \in 1..Len(sink') PROVE sink'[k].epoch \in 1..epoch_id
      <4>1. /\ Len(sink') = Len(written) + 1 /\ sink'[Len(written) + 1] = e
            /\ \A i \in 1..Len(written) : sink'[i] = written[i]
            /\ Len(written) \in Nat
        BY <1>10, <3>2, AppendShape, SeqShape
      <4>2. CASE k \in 1..Len(written)
        BY <1>11, <4>1, <4>2
      <4>3. CASE k = Len(written) + 1
        BY <1>3, <3>3, <4>1, <4>3
      <4> QED BY <4>1, <4>2, <4>3
    <3> QED BY <3>5, <3>6
  <2> QED BY <2>1, <2>2 DEF WriteOutcomes
<1>13. Reaches(sink', epoch_id', Confirmed')
  BY <1>2, <1>6, <1>12
<1>14. SinkOrdered'
  BY <1>2, <1>12, <1>13 DEF SinkOrdered, InOrderAt, Reaches, WritesBefore, LatestOf
<1>15. Bounded'
  BY <1>1, <1>2 DEF History, Bounded
<1>16. \A n_1 : EventsOf(n_1)' = EventsOf(n_1)
  BY <1>2 DEF EventsOf
<1>17. Epochs'
  BY <1>2, <1>16 DEF History, Epochs
<1>18. CheckpointsPast'
  BY <1>2, <1>16 DEF History, CheckpointsPast
<1> QED BY <1>14, <1>15, <1>17, <1>18 DEF History

\* A checkpoint is taken at the last event, or at the start of the epoch.
LEMMA CheckpointHistory ==
  ASSUME IInv, History, Checkpoint
  PROVE  History'
<1> DEFINE c == NewCheckpoint
           m == Len(events)
<1>1. /\ checkpoints' = checkpoints \cup {c}
      /\ UNCHANGED <<epoch_id, events, signer, has_sink, ended, sink, pending_sink>>
  BY DEF Checkpoint, plane
<1>2. /\ m \in Nat /\ epoch_id \in Nat \ {0} /\ next_sequence = m + 1
      /\ head_hash = HashBefore(m + 1)
  BY SeqShape DEF IInv, Shapes, Numbered, HeadIsLast
<1>3. /\ c.epoch = epoch_id /\ c.last_sequence = m /\ c.head = head_hash
      /\ c.signer = signer /\ CheckpointVerifies(c)
  BY <1>2 DEF NewCheckpoint, LastSequence, CheckpointVerifies, CheckpointHash, Sign
<1> HIDE DEF c
<1>4. EventsOf(epoch_id) = events /\ \A n : EventsOf(n)' = EventsOf(n)
  BY <1>1 DEF EventsOf
<1>5. CheckpointOf(c, events)
  <2>1. ASSUME m > 0 PROVE events[m].hash = c.head /\ events[m].signer = c.signer
    <3>1. m \in 1..m /\ m + 1 # 1 /\ (m + 1) - 1 = m
      BY <1>2, <2>1
    <3>2. HashBefore(m + 1) = events[m].hash
      BY <3>1 DEF HashBefore
    <3> QED BY <1>2, <1>3, <3>1, <3>2 DEF IInv, Chained
  <2> QED BY <1>2, <1>3, <2>1 DEF CheckpointOf
<1>6. CheckpointsPast'
  <2> SUFFICES ASSUME NEW d \in checkpoints'
               PROVE  d.epoch \in 1..epoch_id /\ CheckpointOf(d, EventsOf(d.epoch))
    BY <1>1, <1>4 DEF CheckpointsPast, CheckpointOf
  <2>1. CASE d \in checkpoints
    BY <2>1 DEF History, CheckpointsPast
  <2>2. CASE d = c
    BY <1>2, <1>3, <1>4, <1>5, <2>2
  <2> QED BY <1>1, <2>1, <2>2
<1>7. Epochs'
  BY <1>1, <1>4 DEF History, Epochs
<1>8. SinkOrdered' /\ Bounded'
  BY <1>1 DEF History, SinkOrdered, Bounded, Confirmed
<1> QED BY <1>6, <1>7, <1>8 DEF History

\* A start leaves the events of the epoch behind and none of the next is in the sink.
LEMMA StartHistory ==
  ASSUME IInv, History, NEW key \in Keys, NEW parent, Start(key, parent)
  PROVE  History'
<1> USE EmptyIsSeq
<1>1. /\ epoch_id < MaxEpochs /\ epoch_id' = epoch_id + 1
      /\ events' = <<>> /\ pending_sink' = <<>> /\ signer' = key
      /\ ended' = Append(ended, events)
      /\ UNCHANGED <<sink, checkpoints>>
  BY DEF Start
<1>2. epoch_id \in Nat \ {0} /\ IsSeq(ended) /\ Len(ended) = epoch_id - 1
  BY DEF IInv, Numbered, History, Epochs
<1>3. /\ IsSeq(ended') /\ Len(ended') = epoch_id /\ ended'[epoch_id] = events
      /\ \A n \in 1..(epoch_id - 1) : ended'[n] = ended[n]
  <2>1. epoch_id - 1 + 1 = epoch_id
    BY <1>2
  <2> QED BY <1>1, <1>2, <2>1, AppendShape
<1>4. ASSUME NEW n \in 1..epoch_id PROVE EventsOf(n)' = EventsOf(n)
  <2>1. n # epoch_id'
    BY <1>1, <1>2
  <2>2. EventsOf(n)' = ended'[n]
    BY <2>1 DEF EventsOf
  <2>3. CASE n = epoch_id
    BY <1>3, <2>2, <2>3 DEF EventsOf
  <2>4. CASE n # epoch_id
    <3>1. n \in 1..(epoch_id - 1)
      BY <1>2, <2>4
    <3> QED BY <1>3, <2>2, <2>4, <3>1 DEF EventsOf
  <2> QED BY <2>3, <2>4
<1>5. Epochs'
  <2>1. ASSUME NEW n \in 1..epoch_id' PROVE ChainOf(EventsOf(n)', n)
    <3>1. CASE n = epoch_id'
      <4>1. EventsOf(n)' = <<>>
        BY <1>1, <3>1 DEF EventsOf
      <4> QED BY <4>1, BoundsAssumption DEF ChainOf
    <3>2. CASE n # epoch_id'
      <4>1. n \in 1..epoch_id
        BY <1>1, <1>2, <3>2
      <4>2. ChainOf(EventsOf(n), n)
        BY <4>1 DEF History, Epochs
      <4> QED BY <1>4, <4>1, <4>2
    <3> QED BY <3>1, <3>2
  <2>2. Len(ended') = epoch_id' - 1
    BY <1>1, <1>2, <1>3
  <2> QED BY <1>3, <2>1, <2>2 DEF Epochs, ChainOf
<1>6. CheckpointsPast'
  <2> SUFFICES ASSUME NEW c \in checkpoints
               PROVE  c.epoch \in 1..epoch_id' /\ CheckpointOf(c, EventsOf(c.epoch)')
    BY <1>1 DEF CheckpointsPast, CheckpointOf
  <2>1. c.epoch \in 1..epoch_id /\ CheckpointOf(c, EventsOf(c.epoch))
    BY DEF History, CheckpointsPast
  <2>2. EventsOf(c.epoch)' = EventsOf(c.epoch)
    BY <1>4, <2>1
  <2> QED BY <1>1, <1>2, <2>1, <2>2
<1>7. SinkOrdered'
  <2>1. ASSUME NEW k \in 1..Len(sink')
        PROVE  sink'[k].epoch \in 1..epoch_id' /\ sink'[k].epoch # epoch_id'
               /\ InOrderAt(sink', k)
    <3>1. sink[k].epoch \in 1..epoch_id /\ InOrderAt(sink, k)
      BY <1>1 DEF History, SinkOrdered
    <3> QED BY <1>1, <1>2, <3>1
  <2>2. Confirmed' = 0
    BY <1>1 DEF Confirmed
  <2>3. Reaches(sink', epoch_id', Confirmed')
    BY <2>1, <2>2 DEF Reaches
  <2> QED BY <2>1, <2>3 DEF SinkOrdered, InOrderAt, Reaches, WritesBefore, LatestOf
<1>8. Bounded'
  <2>1. epoch_id + 1 <= MaxEpochs
    BY <1>1, <1>2, BoundsAssumption
  <2> QED BY <1>1, <2>1 DEF History, Bounded
<1> QED BY <1>5, <1>6, <1>7, <1>8 DEF History

LEMMA UnchangedHistory ==
  ASSUME History, UNCHANGED vars
  PROVE  History'
<1>1. UNCHANGED <<epoch_id, events, pending_sink, signer, has_sink, sink, checkpoints, ended>>
  BY DEF vars, plane
<1>2. \A n : EventsOf(n)' = EventsOf(n)
  BY <1>1 DEF EventsOf
<1>3. Epochs'
  BY <1>1, <1>2 DEF History, Epochs
<1>4. CheckpointsPast'
  BY <1>1, <1>2 DEF History, CheckpointsPast
<1>5. SinkOrdered' /\ Bounded'
  BY <1>1 DEF History, SinkOrdered, Bounded, Confirmed
<1> QED BY <1>3, <1>4, <1>5 DEF History

LEMMA NextHistory == IInv /\ History /\ [Next]_vars => History'
<1> SUFFICES ASSUME IInv, History, [Next]_vars PROVE History'
  OBVIOUS
<1>1. ASSUME NEW p \in Payloads, AppendEvent(p) PROVE History'
  BY <1>1, AppendEpochs, AppendSink DEF History
<1>2. CASE FlushPending
  BY <1>2, FlushHistory
<1>3. CASE Checkpoint
  BY <1>3, CheckpointHistory
<1>4. ASSUME NEW k \in Keys, RestartNew(k) PROVE History'
  BY <1>4, StartHistory DEF RestartNew
<1>5. ASSUME NEW k \in Keys, NEW c \in checkpoints, RestartFromCheckpoint(k, c)
      PROVE  History'
  BY <1>5, StartHistory DEF RestartFromCheckpoint
<1>6. CASE UNCHANGED vars
  BY <1>6, UnchangedHistory
<1> QED BY <1>1, <1>2, <1>3, <1>4, <1>5, <1>6 DEF Next

\* What was recorded stays what it was: the events of each epoch, also of those
\* that are over, verify together, each checkpoint is of one of them, and the
\* sink holds the writes of each epoch in their order.
THEOREM HistoryInvariance == Spec => [](IInv /\ History)
<1>1. Init => IInv /\ History
  BY InitIInv, InitHistory
<1>2. IInv /\ History /\ [Next]_vars => IInv' /\ History'
  BY NextIInv, NextHistory
<1> QED BY <1>1, <1>2, PTL DEF Spec

-----------------------------------------------------------------------------
(* What the history shows.                                                 *)

\* A sequence that agrees with the beginning of another is that part of it.
LEMMA Prefix ==
  ASSUME NEW T, IsSeq(T), NEW E, IsSeq(E), Len(T) <= Len(E),
         \A i \in 1..Len(T) : T[i] = E[i]
  PROVE  T = SubSeq(E, 1, Len(T))
<1> DEFINE n == Len(T)
           P == SubSeq(E, 1, n)
<1>1. n \in Nat /\ Len(E) \in Nat
  BY SeqShape
<1>2. 1 \in 1..(Len(E) + 1) /\ n \in (1 - 1)..Len(E)
  BY <1>1
<1>3. IsSeq(P) /\ Len(P) = n - 1 + 1 /\ \A i \in 1..(n - 1 + 1) : P[i] = E[1 + i - 1]
  BY <1>2, SubSeqShape
<1>4. n - 1 + 1 = n /\ \A i \in 1..n : 1 + i - 1 = i
  BY <1>1
<1>5. Len(P) = n /\ \A i \in 1..n : P[i] = T[i]
  BY <1>3, <1>4
<1> HIDE DEF P
<1> DEFINE S == {T[i] : i \in DOMAIN T} \cup {P[i] : i \in DOMAIN P}
<1>6. T \in Seq(S) /\ P \in Seq(S)
  BY <1>3, SeqMonotonic DEF IsSeq
<1> HIDE DEF S
<1>7. T = P
  BY <1>5, <1>6, SeqEqual
<1> QED BY <1>7 DEF P

\* The empty sequence is the empty part of any.
LEMMA EmptyPrefix ==
  ASSUME NEW T, IsSeq(T), Len(T) = 0
  PROVE  T = <<>>
  BY EmptySeq DEF IsSeq

\* The events of an epoch.
LEMMA EpochShape ==
  ASSUME IInv, History, NEW n \in 1..epoch_id
  PROVE  /\ ChainOf(EventsOf(n), n)
         /\ IsSeq(EventsOf(n)) /\ Len(EventsOf(n)) \in Nat
         /\ DOMAIN EventsOf(n) = 1..Len(EventsOf(n)) /\ Len(EventsOf(n)) <= MaxEvents
  BY SeqShape DEF History, Epochs, ChainOf

\* The beginning of the events of an epoch.
LEMMA BeginningVerifies ==
  ASSUME IInv, History, NEW n \in 1..epoch_id, NEW k \in 0..Len(EventsOf(n))
  PROVE  LET T == SubSeq(EventsOf(n), 1, k) IN
         /\ IsSeq(T) /\ Len(T) = k /\ DOMAIN T = 1..k
         /\ \A i \in 1..k : T[i] = EventsOf(n)[i]
         /\ VerifySnapshot(T)
<1> DEFINE E == EventsOf(n)
           T == SubSeq(E, 1, k)
<1>1. ChainOf(E, n) /\ IsSeq(E) /\ Len(E) \in Nat /\ k \in Nat
  BY EpochShape
<1> HIDE DEF E
<1>2. 1 \in 1..(Len(E) + 1) /\ k \in (1 - 1)..Len(E)
  BY <1>1 DEF E
<1>3. IsSeq(T) /\ Len(T) = k - 1 + 1 /\ \A i \in 1..(k - 1 + 1) : T[i] = E[1 + i - 1]
  BY <1>1, <1>2, SubSeqShape
<1>4. k - 1 + 1 = k /\ \A i \in 1..k : 1 + i - 1 = i
  BY <1>1
<1>5. IsSeq(T) /\ Len(T) = k /\ DOMAIN T = 1..k /\ \A i \in 1..k : T[i] = E[i]
  BY <1>3, <1>4, SeqShape
<1> HIDE DEF T
<1>6. VerifySnapshot(T)
  <2> SUFFICES ASSUME NEW i \in 1..k
               PROVE  /\ T[i].epoch = T[1].epoch /\ T[i].parent = T[1].parent
                      /\ T[i].signer = T[1].signer
                      /\ T[i].sequence = i /\ Follows(T, i) /\ Authentic(T[i])
    BY <1>5 DEF VerifySnapshot
  <2>1. i \in 1..Len(E) /\ 1 \in 1..Len(E) /\ 1 \in 1..k
    BY <1>1, <1>2
  <2>2. T[i] = E[i] /\ T[1] = E[1] /\ (i # 1 => T[i - 1] = E[i - 1])
    <3>1. i # 1 => i - 1 \in 1..k
      BY <1>1
    <3> QED BY <1>5, <2>1, <3>1
  <2>3. Follows(T, i)
    BY <1>1, <2>1, <2>2 DEF ChainOf, Follows
  <2> QED BY <1>1, <2>1, <2>2, <2>3 DEF ChainOf
<1> QED BY <1>5, <1>6 DEF T, E

\* The types, and the bounds on what the plane holds.
THEOREM TypeCorrect == Spec => []TypeOK
<1>1. IInv /\ History => TypeOK
  <2> SUFFICES ASSUME IInv, History PROVE TypeOK
    OBVIOUS
  <2>1. /\ epoch_id \in 1..MaxEpochs /\ Len(ended) = epoch_id - 1 /\ signer \in Keys
        /\ Len(sink) <= MaxSink /\ epoch_id \in 1..epoch_id
    BY BoundsAssumption DEF IInv, Numbered, History, Epochs, Bounded
  <2>2. /\ next_sequence = Len(events) + 1 /\ Len(events) \in Nat
        /\ Len(events) <= MaxEvents
    BY <2>1, EpochShape DEF IInv, Numbered, EventsOf
  <2>3. next_sequence \in 1..(MaxEvents + 1) /\ Len(events) = next_sequence - 1
    BY <2>2, BoundsAssumption
  <2>4. ASSUME NEW c \in checkpoints
        PROVE  c.epoch \in 1..epoch_id /\ c.last_sequence \in 0..MaxEvents
    <3>1. c.epoch \in 1..epoch_id /\ c.last_sequence \in 0..Len(EventsOf(c.epoch))
      BY DEF History, CheckpointsPast, CheckpointOf
    <3> QED BY <3>1, EpochShape, BoundsAssumption
  <2> QED BY <2>1, <2>3, <2>4 DEF TypeOK, IInv, QueueHasSink
<1> QED BY <1>1, HistoryInvariance, PTL

\* A checkpoint goes on verifying the events it was taken of.
THEOREM CheckpointHonouredCorrect == Spec => []CheckpointHonoured
<1>1. IInv /\ History => CheckpointHonoured
  <2> SUFFICES ASSUME IInv, History, NEW c \in checkpoints
               PROVE  /\ c.last_sequence <= Len(EventsOf(c.epoch))
                      /\ VerifyAgainstCheckpoint(
                           SubSeq(EventsOf(c.epoch), 1, c.last_sequence), c)
    BY DEF CheckpointHonoured
  <2> DEFINE E == EventsOf(c.epoch)
             k == c.last_sequence
             T == SubSeq(E, 1, k)
  <2>1. c.epoch \in 1..epoch_id /\ CheckpointOf(c, E)
    BY DEF History, CheckpointsPast
  <2>2. /\ Len(E) \in Nat /\ ChainOf(E, c.epoch)
    BY <2>1, EpochShape
  <2>3. k \in 0..Len(E) /\ CheckpointVerifies(c)
    BY <2>1 DEF CheckpointOf
  <2>4. /\ IsSeq(T) /\ Len(T) = k /\ \A i \in 1..k : T[i] = E[i]
        /\ VerifySnapshot(T)
    BY <2>1, <2>3, BeginningVerifies
  <2> HIDE DEF T
  <2>5. EndsAt(T, c)
    <3>1. CASE k = 0
      BY <2>4, <3>1, EmptyPrefix DEF EndsAt
    <3>2. CASE k > 0
      <4>1. k \in 1..k /\ k \in 1..Len(E)
        BY <2>2, <2>3, <3>2
      <4>2. T # <<>>
        BY <2>4, <3>2, EmptyIsSeq
      <4>3. /\ T[k] = E[k] /\ E[k].epoch = c.epoch /\ E[k].sequence = k
            /\ E[k].hash = c.head /\ E[k].signer = c.signer
        BY <2>1, <2>2, <2>4, <3>2, <4>1 DEF ChainOf, CheckpointOf
      <4> QED BY <2>4, <4>2, <4>3 DEF EndsAt
    <3> QED BY <2>2, <2>3, <3>1, <3>2
  <2> QED BY <2>2, <2>3, <2>4, <2>5 DEF VerifyAgainstCheckpoint, T
<1> QED BY <1>1, HistoryInvariance, PTL

\* Nothing is written to the sink before its turn, and nothing is left out.
THEOREM SinkInOrderCorrect == Spec => []SinkInOrder
<1>1. IInv /\ History => SinkInOrder
  <2> SUFFICES ASSUME IInv, History, NEW k \in DOMAIN sink,
                      NEW W, W = WritesBefore(sink, k)
               PROVE  IF W = {} THEN sink[k].sequence = 1
                      ELSE LET j == CHOOSE i \in W : \A h \in W : h <= i IN
                           sink[k].sequence \in {sink[j].sequence, sink[j].sequence + 1}
    BY DEF SinkInOrder, WritesBefore
  <2>1. InOrderAt(sink, k) /\ k \in 1..Len(sink) /\ k \in Nat
    BY SeqShape DEF History, SinkOrdered, IInv, Shapes
  <2>2. CASE W = {}
    BY <2>1, <2>2 DEF InOrderAt
  <2>3. CASE W # {}
    <3>1. PICK j \in W : /\ LatestOf(W, j)
                         /\ sink[k].sequence \in {sink[j].sequence, sink[j].sequence + 1}
      BY <2>1, <2>3 DEF InOrderAt
    <3>2. W \subseteq Nat
      BY <2>1 DEF WritesBefore
    <3>3. \A i \in W : (\A h \in W : h <= i) => i = j
      BY <3>1, <3>2 DEF LatestOf
    <3>4. j = CHOOSE i \in W : \A h \in W : h <= i
      BY <3>1, <3>3 DEF LatestOf
    <3> QED BY <2>3, <3>1, <3>4
  <2> QED BY <2>2, <2>3
<1> QED BY <1>1, HistoryInvariance, PTL

-----------------------------------------------------------------------------
(* Tampering.                                                              *)

\* A hash that verifies determines the event.
LEMMA HashPinsEvent ==
  ASSUME NEW a, IsEvent(a), Authentic(a), NEW e, IsEvent(e), Authentic(e), a.hash = e.hash
  PROVE  a = e
<1>1. EventHash(a) = EventHash(e)
  BY DEF Authentic
<1>2. /\ a.epoch = e.epoch /\ a.parent = e.parent /\ a.sequence = e.sequence
      /\ a.payload = e.payload /\ a.previous = e.previous /\ a.signer = e.signer
  BY <1>1 DEF EventHash
<1>3. a.signature = e.signature
  BY <1>2 DEF Authentic
<1> QED BY <1>2, <1>3 DEF IsEvent

\* Whoever alters an event without the key has one that does not verify, also
\* when the hash is computed anew.
LEMMA AlterationFails ==
  ASSUME NEW e, IsEvent(e), Authentic(e), NEW a \in Alterations(e)
  PROVE  IsEvent(a) /\ ~Authentic(a)
<1>1. ASSUME NEW f, IsEvent(f), f.signature = e.signature, f.signer = e.signer, f # e
      PROVE  ~Authentic(f)
  <2> SUFFICES ASSUME Authentic(f) PROVE FALSE
    OBVIOUS
  <2>1. Sign(f.signer, f.hash) = Sign(e.signer, e.hash)
    BY <1>1 DEF Authentic
  <2>2. f.hash = e.hash
    BY <2>1 DEF Sign
  <2> QED BY <1>1, <2>2, HashPinsEvent
<1>2. ASSUME NEW p
      PROVE  /\ IsEvent([e EXCEPT !.payload = p])
             /\ [e EXCEPT !.payload = p].signature = e.signature
             /\ [e EXCEPT !.payload = p].signer = e.signer
  BY DEF IsEvent
<1>3. /\ IsEvent([e EXCEPT !.parent = NoParent])
      /\ [e EXCEPT !.parent = NoParent].signature = e.signature
      /\ [e EXCEPT !.parent = NoParent].signer = e.signer
  BY DEF IsEvent
<1>4. /\ IsEvent([e EXCEPT !.sequence = @ + 1])
      /\ [e EXCEPT !.sequence = @ + 1].signature = e.signature
      /\ [e EXCEPT !.sequence = @ + 1].signer = e.signer
  BY DEF IsEvent
<1>5. /\ IsEvent([e EXCEPT !.previous = e.parent])
      /\ [e EXCEPT !.previous = e.parent].signature = e.signature
      /\ [e EXCEPT !.previous = e.parent].signer = e.signer
  BY DEF IsEvent
<1> DEFINE F == {[e EXCEPT !.payload = p] : p \in Payloads \ {e.payload}} \cup
                {[e EXCEPT !.parent = NoParent], [e EXCEPT !.sequence = @ + 1],
                 [e EXCEPT !.previous = e.parent]}
<1>6. ASSUME NEW f \in F
      PROVE  IsEvent(f) /\ f.signature = e.signature /\ f.signer = e.signer
  BY <1>2, <1>3, <1>4, <1>5
<1> HIDE DEF F
<1>7. ASSUME NEW f, IsEvent(f)
      PROVE  /\ IsEvent(Rehashed(f)) /\ Rehashed(f).signature = f.signature
             /\ Rehashed(f).signer = f.signer
  <2> DEFINE h == EventHash(f)
  <2> HIDE DEF h
  <2>1. /\ IsEvent([f EXCEPT !.hash = h]) /\ [f EXCEPT !.hash = h].signature = f.signature
        /\ [f EXCEPT !.hash = h].signer = f.signer
    BY <1>7 DEF IsEvent
  <2> QED BY <2>1 DEF Rehashed, h
<1>8. a # e /\ (a \in F \/ \E g \in F : a = Rehashed(g))
  BY DEF Alterations, F
<1>9. IsEvent(a) /\ a.signature = e.signature /\ a.signer = e.signer
  BY <1>6, <1>7, <1>8
<1> QED BY <1>1, <1>8, <1>9

\* Events of whatever epochs that verify together are the first of one epoch.
LEMMA MixtureDetected ==
  ASSUME IInv, History, NEW m \in Nat, NEW T \in [1..m -> AllEvents], VerifySnapshot(T)
  PROVE  /\ IsSeq(T) /\ Len(T) = m /\ \A i \in 1..m : IsEvent(T[i])
         /\ \E n \in 1..epoch_id :
              Len(T) <= Len(EventsOf(n)) /\ T = SubSeq(EventsOf(n), 1, Len(T))
<1>1. T \in Seq(AllEvents) /\ Len(T) = m /\ DOMAIN T = 1..m
  BY SeqDef, LenProperties
<1>2. IsSeq(T)
  BY <1>1, MembersMakeSeq
<1>3. ASSUME NEW i \in 1..m
      PROVE  \E n \in 1..epoch_id :
               /\ i \in 1..Len(EventsOf(n)) /\ T[i] = EventsOf(n)[i]
               /\ T[i].epoch = n /\ IsEvent(T[i])
  <2>0. PICK n \in 1..epoch_id : T[i] \in {EventsOf(n)[j] : j \in DOMAIN EventsOf(n)}
    BY DEF AllEvents
  <2>1. PICK j \in DOMAIN EventsOf(n) : T[i] = EventsOf(n)[j]
    BY <2>0
  <2>2. /\ j \in 1..Len(EventsOf(n)) /\ ChainOf(EventsOf(n), n)
    BY EpochShape
  <2>3. /\ T[i].epoch = n /\ T[i].sequence = j /\ IsEvent(T[i])
    BY <2>1, <2>2 DEF ChainOf
  <2>4. T[i].sequence = i
    BY <1>1 DEF VerifySnapshot
  <2> QED BY <2>1, <2>2, <2>3, <2>4
<1>4. \E n \in 1..epoch_id :
        Len(T) <= Len(EventsOf(n)) /\ T = SubSeq(EventsOf(n), 1, Len(T))
  <2>1. CASE m = 0
    <3>1. 1 \in 1..epoch_id
      BY DEF IInv, Numbered
    <3>2. IsSeq(EventsOf(1)) /\ Len(EventsOf(1)) \in Nat
      BY <3>1, EpochShape
    <3>3. Len(T) <= Len(EventsOf(1)) /\ \A i \in 1..Len(T) : T[i] = EventsOf(1)[i]
      BY <1>1, <2>1, <3>2
    <3>4. T = SubSeq(EventsOf(1), 1, Len(T))
      BY <1>2, <3>2, <3>3, Prefix
    <3> QED BY <3>1, <3>3, <3>4
  <2>2. CASE m # 0
    <3>1. 1 \in 1..m /\ m \in 1..m
      BY <2>2
    <3> DEFINE n == T[1].epoch
    <3>2. ASSUME NEW i \in 1..m
          PROVE  n \in 1..epoch_id /\ i \in 1..Len(EventsOf(n)) /\ T[i] = EventsOf(n)[i]
      <4>1. T[i].epoch = n
        BY <1>1 DEF VerifySnapshot
      <4> QED BY <1>3, <4>1
    <3>3. /\ n \in 1..epoch_id /\ IsSeq(EventsOf(n)) /\ Len(EventsOf(n)) \in Nat
          /\ m \in 1..Len(EventsOf(n))
      BY <3>1, <3>2, EpochShape
    <3> HIDE DEF n
    <3>4. Len(T) <= Len(EventsOf(n)) /\ \A i \in 1..Len(T) : T[i] = EventsOf(n)[i]
      BY <1>1, <3>2, <3>3
    <3>5. T = SubSeq(EventsOf(n), 1, Len(T))
      BY <1>2, <3>3, <3>4, Prefix
    <3> QED BY <3>3, <3>4, <3>5
  <2> QED BY <2>1, <2>2
<1> QED BY <1>1, <1>2, <1>3, <1>4

\* An altered event does not verify among the others either.
LEMMA AlterationDetected ==
  ASSUME IInv, History, NEW n \in 1..epoch_id, NEW T \in Altered(n)
  PROVE  ~VerifySnapshot(T)
<1>0. PICK i \in DOMAIN EventsOf(n) :
        T \in {[EventsOf(n) EXCEPT ![i] = a] : a \in Alterations(EventsOf(n)[i])}
  BY DEF Altered
<1>1. PICK a \in Alterations(EventsOf(n)[i]) : T = [EventsOf(n) EXCEPT ![i] = a]
  BY <1>0
<1>2. i \in 1..Len(EventsOf(n)) /\ ChainOf(EventsOf(n), n)
  BY EpochShape
<1>3. IsEvent(EventsOf(n)[i]) /\ Authentic(EventsOf(n)[i])
  BY <1>2 DEF ChainOf
<1>4. ~Authentic(a)
  BY <1>3, AlterationFails
<1>5. i \in DOMAIN T /\ T[i] = a
  BY <1>1
<1> QED BY <1>4, <1>5 DEF VerifySnapshot

\* What is presented is a mixture of events, or an epoch with one altered.
LEMMA TamperedCases ==
  ASSUME NEW T \in Tampered
  PROVE  \/ \E m \in 0..MaxEvents : T \in [1..m -> AllEvents]
         \/ \E n \in 1..epoch_id : T \in Altered(n)
  BY DEF Tampered

\* Mutation, deletion inside, reordering, and the mixing of epochs, parents and
\* signers are all detected.
THEOREM TamperingDetectedCorrect == Spec => []TamperingDetected
<1>1. IInv /\ History => TamperingDetected
  <2> SUFFICES ASSUME IInv, History, NEW T \in Tampered, VerifySnapshot(T)
               PROVE  \E n \in 1..epoch_id :
                        Len(T) <= Len(EventsOf(n)) /\ T = SubSeq(EventsOf(n), 1, Len(T))
    BY DEF TamperingDetected
  <2>1. ASSUME NEW m \in 0..MaxEvents, T \in [1..m -> AllEvents]
        PROVE  \E n \in 1..epoch_id :
                 Len(T) <= Len(EventsOf(n)) /\ T = SubSeq(EventsOf(n), 1, Len(T))
    <3>1. m \in Nat
      BY BoundsAssumption
    <3> QED BY <2>1, <3>1, MixtureDetected
  <2>2. ASSUME NEW n \in 1..epoch_id, T \in Altered(n) PROVE FALSE
    BY <2>2, AlterationDetected
  <2> QED BY <2>1, <2>2, TamperedCases
<1> QED BY <1>1, HistoryInvariance, PTL

\* With a checkpoint nothing is accepted but the events it was taken of, whatever
\* is presented, also what was made with the key: each hash determines its event,
\* and that the one before.
LEMMA CheckpointPins ==
  ASSUME IInv, History, NEW c \in checkpoints,
         NEW T, IsSeq(T), \A i \in 1..Len(T) : IsEvent(T[i]), VerifyAgainstCheckpoint(T, c)
  PROVE  T = SubSeq(EventsOf(c.epoch), 1, c.last_sequence)
<1> DEFINE E == EventsOf(c.epoch)
           n == Len(T)
<1>1. c.epoch \in 1..epoch_id /\ CheckpointOf(c, E)
  BY DEF History, CheckpointsPast
<1>2. /\ ChainOf(E, c.epoch) /\ IsSeq(E) /\ Len(E) \in Nat
      /\ c.last_sequence \in 0..Len(E)
  BY <1>1, EpochShape DEF CheckpointOf
<1>3. n \in Nat /\ DOMAIN T = 1..n /\ VerifySnapshot(T) /\ EndsAt(T, c)
  BY SeqShape DEF VerifyAgainstCheckpoint
<1> HIDE DEF E
<1>4. n = c.last_sequence
  <2>1. CASE n = 0
    BY <2>1, EmptyPrefix, <1>3 DEF EndsAt
  <2>2. CASE n # 0
    <3>1. n \in 1..n /\ T # <<>>
      BY <1>3, <2>2, EmptyIsSeq
    <3>2. T[n].sequence = n /\ T[n].sequence = c.last_sequence
      BY <1>3, <3>1 DEF VerifySnapshot, EndsAt
    <3> QED BY <3>2
  <2> QED BY <2>1, <2>2
<1>5. ASSUME NEW i \in 1..n, T[i].hash = E[i].hash
      PROVE  T[i] = E[i]
  <2>1. i \in 1..Len(E)
    BY <1>2, <1>3, <1>4
  <2>2. IsEvent(E[i]) /\ Authentic(E[i])
    BY <1>2, <2>1 DEF ChainOf
  <2>3. IsEvent(T[i]) /\ Authentic(T[i])
    BY <1>3 DEF VerifySnapshot
  <2> QED BY <1>5, <2>2, <2>3, HashPinsEvent
<1>6. ASSUME n > 0 PROVE T[n] = E[n]
  <2>1. n \in 1..n /\ T # <<>>
    BY <1>3, <1>6, EmptyIsSeq
  <2>2. T[n].hash = c.head
    BY <2>1, <1>3 DEF EndsAt
  <2>3. E[n].hash = c.head
    BY <1>1, <1>4, <1>6 DEF CheckpointOf
  <2> QED BY <1>5, <2>1, <2>2, <2>3
<1>7. ASSUME NEW i \in 2..n, T[i] = E[i] PROVE T[i - 1] = E[i - 1]
  <2>1. i \in 1..n /\ i # 1 /\ i - 1 \in 1..n /\ i \in 1..Len(E)
    BY <1>2, <1>3, <1>4
  <2>2. Follows(T, i) /\ Follows(E, i)
    BY <1>2, <1>3, <2>1 DEF VerifySnapshot, ChainOf
  <2>3. T[i - 1].hash = E[i - 1].hash
    BY <1>7, <2>1, <2>2 DEF Follows
  <2> QED BY <1>5, <2>1, <2>3
<1> DEFINE D == {k \in Nat : k < n /\ T[n - k] # E[n - k]}
<1>8. D = {}
  <2> SUFFICES ASSUME D # {} PROVE FALSE
    OBVIOUS
  <2>1. D \subseteq Nat
    OBVIOUS
  <2>2. PICK k \in D : \A h \in D : ~(<<h, k>> \in OpToRel(<, Nat))
    <3> HIDE DEF D
    <3> QED BY <2>1, WFMin, NatLessThanWellFounded
  <2>3. k \in Nat /\ k < n /\ T[n - k] # E[n - k]
    BY <2>2
  <2>4. \A h \in D : ~(h < k)
    BY <2>1, <2>2 DEF OpToRel
  <2>5. CASE k = 0
    <3>1. n - k = n /\ n > 0
      BY <1>3, <2>3, <2>5
    <3> QED BY <1>6, <2>3, <3>1
  <2>6. CASE k # 0
    <3>1. /\ k - 1 \in Nat /\ k - 1 < k /\ k - 1 < n
          /\ n - (k - 1) \in 2..n /\ (n - (k - 1)) - 1 = n - k
      BY <1>3, <2>3, <2>6
    <3>2. T[n - (k - 1)] = E[n - (k - 1)]
      BY <2>4, <3>1
    <3>3. T[(n - (k - 1)) - 1] = E[(n - (k - 1)) - 1]
      BY <1>7, <3>1, <3>2
    <3> QED BY <2>3, <3>1, <3>3
  <2> QED BY <2>5, <2>6
<1>9. \A i \in 1..n : T[i] = E[i]
  <2> SUFFICES ASSUME NEW i \in 1..n PROVE T[i] = E[i]
    OBVIOUS
  <2>1. n - i \in Nat /\ n - i < n /\ n - (n - i) = i
    BY <1>3
  <2> QED BY <1>8, <2>1
<1>10. n <= Len(E)
  BY <1>2, <1>4
<1>11. T = SubSeq(E, 1, n)
  BY <1>2, <1>9, <1>10, Prefix
<1> QED BY <1>4, <1>11 DEF E

\* A checkpoint pins the chain: any sequence of events that verifies against it,
\* made by whomever and of whatever values, is the one it was taken of.
THEOREM CheckpointPinsTheChain ==
  ASSUME NEW CONSTANT T, IsSeq(T), \A i \in 1..Len(T) : IsEvent(T[i])
  PROVE  Spec => [](\A c \in checkpoints : VerifyAgainstCheckpoint(T, c) =>
                       T = SubSeq(EventsOf(c.epoch), 1, c.last_sequence))
<1> DEFINE Pinned == \A c \in checkpoints : VerifyAgainstCheckpoint(T, c) =>
                       T = SubSeq(EventsOf(c.epoch), 1, c.last_sequence)
<1>1. IInv /\ History => Pinned
  BY CheckpointPins
<1> HIDE DEF Pinned
<1>2. Spec => []Pinned
  BY <1>1, HistoryInvariance, PTL
<1> QED BY <1>2 DEF Pinned

\* Truncation of the tail is detected too.
THEOREM TruncationDetectedCorrect == Spec => []TruncationDetected
<1>1. IInv /\ History => TruncationDetected
  <2> SUFFICES ASSUME IInv, History, NEW c \in checkpoints, NEW T \in Tampered,
                      VerifyAgainstCheckpoint(T, c)
               PROVE  T = SubSeq(EventsOf(c.epoch), 1, c.last_sequence)
    BY DEF TruncationDetected
  <2>1. VerifySnapshot(T)
    BY DEF VerifyAgainstCheckpoint
  <2>2. ASSUME NEW m \in 0..MaxEvents, T \in [1..m -> AllEvents]
        PROVE  IsSeq(T) /\ \A i \in 1..Len(T) : IsEvent(T[i])
    <3>1. m \in Nat
      BY BoundsAssumption
    <3> QED BY <2>1, <2>2, <3>1, MixtureDetected
  <2>3. ASSUME NEW n \in 1..epoch_id, T \in Altered(n) PROVE FALSE
    BY <2>1, <2>3, AlterationDetected
  <2>4. IsSeq(T) /\ \A i \in 1..Len(T) : IsEvent(T[i])
    BY <2>2, <2>3, TamperedCases
  <2> QED BY <2>4, CheckpointPins
<1> QED BY <1>1, HistoryInvariance, PTL

=============================================================================
