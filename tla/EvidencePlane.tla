--------------------------- MODULE EvidencePlane ---------------------------
(***************************************************************************)
(* The evidence plane of evidence.rs: a hash chain of signed events in     *)
(* memory, exported to a sink that may fail, with signed checkpoints and   *)
(* restarts. One mutex guards the plane and every operation holds it from  *)
(* beginning to end, the call of the sink included, so each is one action. *)
(* A restart loses the plane: what remains is the sink, the receipts that  *)
(* were answered, and the checkpoints the deployment kept. A process may   *)
(* start without a sink, as the server does: then events are in memory     *)
(* only, and no receipt says Delivered.                                    *)
(*                                                                         *)
(* SHA-256 is taken as injective: a hash is what it hashes. A signature is *)
(* the key and what it signs. An epoch id, a UUID, is its number.          *)
(***************************************************************************)
EXTENDS Integers, Sequences, FiniteSets

CONSTANTS
  Payloads,   \* the event types and payloads
  Keys,       \* the signing identities a process may start with
  MaxEvents,  \* bound on the events of an epoch
  MaxEpochs,  \* bound on the epochs
  MaxSink,    \* bound on the writes the sink keeps
  MaxCheckpoints   \* bound on the checkpoints taken

ASSUME BoundsAssumption ==
  {MaxEvents, MaxSink, MaxCheckpoints} \subseteq Nat /\ MaxEpochs \in Nat \ {0}

VARIABLES
  epoch_id, epoch_parent_hash, head_hash, next_sequence, events, pending_sink,
  signer,       \* the key of the CryptoEngine
  has_sink,     \* the plane was given a sink
  sink,         \* external: what the sink has stored
  checkpoints,  \* external: the checkpoints taken
  receipts,     \* history: what append answered
  ended         \* history: the events of the epochs that are over

plane == <<epoch_id, epoch_parent_hash, head_hash, next_sequence, events, pending_sink, signer,
           has_sink>>
vars  == <<plane, sink, checkpoints, receipts, ended>>

-----------------------------------------------------------------------------
(* Hashes and signatures.                                                  *)

NoParent == <<"none">>

Sign(key, hash) == <<key, hash>>

GenesisHash(epoch, key) == <<"GENESIS", epoch, key>>

EventHash(e) == <<"EVENT", e.epoch, e.parent, e.sequence, e.payload, e.previous, e.signer>>

FirstParent(epoch, parent, key) ==
  IF parent = NoParent THEN GenesisHash(epoch, key) ELSE parent

CheckpointHash(c) == <<"CHECKPOINT", c.epoch, c.last_sequence, c.head, c.signer>>

CheckpointVerifies(c) == c.signature = Sign(c.signer, CheckpointHash(c))

-----------------------------------------------------------------------------
(* verify_snapshot and verify_snapshot_against_checkpoint accept.          *)

\* The event carries the hash of the one before, the first that of the parent.
Follows(T, i) ==
  T[i].previous = IF i = 1 THEN FirstParent(T[1].epoch, T[1].parent, T[1].signer)
                  ELSE T[i - 1].hash

\* Variant with a fault: a hash is believed, not computed anew.
Authentic_TrustsHash(e) == e.signature = Sign(e.signer, e.hash)

Authentic(e) == e.hash = EventHash(e) /\ e.signature = Sign(e.signer, e.hash)

VerifySnapshot(T) ==
  \A i \in DOMAIN T :
    /\ T[i].epoch = T[1].epoch /\ T[i].parent = T[1].parent
    /\ T[i].signer = T[1].signer
    /\ T[i].sequence = i /\ Follows(T, i) /\ Authentic(T[i])

\* Variant with a fault: a snapshot that is shorter than the checkpoint is accepted.
EndsAt_OrBefore(T, c) ==
  T # <<>> => T[Len(T)].epoch = c.epoch /\ T[Len(T)].sequence <= c.last_sequence

\* The last event is the one the checkpoint was taken at.
EndsAt(T, c) ==
  IF T = <<>> THEN c.last_sequence = 0
  ELSE LET last == T[Len(T)] IN
       /\ last.epoch = c.epoch /\ last.signer = c.signer
       /\ last.sequence = c.last_sequence /\ last.hash = c.head

VerifyAgainstCheckpoint(T, c) ==
  CheckpointVerifies(c) /\ VerifySnapshot(T) /\ EndsAt(T, c)

-----------------------------------------------------------------------------
(* append                                                                  *)

\* Variant with a fault: the event is chained to the parent of the epoch, not to the head.
PreviousHash_Parent == FirstParent(epoch_id, epoch_parent_hash, signer)

PreviousHash == head_hash

NewEvent(p) ==
  LET e == [epoch |-> epoch_id, parent |-> epoch_parent_hash, sequence |-> next_sequence,
            payload |-> p, previous |-> PreviousHash, signer |-> signer]
  IN [epoch |-> e.epoch, parent |-> e.parent, sequence |-> e.sequence, payload |-> e.payload,
      previous |-> e.previous, signer |-> e.signer,
      hash |-> EventHash(e), signature |-> Sign(signer, EventHash(e))]

\* What a write to the sink can come to: it is stored and confirmed, refused,
\* or stored though the caller sees an error.
WriteOutcomes == {"ok", "failed", "unconfirmed"}

Stored(S, e, outcome) == IF outcome = "failed" THEN S ELSE Append(S, e)

\* Variant with a fault: the sink is tried though earlier events wait.
SinkIsTried_Always == has_sink

SinkIsTried == has_sink /\ pending_sink = <<>>

\* Variant with a fault: the sequence number is not advanced.
Advanced_Not(sequence) == sequence

Advanced(sequence) == sequence + 1

\* The chain is committed first. Behind a deferred event the sink is not tried, and
\* an event waits only for a sink there is.
AppendEvent(p) ==
  LET e == NewEvent(p) IN
  /\ Len(events) < MaxEvents
  /\ events' = Append(events, e)
  /\ head_hash' = e.hash
  /\ next_sequence' = Advanced(next_sequence)
  /\ \E outcome \in WriteOutcomes :
       LET delivered == SinkIsTried /\ outcome = "ok" IN
       /\ sink' = IF SinkIsTried THEN Stored(sink, e, outcome) ELSE sink
       /\ Len(sink') <= MaxSink
       /\ pending_sink' = IF has_sink /\ ~delivered THEN Append(pending_sink, e) ELSE pending_sink
       /\ receipts' = receipts \cup
            {[epoch |-> epoch_id, sequence |-> e.sequence, hash |-> e.hash,
              delivered |-> delivered]}
  /\ UNCHANGED <<epoch_id, epoch_parent_hash, signer, has_sink, checkpoints, ended>>

-----------------------------------------------------------------------------
(* flush_pending: the front is written until the queue is empty or a write *)
(* fails, and leaves the queue when its write is confirmed.                *)

\* Variant with a fault: the event whose write failed leaves the queue too.
Unwritten_PopsFailed(n) == SubSeq(pending_sink, n + 2, Len(pending_sink))

\* What stays queued when the first n writes were confirmed.
Unwritten(n) == SubSeq(pending_sink, n + 1, Len(pending_sink))

FlushPending ==
  /\ has_sink /\ pending_sink # <<>>
  /\ \E n \in 0..Len(pending_sink), last \in WriteOutcomes :
       LET written == sink \o SubSeq(pending_sink, 1, n) IN
       /\ (last = "ok") <=> (n = Len(pending_sink))
       /\ sink' = IF last = "ok" THEN written
                  ELSE Stored(written, pending_sink[n + 1], last)
       /\ Len(sink') <= MaxSink
       /\ pending_sink' = Unwritten(n)
  /\ UNCHANGED <<epoch_id, epoch_parent_hash, head_hash, next_sequence, events, signer,
                 has_sink, checkpoints, receipts, ended>>

-----------------------------------------------------------------------------
(* checkpoint                                                              *)

\* Variant with a fault: the sequence is the next one, not the last.
LastSequence_Next == next_sequence

LastSequence == next_sequence - 1

NewCheckpoint ==
  LET c == [epoch |-> epoch_id, last_sequence |-> LastSequence, head |-> head_hash,
            signer |-> signer]
  IN [epoch |-> c.epoch, last_sequence |-> c.last_sequence, head |-> c.head,
      signer |-> c.signer, signature |-> Sign(signer, CheckpointHash(c))]

Checkpoint ==
  /\ Cardinality(checkpoints) < MaxCheckpoints
  /\ checkpoints' = checkpoints \cup {NewCheckpoint}
  /\ UNCHANGED <<plane, sink, receipts, ended>>

-----------------------------------------------------------------------------
(* The process stops, at any moment, and another starts.                   *)

Start(key, parent) ==
  /\ epoch_id < MaxEpochs
  /\ epoch_id' = epoch_id + 1
  /\ epoch_parent_hash' = parent
  /\ head_hash' = FirstParent(epoch_id + 1, parent, key)
  /\ next_sequence' = 1
  /\ events' = <<>>
  /\ pending_sink' = <<>>
  /\ signer' = key
  /\ has_sink' \in BOOLEAN
  /\ ended' = Append(ended, events)
  /\ UNCHANGED <<sink, checkpoints, receipts>>

\* new: an epoch that claims no continuity.
RestartNew(key) == Start(key, NoParent)

\* from_checkpoint: the checkpoint must verify under the process's own key.
RestartFromCheckpoint(key, c) ==
  /\ CheckpointVerifies(c)
  /\ c.signer = key
  /\ Start(key, c.head)

-----------------------------------------------------------------------------
Init ==
  /\ epoch_id = 1
  /\ epoch_parent_hash = NoParent
  /\ signer \in Keys /\ has_sink \in BOOLEAN
  /\ head_hash = GenesisHash(1, signer)
  /\ next_sequence = 1
  /\ events = <<>> /\ pending_sink = <<>>
  /\ sink = <<>> /\ checkpoints = {} /\ receipts = {} /\ ended = <<>>

Next ==
  \/ \E p \in Payloads : AppendEvent(p)
  \/ FlushPending
  \/ Checkpoint
  \/ \E k \in Keys : RestartNew(k)
  \/ \E k \in Keys, c \in checkpoints : RestartFromCheckpoint(k, c)

Spec == Init /\ [][Next]_vars

-----------------------------------------------------------------------------
EventsOf(epoch) == IF epoch = epoch_id THEN events ELSE ended[epoch]

\* The shape of the plane; the next sequence number is one more than the number
\* of events.
TypeOK ==
  /\ epoch_id \in 1..MaxEpochs
  /\ Len(ended) = epoch_id - 1
  /\ signer \in Keys /\ has_sink \in BOOLEAN
  /\ next_sequence \in 1..(MaxEvents + 1)
  /\ Len(events) = next_sequence - 1
  /\ Len(sink) <= MaxSink
  /\ \A c \in checkpoints : c.epoch \in 1..epoch_id /\ c.last_sequence \in 0..MaxEvents

-----------------------------------------------------------------------------
(* The chain.                                                              *)

\* Every snapshot the plane hands out verifies, and the head, the sequence and
\* the events agree, whatever was deferred, flushed or restarted.
SnapshotVerifies ==
  /\ VerifySnapshot(events)
  /\ next_sequence = Len(events) + 1
  /\ head_hash = IF events = <<>> THEN FirstParent(epoch_id, epoch_parent_hash, signer)
                 ELSE events[Len(events)].hash

\* A checkpoint verifies exactly the events there were when it was taken, also
\* after the epoch went on, and after it ended.
CheckpointHonoured ==
  \A c \in checkpoints :
    /\ c.last_sequence <= Len(EventsOf(c.epoch))
    /\ VerifyAgainstCheckpoint(SubSeq(EventsOf(c.epoch), 1, c.last_sequence), c)

\* What somebody without the key can make of the events of all epochs: any
\* sequence of them, and the events of an epoch with one altered, its hash
\* computed anew or not.
AllEvents == UNION {{EventsOf(n)[i] : i \in DOMAIN EventsOf(n)} : n \in 1..epoch_id}

Rehashed(e) == [e EXCEPT !.hash = EventHash(e)]

Alterations(e) ==
  LET f == {[e EXCEPT !.payload = p] : p \in Payloads \ {e.payload}} \cup
           {[e EXCEPT !.parent = NoParent], [e EXCEPT !.sequence = @ + 1],
            [e EXCEPT !.previous = e.parent]}
  IN (f \cup {Rehashed(g) : g \in f}) \ {e}

Altered(n) ==
  UNION {{[EventsOf(n) EXCEPT ![i] = a] : a \in Alterations(EventsOf(n)[i])} :
           i \in DOMAIN EventsOf(n)}

Tampered ==
  (UNION {[1..n -> AllEvents] : n \in 0..MaxEvents})
  \cup (UNION {Altered(n) : n \in 1..epoch_id})

\* EVIDENCE_PLANE.md:19: verify_snapshot detects mutation, interior deletion,
\* reordering, parent substitution, mixed epochs and mixed signers; what it
\* accepts is the events of one epoch, from the first on.
TamperingDetected ==
  \A T \in Tampered : VerifySnapshot(T) =>
    \E n \in 1..epoch_id :
      Len(T) <= Len(EventsOf(n)) /\ T = SubSeq(EventsOf(n), 1, Len(T))

\* With a checkpoint nothing but the events it was taken at is accepted, so
\* truncation of the tail is detected too.
TruncationDetected ==
  \A c \in checkpoints : \A T \in Tampered :
    VerifyAgainstCheckpoint(T, c) => T = SubSeq(EventsOf(c.epoch), 1, c.last_sequence)

-----------------------------------------------------------------------------
(* The sink.                                                               *)

\* The queue is the tail of the events, and what is not in it is in the sink:
\* a failing sink loses no event of a running process. Without a sink nothing waits.
NothingLost ==
  LET confirmed == Len(events) - Len(pending_sink) IN
  IF has_sink
  THEN /\ confirmed >= 0
       /\ pending_sink = SubSeq(events, confirmed + 1, Len(events))
       /\ \A i \in 1..confirmed : \E k \in DOMAIN sink : sink[k] = events[i]
  ELSE pending_sink = <<>>

\* The sink never observes reordering or a gap: each write of an epoch repeats
\* the one before or is the next event, though a write that was reported as
\* failed is retried.
SinkInOrder ==
  \A k \in DOMAIN sink :
    LET before == {i \in 1..(k - 1) : sink[i].epoch = sink[k].epoch} IN
    IF before = {} THEN sink[k].sequence = 1
    ELSE LET j == CHOOSE i \in before : \A h \in before : h <= i IN
         sink[k].sequence \in {sink[j].sequence, sink[j].sequence + 1}

\* A receipt that says Delivered is never wrong, whenever it is checked, and
\* each receipt names its own event: no two share a place in the chain.
ReceiptsTruthful ==
  /\ \A r \in receipts : r.delivered => \E k \in DOMAIN sink : sink[k].hash = r.hash
  /\ \A r, q \in receipts : r.epoch = q.epoch /\ r.sequence = q.sequence => r = q
=============================================================================
