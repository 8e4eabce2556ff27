-------------------------- MODULE StrategicMemory --------------------------
(***************************************************************************)
(* Tier 2 of session_memory.rs, the StrategicMemory of actors, with the    *)
(* way end_session of pipeline.rs feeds it: the fingerprint of a session's *)
(* memory is taken, the actor's profile is updated and re-evaluated, the   *)
(* map of profiles is written to a temporary file that is renamed over the *)
(* snapshot, and the session memory is removed. The session memories and   *)
(* the profiles have a lock each; the second is held from the update to    *)
(* the rename. The process may stop at any moment and is started again     *)
(* from the snapshot. A write or a rename may fail.                        *)
(***************************************************************************)
EXTENDS Integers, SequencesExt

CONSTANTS
  Threads,
  Sessions,
  Actors,
  Hashes,        \* behavior hashes of the sessions
  Durable,       \* whether SENTOW_MEMORY_PATH is set
  MaxTurns,      \* bound on the turns of all sessions
  MaxRestarts    \* bound on the restarts

ASSUME ThreadsAssumption == "none" \notin Threads

ASSUME BoundsAssumption == MaxTurns \in Nat /\ MaxRestarts \in Nat

VARIABLES
  memories,   \* session -> what its fingerprint would be now
  actors,     \* the profiles in memory
  disk, tmp,  \* the snapshot and the temporary file
  writer,     \* the thread that holds the lock of the profiles
  job,        \* what each thread is doing; when idle, what it answered last
  turns, restarts,
  promised,   \* history: the fingerprints whose end was answered persisted, by actor
  intact      \* history: every start so far could read the snapshot there was

vars == <<memories, actors, disk, tmp, writer, job, turns, restarts, promised, intact>>

None == "none"

Empty == [a \in {} |-> None]

\* A file is missing, cut off, or holds a map of profiles.
Missing == [status |-> "missing", map |-> Empty]
Truncated == [status |-> "truncated", map |-> Empty]
Complete(map) == [status |-> "complete", map |-> map]

-----------------------------------------------------------------------------
(* Profiles. The level decides the advice for the actor's next session.    *)

SessionFingerprint ==
  [session_id : Sessions, turn : 1..MaxTurns, behavior_hash : Hashes, escalated : BOOLEAN]

ActorProfile ==
  [total_sessions : Nat, escalated_sessions : Nat, session_fingerprints : Seq(SessionFingerprint),
   campaign_detected : BOOLEAN]

New == [total_sessions |-> 0, escalated_sessions |-> 0, session_fingerprints |-> <<>>,
        campaign_detected |-> FALSE]

\* The same behavior in the last sessions, of which at least two escalated.
Repeated(p) ==
  LET fps    == p.session_fingerprints
      recent == {fps[i].behavior_hash : i \in {k \in DOMAIN fps : k > Len(fps) - 4}} IN
  p.total_sessions >= 3 /\ p.escalated_sessions >= 2 /\ Cardinality(recent) <= 2

\* Variant with a fault: the campaign is what the last sessions say.
evaluate_actor_Forgets(p) == [p EXCEPT !.campaign_detected = Repeated(p)]

evaluate_actor(p) == [p EXCEPT !.campaign_detected = @ \/ Repeated(p)]

escalation_exceeds(p, percent) == p.escalated_sessions * 100 > p.total_sessions * percent

strategic_threat_level(p) ==
  CASE p.campaign_detected -> "Hostile"
    [] ~p.campaign_detected /\ p.total_sessions >= 3 /\ escalation_exceeds(p, 50) -> "Suspicious"
    [] OTHER -> IF p.total_sessions >= 2 /\ escalation_exceeds(p, 25) THEN "Cautious"
                ELSE IF p.total_sessions >= 2 /\ p.escalated_sessions = 0 THEN "Clean" ELSE "Unknown"

recommended_threshold_modifier(p) ==
  CASE strategic_threat_level(p) \in {"Unknown", "Clean"} -> 100
    [] strategic_threat_level(p) = "Cautious" -> 80
    [] strategic_threat_level(p) = "Suspicious" -> 55
    [] strategic_threat_level(p) = "Hostile" -> 30

Added(p, fp) ==
  evaluate_actor([p EXCEPT !.total_sessions = @ + 1,
                           !.escalated_sessions = @ + (IF fp.escalated THEN 1 ELSE 0),
                           !.session_fingerprints = Append(@, fp)])

Profile(map, a) == IF a \in DOMAIN map THEN map[a] ELSE New

Recorded(map, a) == ToSet(Profile(map, a).session_fingerprints)

-----------------------------------------------------------------------------
Idle == [pc |-> "idle"]

\* A turn of the session is taken into its memory (SessionMemory), which is made
\* when there is none; an escalation stays.
Turn(s, escalates, hash) ==
  /\ turns < MaxTurns
  /\ turns' = turns + 1
  /\ LET before == IF s \in DOMAIN memories THEN memories[s].escalated ELSE FALSE IN
     memories' = [q \in DOMAIN memories \cup {s} |->
                    IF q = s THEN [session_id |-> s, turn |-> turns + 1, behavior_hash |-> hash,
                                   escalated |-> before \/ escalates]
                    ELSE memories[q]]
  /\ UNCHANGED <<actors, disk, tmp, writer, job, restarts, promised, intact>>

\* end_session: without a memory there is nothing to persist.
BeginEnd(t, s, a) ==
  /\ job[t] = Idle
  /\ job' = [job EXCEPT ![t] =
               IF s \in DOMAIN memories
               THEN [pc |-> "ingest", session |-> s, actor |-> a, fingerprint |-> {memories[s]},
                     persisted |-> FALSE]
               ELSE [pc |-> "remove", session |-> s, actor |-> a, fingerprint |-> {},
                     persisted |-> FALSE]]
  /\ UNCHANGED <<memories, actors, disk, tmp, writer, turns, restarts, promised, intact>>

\* ingest_session, under the lock; without a path persist has nothing to do.
IngestSession(t) ==
  /\ job[t].pc = "ingest" /\ writer = None
  /\ LET a == job[t].actor IN
     actors' = [b \in DOMAIN actors \cup {a} |->
                  IF b = a THEN Added(Profile(actors, a), CHOOSE fp \in job[t].fingerprint : TRUE) ELSE actors[b]]
  /\ job' = [job EXCEPT ![t].pc = IF Durable THEN "write" ELSE "remove"]
  /\ writer' = IF Durable THEN t ELSE None
  /\ UNCHANGED <<memories, disk, tmp, turns, restarts, promised, intact>>

\* persist gives up: the caller is told that nothing was persisted.
PersistFails(t) ==
  /\ job[t].pc \in {"write", "rename"}
  /\ tmp' \in (IF job[t].pc = "write" THEN {tmp, Truncated} ELSE {tmp})
  /\ job' = [job EXCEPT ![t].pc = "remove"]
  /\ writer' = None
  /\ UNCHANGED <<memories, actors, disk, turns, restarts, promised, intact>>

\* Variant with a fault: the snapshot itself is written, without a temporary file.
Written_InPlace(t) == disk' = Truncated /\ tmp' = Complete(actors)

Written(t) == disk' = disk /\ tmp' = Complete(actors)

WriteTmp(t) ==
  /\ job[t].pc = "write"
  /\ Written(t)
  /\ job' = [job EXCEPT ![t].pc = "rename"]
  /\ UNCHANGED <<memories, actors, writer, turns, restarts, promised, intact>>

Rename(t) ==
  /\ job[t].pc = "rename"
  /\ disk' = tmp
  /\ tmp' = Missing
  /\ job' = [job EXCEPT ![t].pc = "remove", ![t].persisted = TRUE]
  /\ writer' = None
  /\ UNCHANGED <<memories, actors, turns, restarts, promised, intact>>

\* Variant with a fault: that there was a fingerprint is taken for having persisted it.
Answered_Fingerprint(j) == j.fingerprint # {}

Answered(j) == j.persisted

\* The memory is removed whatever became of the snapshot.
RemoveMemory(t) ==
  /\ job[t].pc = "remove"
  /\ LET j == job[t] IN
     /\ memories' = [q \in DOMAIN memories \ {j.session} |-> memories[q]]
     /\ promised' = IF Answered(j) THEN promised \cup ({j.actor} \X j.fingerprint) ELSE promised
  /\ job' = [job EXCEPT ![t] = Idle]
  /\ UNCHANGED <<actors, disk, tmp, writer, turns, restarts, intact>>

\* The process stops, and with_path starts it again: a snapshot that is missing
\* or cannot be read or parsed is an empty start.
Restart ==
  /\ restarts < MaxRestarts
  /\ restarts' = restarts + 1
  /\ memories' = Empty
  /\ \E read \in BOOLEAN :
       /\ actors' = IF Durable /\ read THEN disk.map ELSE Empty
       /\ intact' = (intact /\ (read \/ disk = Missing))
  /\ tmp' \in {tmp} \cup {Truncated : t \in {u \in Threads : job[u].pc = "write"}}
  /\ writer' = None
  /\ job' = [t \in Threads |-> Idle]
  /\ UNCHANGED <<disk, turns, promised>>

-----------------------------------------------------------------------------
Init ==
  /\ memories = Empty /\ actors = Empty
  /\ disk = Missing /\ tmp = Missing /\ writer = None
  /\ job = [t \in Threads |-> Idle]
  /\ turns = 0 /\ restarts = 0
  /\ promised = {} /\ intact = TRUE

Continue(t) ==
  IngestSession(t) \/ WriteTmp(t) \/ PersistFails(t) \/ Rename(t) \/ RemoveMemory(t)

Next ==
  \/ \E t \in Threads : Continue(t)
  \/ \E s \in Sessions, e \in BOOLEAN, h \in Hashes : Turn(s, e, h)
  \/ \E t \in Threads, s \in Sessions, a \in Actors : BeginEnd(t, s, a)
  \/ Restart

Spec == Init /\ [][Next]_vars

-----------------------------------------------------------------------------
\* The shape of the memories, the files and the calls; a profile's counters are those
\* of the fingerprints it keeps, through every restart, and "a crash mid-write cannot
\* leave a truncated snapshot": neither does a failed write.
TypeOK ==
  /\ DOMAIN memories \subseteq Sessions /\ DOMAIN actors \subseteq Actors
  /\ \A s \in DOMAIN memories : memories[s] \in SessionFingerprint
  /\ \A a \in DOMAIN actors : actors[a] \in ActorProfile
  /\ disk # Truncated
  /\ writer \in Threads \cup {None}
  /\ (writer = None) = (\A t \in Threads : job[t].pc \notin {"write", "rename"})
  /\ \A a \in DOMAIN actors :
       LET fps == actors[a].session_fingerprints IN
       /\ actors[a].total_sessions = Len(fps)
       /\ actors[a].escalated_sessions = Cardinality({i \in DOMAIN fps : fps[i].escalated})

\* session_memory.rs:524 "whether the updated profile was durably persisted": a
\* session whose end was answered with persisted is in the snapshot from then on,
\* whichever other sessions end, fail to be written or are cut off by a crash. A start
\* that cannot read the snapshot is excepted: it goes on with an empty map, which the
\* next write puts in the place of the snapshot.
PersistedStays ==
  intact => \A p \in promised : p[2] \in Recorded(disk.map, p[1])

\* An actor once found to run a campaign is Hostile to every later session and gets
\* the tightest thresholds, also after a restart, once that has reached the disk, with
\* the same exception.
CampaignStays ==
  [][\A a \in Actors :
       intact /\ Profile(disk.map, a).campaign_detected =>
         recommended_threshold_modifier(Profile(disk'.map, a)) = 30]_vars

=============================================================================
