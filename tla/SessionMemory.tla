--------------------------- MODULE SessionMemory ---------------------------
(***************************************************************************)
(* The tactical memory of one session, SessionMemory in session_memory.rs: *)
(* every turn that the pipeline takes in adds its threat to an accumulator *)
(* that decays, and the accumulator decides how tight the thresholds of    *)
(* the Arbiter get. Threats are in thousandths and confidences in percent; *)
(* the code's f32 products are rounded down here. The session is ended by  *)
(* removing the memory, so a memory only ever ingests.                     *)
(***************************************************************************)
EXTENDS Integers, SequencesExt

CONSTANTS
  Signals,       \* the highest signal of a turn: severity, confidence, amplifier
  Classes,       \* classifications of a payload that occur
  MaxRetained,   \* MAX_RETAINED_TURNS
  Window,        \* turns the trajectory looks at
  MaxIngests     \* bound on the turns of a session

\* compute_trajectory asks for 5 turns of a history of 20.
ASSUME WindowAssumption == MaxRetained \in Nat /\ MaxIngests \in Nat /\ Window \in 2..MaxRetained

\* Amplifiers only add to a threat.
ASSUME SignalsAssumption ==
  Signals \subseteq [severity : {"None", "Low", "Medium", "High", "Critical"},
                    confidence : 0..100, amplifier : Nat]

RequestClassification ==
  {"Benign", "Informational", "Boundary", "Escalation", "AuthorityClaim", "Extraction",
   "Obfuscated"}

\* What the history keeps of a turn.
TurnRecord == [confidence : 0..100, class : RequestClassification]

ASSUME ClassesAssumption == Classes \subseteq RequestClassification

VARIABLES
  mem,      \* the SessionMemory
  history   \* history: what every turn brought, none dropped

sessionVars == <<mem, history>>

MemoryState == {"Clear", "Watching", "Elevated", "Escalated", "Locked"}

\* MemoryConfig::default.
watching_threshold == 800
elevated_threshold == 1500
escalated_threshold == 2500
locked_threshold == 4000
velocity_trigger == 150
boundary_probe_limit == 3

\* Variant with a fault: half of the threat is gone after a turn.
decayed_Halved(threat) == threat \div 2

\* decay_factor
decayed(threat) == (threat * 95) \div 100

NewSession ==
  [turns |-> <<>>, turn_count |-> 0, cumulative_threat |-> 0, escalation_velocity |-> 0,
   boundary_probes |-> 0, authority_claims |-> 0, extraction_attempts |-> 0,
   obfuscation_count |-> 0, memory_state |-> "Clear", escalated |-> FALSE]

-----------------------------------------------------------------------------
(* Pieces of ingest_signal.                                                *)

severity_multiplier(severity) ==
  CASE severity = "None" -> 0 [] severity = "Low" -> 30 [] severity = "Medium" -> 60
    [] severity = "High" -> 100 [] severity = "Critical" -> 150

\* Variant with a fault: the newest turns are dropped.
Retained_Oldest(turns) ==
  IF Len(turns) > MaxRetained THEN SubSeq(turns, 1, MaxRetained) ELSE turns

Retained(turns) ==
  IF Len(turns) > MaxRetained THEN SubSeq(turns, Len(turns) - MaxRetained + 1, Len(turns)) ELSE turns

Counted(m, class, name, count) == count + (IF class = name THEN 1 ELSE 0)

\* The threat of one turn: its own signal, and what the patterns seen add.
Weighted(signal, class, probes, extractions) ==
    (signal.confidence * severity_multiplier(signal.severity)) \div 10
  + (IF probes > boundary_probe_limit THEN 100 * (probes - boundary_probe_limit) ELSE 0)
  + (IF class = "AuthorityClaim" THEN 200 ELSE 0)
  + (IF extractions > 1 THEN 150 * extractions ELSE 0)

ByThreshold(threat) ==
  CASE threat >= locked_threshold -> "Locked"
    [] threat \in escalated_threshold..(locked_threshold - 1) -> "Escalated"
    [] threat \in elevated_threshold..(escalated_threshold - 1) -> "Elevated"
    [] threat \in watching_threshold..(elevated_threshold - 1) -> "Watching"
    [] OTHER -> "Clear"

\* Variant with a fault: velocity decides whatever the state is.
compute_state_AnyState(state, threat, velocity, count) ==
  IF velocity > velocity_trigger /\ count >= 3 THEN "Elevated" ELSE ByThreshold(threat)

\* Velocity alone elevates a clear session, before the thresholds are consulted.
compute_state(state, threat, velocity, count) ==
  IF velocity > velocity_trigger /\ count >= 3 /\ state = "Clear" THEN "Elevated"
  ELSE ByThreshold(threat)

\* compute_trajectory: the least-squares slope of the last confidences, as a
\* fraction; a single turn has none.
Recent(turns) ==
  SubSeq(turns, IF Len(turns) > Window THEN Len(turns) - Window + 1 ELSE 1, Len(turns))

SlopeOf(recent) ==
  LET n      == Len(recent)
      sum_x  == (n * (n - 1)) \div 2
      sum_xx == ((n - 1) * n * (2 * n - 1)) \div 6
      sum_y  == FoldLeftDomain(LAMBDA acc, i : acc + recent[i].confidence, 0, recent)
      sum_xy == FoldLeftDomain(LAMBDA acc, i : acc + (i - 1) * recent[i].confidence, 0, recent)
  IN IF n < 2 THEN [over |-> 0, under |-> 1]
     ELSE [over |-> n * sum_xy - sum_x * sum_y, under |-> n * sum_xx - sum_x * sum_x]

Slope(turns) == SlopeOf(Recent(turns))

\* compute_behavior_hash: a hash is what it hashes.
behavior_hash(m) == [i \in DOMAIN m.turns |-> m.turns[i].class]

-----------------------------------------------------------------------------
\* Variant with a fault: the flag follows the state.
Flagged_Follows(m, state) == state \in {"Escalated", "Locked"}

Flagged(m, state) == m.escalated \/ state \in {"Escalated", "Locked"}

ingest_signal(m, signal, class) ==
  LET count       == m.turn_count + 1
      turn        == [confidence |-> signal.confidence, class |-> class]
      probes      == Counted(m, class, "Boundary", m.boundary_probes)
      extractions == Counted(m, class, "Extraction", m.extraction_attempts)
      weighted    == Weighted(signal, class, probes, extractions)
      threat      == decayed(m.cumulative_threat) + weighted + signal.amplifier
      velocity    == IF count > 1 THEN threat \div count ELSE weighted
      state       == compute_state(m.memory_state, threat, velocity, count)
  IN [turns |-> Retained(Append(m.turns, turn)), turn_count |-> count,
      cumulative_threat |-> threat, escalation_velocity |-> velocity,
      boundary_probes |-> probes, extraction_attempts |-> extractions,
      authority_claims |-> Counted(m, class, "AuthorityClaim", m.authority_claims),
      obfuscation_count |-> Counted(m, class, "Obfuscated", m.obfuscation_count),
      memory_state |-> state, escalated |-> Flagged(m, state)]

\* init_session_memory starts a session in the state strategic memory advises.
SessionInit ==
  /\ \E advice \in MemoryState \ {"Locked"} : mem = [NewSession EXCEPT !.memory_state = advice]
  /\ history = <<>>

Ingest(signal, class) ==
  /\ mem.turn_count < MaxIngests
  /\ mem' = ingest_signal(mem, signal, class)
  /\ history' = Append(history, [confidence |-> signal.confidence, class |-> class])

SessionNext == \E signal \in Signals, class \in Classes : Ingest(signal, class)

SessionSpec == SessionInit /\ [][SessionNext]_sessionVars

-----------------------------------------------------------------------------
\* The shape of the memory. The history of turns is windowed, the counters are not.
SessionTypeOK ==
  /\ mem.memory_state \in MemoryState /\ mem.escalated \in BOOLEAN
  /\ mem.turn_count = Len(history) /\ mem.cumulative_threat \in Nat
  /\ mem.turns \in Seq(TurnRecord) /\ Len(mem.turns) <= MaxRetained

\* The pattern counters, which the threat and the fingerprint are made of, count the
\* whole session.
CountersCoverSession ==
  LET Seen(class) == Cardinality({i \in DOMAIN history : history[i].class = class}) IN
  /\ mem.boundary_probes = Seen("Boundary") /\ mem.extraction_attempts = Seen("Extraction")
  /\ mem.authority_claims = Seen("AuthorityClaim") /\ mem.obfuscation_count = Seen("Obfuscated")

\* The trajectory is what it would be if no turn were dropped.
TrajectoryIgnoresWindow == Slope(mem.turns) = Slope(history)

\* The behavior hash by which campaigns are recognized is that of the last turns.
HashIsOfLastTurns ==
  \A i \in DOMAIN mem.turns :
    behavior_hash(mem)[i] = history[Len(history) - Len(mem.turns) + i].class

\* session_memory.rs:22 "turn_count ... is NOT affected - only the retained
\* TurnRecord detail is windowed": of what counts, trajectory and hash say of a
\* session nothing is lost by dropping turns.
WindowLosesNothing == CountersCoverSession /\ TrajectoryIgnoresWindow /\ HashIsOfLastTurns

\* A session that ever had to force a checkpoint is exported as escalated,
\* however quiet it is by the time it ends.
EscalationRemembered ==
  [][/\ mem.memory_state \in {"Escalated", "Locked"} /\ mem.turn_count > 0 => mem.escalated'
     /\ mem.escalated => mem.escalated']_mem

\* A locked memory is at least Escalated after the next turn, whatever that is: no
\* single turn takes a session from "block everything" to below a checkpoint.
LockReleasesSlowly ==
  [][mem.memory_state = "Locked" => mem'.memory_state \in {"Escalated", "Locked"}]_mem

\* Velocity hides a threshold that is crossed for one turn only: the state that was
\* too low is followed by the one the thresholds call for.
HiddenForOneTurn ==
  [][mem.memory_state # ByThreshold(mem.cumulative_threat) /\ mem.turn_count > 0 =>
       mem'.memory_state = ByThreshold(mem'.cumulative_threat)]_mem

\* What accumulated is neither dropped at once nor hidden for long.
StateFollowsThreat == LockReleasesSlowly /\ HiddenForOneTurn
=============================================================================
