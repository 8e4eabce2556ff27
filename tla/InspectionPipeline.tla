------------------------- MODULE InspectionPipeline -------------------------
(***************************************************************************)
(* The inspection pipeline of pipeline.rs: inbound_with_identity and       *)
(* inbound_context_with_identity, which judge a user's turn in the same    *)
(* way (a context has at least one segment, every segment is inspected,    *)
(* and the highest of their signals is processed once), outbound, which    *)
(* judges the model's answer, end_session and operator_reset. A turn       *)
(* passes the layers in order; each reports a signal, the Arbiter turns it *)
(* into the security state of the session, and S3 or S4 ends the turn. An  *)
(* inbound turn also passes govmem's block, the HAAP gate and, at the end, *)
(* the memory floor. The layers look at text: what they report is any      *)
(* member of Signals. The session map of the Arbiter, the session memories *)
(* and OverWatch have a lock each, the first two taken many times in a     *)
(* turn: every acquisition is a step, and other calls run in between. The  *)
(* audit log and the timer of a lockdown are in Arbiter, the accumulator   *)
(* that moves the memory is in SessionMemory, what OverWatch keeps of a    *)
(* session in OverWatch; here it has an entry or none. What govmem records *)
(* of a session in its mode v2 and the grants of the HAAP gate, which no   *)
(* call shown here removes, are left out.                                  *)
(***************************************************************************)
EXTENDS DecisionTable, Sequences

CONSTANTS
  Threads,
  Sessions,
  Kinds,           \* the calls made: inbound, outbound, end, reset
  Signals,         \* what layers report: a severity and a confidence in percent
  Advised,         \* the memory states strategic memory recommends
  BlockThreshold,  \* govmem's block_threshold, in percent
  MaxCalls,        \* bound on the calls begun
  MaxOverlapping   \* the same bound for a call of a session of which some have overlapped

\* valid_block_threshold admits a finite value in [0, 1).
ASSUME BlockAssumption == BlockThreshold \in 0..99

ASSUME SignalsAssumption == Signals \subseteq GovernanceSignal

ASSUME CallsAssumption == MaxCalls \in Nat /\ MaxOverlapping \in 0..MaxCalls

VARIABLES
  session_states,  \* the Arbiter's: session -> state
  memories,        \* session -> memory state
  watched,         \* the sessions of which OverWatch has an entry
  turn,            \* what each thread is doing, or the call that has just ended
  calls,           \* how many calls have begun
  ended,           \* history: sessions ended, and not used in a call since
  overlapped       \* history: sessions of which two calls have overlapped, and no end or reset
                   \* has begun since while no call of the session was under way

vars == <<session_states, memories, watched, turn, calls, ended, overlapped>>

MemoryState == {"Clear", "Watching", "Elevated", "Escalated", "Locked"}

\* evaluate_actor recommends any state but the last.
ASSUME AdvisedAssumption == Advised \subseteq MemoryState \ {"Locked"}

Larger(a, b) == IF a >= b THEN a ELSE b

current_state(s) == IF s \in DOMAIN session_states THEN session_states[s] ELSE 1

With(f, s, x) == [q \in DOMAIN f \cup {s} |-> IF q = s THEN x ELSE f[q]]

Without(f, s) == [q \in DOMAIN f \ {s} |-> f[q]]

-----------------------------------------------------------------------------
(* What the memory state means to the rest.                                *)

threshold_modifier(m) ==
  CASE m = "Clear" -> 100 [] m = "Watching" -> 85 [] m = "Elevated" -> 65
    [] m = "Escalated" -> 40 [] m = "Locked" -> 0

\* What strategic memory advises with the state it recommends.
advised_modifier(m) ==
  CASE m = "Clear" -> 100 [] m = "Watching" -> 80 [] m = "Elevated" -> 55
    [] m = "Escalated" -> 30

\* The pressure that session_drs adds for the memory.
pressure(m) ==
  CASE m = "Clear" -> 0 [] m = "Watching" -> 5 [] m = "Elevated" -> 15
    [] m = "Escalated" -> 25 [] m = "Locked" -> 50

memory_floor(m) ==
  CASE m = "Elevated" -> 2 [] m = "Escalated" -> 3 [] m = "Locked" -> 4 [] OTHER -> 1

\* Variant with a fault: an elevated memory reports less than any threshold.
memory_signal_Low(m) ==
  [severity |-> CASE m \in {"Elevated", "Escalated"} -> "High" [] m = "Locked" -> "Critical",
   confidence |-> CASE m = "Elevated" -> 65 [] m = "Escalated" -> 90 [] m = "Locked" -> 98,
   modifier |-> 100]

\* The signal by which a floor reaches the Arbiter: process, without a modifier.
memory_signal(m) ==
  [severity |-> CASE m \in {"Elevated", "Escalated"} -> "High" [] m = "Locked" -> "Critical",
   confidence |-> CASE m = "Elevated" -> 82 [] m = "Escalated" -> 90 [] m = "Locked" -> 98,
   modifier |-> 100]

\* Where ingest_signal may take the memory: anywhere, except that a threat
\* that was enough to lock decays by a twentieth only (SessionMemory).
Ingested(m) == IF m = "Locked" THEN {"Escalated", "Locked"} ELSE MemoryState

-----------------------------------------------------------------------------
(* A call in progress. layer counts the layers; the fifth of an inbound    *)
(* turn is the session memory. peak and cut are history: the highest state *)
(* a layer of the turn, or the memory floor, has called for, and whether   *)
(* the session was ended or reset during the turn.                         *)

Quiet == [severity |-> "None", confidence |-> 0, modifier |-> 100]

Idle == [pc |-> "idle", kind |-> "none", session |-> "none", layer |-> 0, modifier |-> 100,
         signal |-> Quiet, state |-> 1, result |-> "none", peak |-> 1, cut |-> FALSE]

Inbound(tr) == tr.kind = "inbound"

Layers(kind) == IF kind = "outbound" THEN <<"corridor", "overwatch", "oim", "sentinel">>
                ELSE <<"sentinel", "corridor", "overwatch", "oim", "memory">>

Done(tr, result) == [tr EXCEPT !.pc = "idle", !.result = result, !.signal = Quiet]

enforcement_result(state) ==
  <<"Approved", "Restricted", "Quarantined", "HardLocked">>[state]

\* Every early return of an inbound turn is preceded by the ingestion.
Refused(tr, result) ==
  IF Inbound(tr) THEN [tr EXCEPT !.pc = "ingest", !.result = result, !.signal = Quiet]
  ELSE Done(tr, result)

\* OverWatch evaluates the text first, under a lock of its own; before its signal is
\* processed govmem may block, and after it the HAAP gate is passed.
Onward(tr) ==
  LET next == IF tr.layer < Len(Layers(tr.kind))
              THEN Layers(tr.kind)[tr.layer + 1] ELSE "none" IN
  [tr EXCEPT !.layer = @ + 1, !.signal = Quiet,
             !.pc = CASE next = "overwatch" -> "watch"
                      [] Inbound(tr) /\ next = "oim" -> "drs"
                      [] OTHER -> "inspect"]

\* Variant with a fault: only S4 is a hard block.
check_hard_block_OnlyS4(state) == state = 4

check_hard_block(state) == state \in {3, 4}

\* The layer's signal was answered with a state.
Answered(tr, state) ==
  LET layer == Layers(tr.kind)[tr.layer] IN
  CASE layer = "memory" -> Done(tr, enforcement_result(tr.state))
    [] layer = "oim" /\ Inbound(tr) -> [tr EXCEPT !.pc = "ingest", !.state = state, !.signal = Quiet]
    [] layer = "sentinel" /\ ~Inbound(tr) ->
         Done([tr EXCEPT !.state = state], enforcement_result(state))
    [] OTHER -> IF check_hard_block(state)
                THEN Refused([tr EXCEPT !.state = state], enforcement_result(state))
                ELSE Onward(tr)

-----------------------------------------------------------------------------
\* No other call of the session is under way.
Alone(t, s) == \A u \in Threads \ {t} : turn[u].pc = "idle" \/ turn[u].session # s

\* What is left of the calls that are over is forgotten when one begins.
Begin(t, kind, s, first) ==
  /\ turn[t].pc = "idle"
  /\ kind \in Kinds
  /\ overlapped' = IF ~Alone(t, s) THEN overlapped \cup {s}
                   ELSE IF kind \in {"end", "reset"} THEN overlapped \ {s} ELSE overlapped
  /\ calls < IF s \in overlapped' THEN MaxOverlapping ELSE MaxCalls
  /\ calls' = calls + 1
  /\ turn' = [u \in Threads |->
               CASE u = t -> [first EXCEPT !.kind = kind, !.session = s]
                 [] u # t /\ turn[u].pc = "idle" -> Idle
                 [] OTHER -> turn[u]]
  /\ ended' = ended \ {s}
  /\ UNCHANGED <<session_states, memories, watched>>

\* The modifier is read once, for the whole turn; get_threshold_modifier takes
\* a session without a memory for a clear one.
BeginTurn(t, kind, s) ==
  /\ kind \in {"inbound", "outbound"}
  /\ Begin(t, kind, s,
       IF s \in DOMAIN memories
       THEN [Idle EXCEPT !.pc = "inspect", !.layer = 1, !.modifier = threshold_modifier(memories[s])]
       ELSE [Idle EXCEPT !.pc = IF kind = "outbound" THEN "inspect" ELSE "advise", !.layer = 1])

\* What strategic memory may advise: the state to start in, and the modifier.
advise_session_start ==
  {[initial_state |-> m, threshold_modifier |-> advised_modifier(m)] : m \in Advised}

\* init_session_memory: the advice is taken before the write lock; a memory
\* another call has made meanwhile stays, and the advised modifier is used.
InitSessionMemory(t) ==
  /\ turn[t].pc = "advise"
  /\ \E advice \in advise_session_start :
       /\ memories' = IF turn[t].session \in DOMAIN memories THEN memories
                      ELSE With(memories, turn[t].session, advice.initial_state)
       /\ turn' = [turn EXCEPT ![t] = [@ EXCEPT !.pc = "inspect",
                                                !.modifier = advice.threshold_modifier]]
  /\ UNCHANGED <<session_states, watched, calls, ended, overlapped>>

\* What the layer reports, with the modifier it is processed with.
Reported(tr) ==
  IF Layers(tr.kind)[tr.layer] = "memory" THEN {tr.signal}
  ELSE {[severity |-> sig.severity, confidence |-> sig.confidence, modifier |-> tr.modifier] :
          sig \in Signals}

\* Variant with a fault: an entry that exists is made anew.
Opened_Anew(s) == With(session_states, s, 1)

Opened(s) == With(session_states, s, current_state(s))

\* The layer's signal reaches the Arbiter, which makes the session's entry.
Inspect(t) ==
  /\ turn[t].pc = "inspect"
  /\ LET tr == turn[t] IN
     \E sig \in Reported(tr) :
       /\ turn' = [turn EXCEPT ![t] =
                     [tr EXCEPT !.pc = "decide", !.signal = sig,
                                !.peak = IF is_clean(sig) THEN @ ELSE Larger(@, Warranted(sig))]]
       /\ session_states' = IF sig.modifier = 0 THEN session_states ELSE Opened(tr.session)
  /\ UNCHANGED <<memories, watched, calls, ended, overlapped>>

\* A clean signal is answered with the state there is, any other leads to the
\* higher one of that and what it warrants.
Decide(t) ==
  /\ turn[t].pc = "decide"
  /\ LET tr   == turn[t]
         from == current_state(tr.session)
         to   == determine_new_state(from, tr.signal) IN
     turn' = [turn EXCEPT ![t] =
                CASE is_clean(tr.signal) -> Answered(tr, from)
                  [] ~is_clean(tr.signal) /\ to > from -> [tr EXCEPT !.pc = "write"]
                  [] OTHER -> [tr EXCEPT !.pc = "answer"]]
  /\ UNCHANGED <<session_states, memories, watched, calls, ended, overlapped>>

\* transition writes what the decision was, if the session still has an entry.
Write(t) ==
  /\ turn[t].pc = "write"
  /\ LET s == turn[t].session IN
     session_states' = IF s \in DOMAIN session_states
                       THEN [session_states EXCEPT ![s] = Warranted(turn[t].signal)]
                       ELSE session_states
  /\ turn' = [turn EXCEPT ![t].pc = "answer"]
  /\ UNCHANGED <<memories, watched, calls, ended, overlapped>>

\* The state is read once more; a locked memory answers S4 whatever it is.
Answer(t) ==
  /\ turn[t].pc = "answer"
  /\ turn' = [turn EXCEPT ![t] =
                Answered(@, IF @.signal.modifier = 0 THEN 4 ELSE current_state(@.session))]
  /\ UNCHANGED <<session_states, memories, watched, calls, ended, overlapped>>

-----------------------------------------------------------------------------
\* OverWatch evaluates the text: afterwards it has an entry of the session. The outer
\* lock is held from beginning to end, so a reset of the entry comes before or after.
Watch(t) ==
  /\ turn[t].pc = "watch"
  /\ watched' = watched \cup {turn[t].session}
  /\ turn' = [turn EXCEPT ![t].pc = IF Inbound(turn[t]) THEN "govmem" ELSE "inspect"]
  /\ UNCHANGED <<session_states, memories, calls, ended, overlapped>>

\* govmem's should_block.
should_block(s) ==
  s \in DOMAIN memories /\ 100 - threshold_modifier(memories[s]) > BlockThreshold

GovMem(t) ==
  /\ turn[t].pc = "govmem"
  /\ turn' = [turn EXCEPT ![t] = IF should_block(@.session) THEN Refused(@, "Quarantined")
                                 ELSE [@ EXCEPT !.pc = "inspect"]]
  /\ UNCHANGED <<session_states, memories, watched, calls, ended, overlapped>>

\* session_drs: first the Arbiter's state is read, then the memory.
ReadDrs(t) ==
  /\ turn[t].pc = "drs"
  /\ turn' = [turn EXCEPT ![t] = [@ EXCEPT !.pc = "gate", !.state = current_state(turn[t].session)]]
  /\ UNCHANGED <<session_states, memories, watched, calls, ended, overlapped>>

session_drs(state, s) ==
  LET base == <<0, 45, 75, 100>>[state]
      drs  == base + (IF s \in DOMAIN memories THEN pressure(memories[s]) ELSE 0) IN
  IF drs > 100 THEN 100 ELSE drs

\* evaluate, for executing actions and without a token: blocked from 96 on,
\* gated from 60 on unless the operator has pre-authorized the class.
HaapGate(t) ==
  /\ turn[t].pc = "gate"
  /\ \E preauthorized \in BOOLEAN :
       turn' = [turn EXCEPT ![t] =
         LET drs    == session_drs(@.state, @.session)
             passed == [@ EXCEPT !.state = 1] IN
         CASE drs >= 96 -> Refused(passed, "ConstitutionalBlock")
           [] drs \in 60..95 /\ ~preauthorized -> Refused(passed, "HaapGated")
           [] OTHER -> [passed EXCEPT !.pc = "inspect"]]
  /\ UNCHANGED <<session_states, memories, watched, calls, ended, overlapped>>

-----------------------------------------------------------------------------
\* Variant with a fault: the memory has no say.
apply_memory_floor_Ignored(m, decided) == decided

apply_memory_floor(m, decided) == Larger(memory_floor(m), decided)

\* The memory takes the turn in, if the session still has one. A turn that was
\* refused is over; any other is answered with the state of its last layer
\* raised to the floor of the memory, and a raise is reported to the Arbiter.
Ingest(t) ==
  /\ turn[t].pc = "ingest"
  /\ LET tr == turn[t]
         s  == tr.session
         Judged(state) == IF tr.result = "none" THEN Done(tr, enforcement_result(state))
                          ELSE Done(tr, tr.result) IN
     \/ /\ s \notin DOMAIN memories
        /\ turn' = [turn EXCEPT ![t] = Judged(tr.state)]
        /\ UNCHANGED memories
     \/ /\ s \in DOMAIN memories
        /\ \E m \in Ingested(memories[s]) :
             LET floored == apply_memory_floor(m, tr.state) IN
             /\ memories' = [memories EXCEPT ![s] = m]
             /\ turn' = [turn EXCEPT ![t] =
                           IF tr.result = "none" /\ floored > tr.state
                           THEN [tr EXCEPT !.pc = "inspect", !.layer = @ + 1, !.state = floored,
                                           !.signal = memory_signal(m),
                                           !.peak = Larger(@, memory_floor(m))]
                           ELSE [Judged(floored) EXCEPT !.peak = Larger(@, memory_floor(m))]]
  /\ UNCHANGED <<session_states, watched, calls, ended, overlapped>>

-----------------------------------------------------------------------------
(* end_session and operator_reset, with its authority verified.            *)

BeginEnd(t, s) == Begin(t, "end", s, [Idle EXCEPT !.pc = "remove"])

BeginReset(t, s) == Begin(t, "reset", s, [Idle EXCEPT !.pc = "clear"])

\* The call goes on to next, and cuts into the turns of its session.
Cutting(t, next) ==
  [u \in Threads |->
     IF u = t THEN next
     ELSE [turn[u] EXCEPT !.cut = @ \/ (turn[u].session = turn[t].session /\ turn[u].pc # "idle")]]

\* A reset: the Arbiter clears the state, OverWatch and the memory follow.
ClearState(t) ==
  /\ turn[t].pc = "clear"
  /\ LET s == turn[t].session IN
     session_states' = IF s \in DOMAIN session_states
                       THEN [session_states EXCEPT ![s] = 1] ELSE session_states
  /\ turn' = Cutting(t, [turn[t] EXCEPT !.pc = "unwatch"])
  /\ UNCHANGED <<memories, watched, calls, ended, overlapped>>

\* An end: the memory is removed, the Arbiter and OverWatch follow.
RemoveMemory(t) ==
  /\ turn[t].pc = "remove"
  /\ memories' = Without(memories, turn[t].session)
  /\ turn' = Cutting(t, IF turn[t].kind = "end" THEN [turn[t] EXCEPT !.pc = "forget"]
                        ELSE Done(turn[t], "none"))
  /\ UNCHANGED <<session_states, watched, calls, ended, overlapped>>

\* Variant with a fault: the Arbiter keeps the entry.
Forgotten_Kept(s) == session_states

Forgotten(s) == Without(session_states, s)

ForgetSession(t) ==
  /\ turn[t].pc = "forget"
  /\ session_states' = Forgotten(turn[t].session)
  /\ turn' = Cutting(t, [turn[t] EXCEPT !.pc = "unwatch"])
  /\ UNCHANGED <<memories, watched, calls, ended, overlapped>>

\* OverWatch's reset_session, the last step of an end and the second of a reset.
ResetOverWatch(t) ==
  /\ turn[t].pc = "unwatch"
  /\ LET tr == turn[t] IN
     /\ watched' = watched \ {tr.session}
     /\ IF tr.kind = "end"
        THEN /\ turn' = [turn EXCEPT ![t] = Done(tr, "none")]
             /\ ended' = ended \cup {tr.session}
        ELSE /\ turn' = [turn EXCEPT ![t].pc = "remove"]
             /\ UNCHANGED ended
  /\ UNCHANGED <<session_states, memories, calls, overlapped>>

-----------------------------------------------------------------------------
Init ==
  /\ session_states = [s \in {} |-> 1]
  /\ memories = [s \in {} |-> "Clear"]
  /\ watched = {}
  /\ turn = [t \in Threads |-> Idle]
  /\ calls = 0
  /\ ended = {}
  /\ overlapped = {}

Continue(t) ==
  \/ InitSessionMemory(t) \/ Inspect(t) \/ Decide(t) \/ Write(t)
  \/ Answer(t) \/ Watch(t) \/ GovMem(t) \/ ReadDrs(t) \/ HaapGate(t) \/ Ingest(t)
  \/ ClearState(t) \/ RemoveMemory(t) \/ ForgetSession(t) \/ ResetOverWatch(t)

Next ==
  \/ \E t \in Threads : Continue(t)
  \/ \E t \in Threads, kind \in Kinds, s \in Sessions : BeginTurn(t, kind, s)
  \/ \E t \in Threads, s \in Sessions : BeginEnd(t, s) \/ BeginReset(t, s)

Spec == Init /\ [][Next]_vars
-----------------------------------------------------------------------------
\* The shape of the session map, the memories and the calls; a turn is at a
\* layer of its kind whenever one is being consulted.
TypeOK ==
  /\ DOMAIN session_states \subseteq Sessions /\ DOMAIN memories \subseteq Sessions
  /\ \A s \in DOMAIN session_states : session_states[s] \in SecurityState
  /\ \A s \in DOMAIN memories : memories[s] \in MemoryState
  /\ \A t \in Threads :
       /\ turn[t].pc \in {"inspect", "decide", "write", "answer"} =>
            turn[t].layer \in DOMAIN Layers(turn[t].kind)
       /\ turn[t].pc = "idle" /\ turn[t].kind \in {"inbound", "outbound"} =>
            turn[t].result # "none"
       /\ turn[t].state \in SecurityState /\ turn[t].peak \in SecurityState
  /\ watched \subseteq Sessions /\ ended \subseteq Sessions /\ overlapped \subseteq Sessions
  /\ calls \in 0..MaxCalls

Over(t) == turn[t].pc = "idle"

Released(t) == turn[t].result \in {"Approved", "Restricted"}

\* pipeline.rs:484 "Execution authority is recorded only after every inbound
\* layer, including OIM and the memory floor, finally approves the turn": an
\* approved turn is one in which no layer called for more than S1, and neither
\* did the memory, whatever other turns of the session do meanwhile. A session that
\* is ended or reset during the turn is excepted: the state an earlier layer called
\* for is then gone, and a clean last layer is answered with S1.
ApprovalAccountsForEveryLayer ==
  \A t \in Threads :
    Over(t) /\ Inbound(turn[t]) /\ turn[t].result = "Approved" /\ ~turn[t].cut => turn[t].peak = 1

-----------------------------------------------------------------------------
(* What holds of a session as long as no two calls of it have overlapped,  *)
(* whatever the calls of other sessions do, and again from the next end or *)
(* reset that finds no call of it under way.                               *)

\* The calls of the session have followed one another.
InOrder(t) == turn[t].session \notin overlapped

\* The state a turn is answered with is the session's: the memory floor, which
\* is applied to the answer only, has reached the Arbiter too when the turn is
\* over. It depends on the thresholds: the signal of the floor must meet them.
AnswerIsKept ==
  \A t \in Threads :
    InOrder(t) /\ Over(t) /\ turn[t].result # "none" =>
      turn[t].state <= current_state(turn[t].session)

\* While the calls of a session follow one another none of them meets the constitutional
\* block of the HAAP gate: the hard block has refused S3 and S4 by then, and S2 with the
\* pressure of the heaviest memory stays below the gate's override. A call that overlaps
\* may raise the session between the last hard block and session_drs; then the gate's
\* block is what holds the turn.
NoConstitutionalBlock ==
  \A t \in Threads : InOrder(t) => turn[t].result # "ConstitutionalBlock"

\* pipeline.rs:835 "otherwise Arbiter/OverWatch entries would accumulate forever": of a
\* session that was ended while no other call of it was under way, and not used since,
\* the Arbiter, the session memories and OverWatch have nothing, also when earlier calls
\* of it had overlapped. This is of these three maps only: what else is keyed by the
\* session, govmem's records of mode v2 and the grants of the HAAP gate, an end leaves.
EndClearsItsMaps ==
  (ended \ overlapped) \cap (DOMAIN session_states \cup DOMAIN memories \cup watched) = {}

\* A turn's own memory floor counts at once: a turn whose last ingestion left the
\* memory in a state with a floor is not released above that floor.
FloorBindsItsTurn ==
  \A t \in Threads :
    LET tr == turn[t] IN
    InOrder(t) /\ Over(t) /\ Inbound(tr) /\ Released(t) =>
      /\ tr.session \in DOMAIN memories
      /\ memory_floor(memories[tr.session]) <= IF tr.result = "Approved" THEN 1 ELSE 2

=============================================================================
