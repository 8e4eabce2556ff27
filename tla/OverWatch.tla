------------------------------ MODULE OverWatch ------------------------------
(***************************************************************************)
(* OverWatch of overwatch.rs and the lock the pipeline keeps it under. It  *)
(* has a fingerprint of every session, which evaluate reads and moves in   *)
(* six acquisitions of its inner lock; what each finds is a violation. All *)
(* but the first take the entry for granted (`unwrap`), which the outer    *)
(* lock is there for: evaluate holds it shared from beginning to end,      *)
(* reset_session alone. A call that finds no entry panics, and with it the *)
(* thread. The texts are the constant Payloads: what the patterns find in  *)
(* one. The severity and confidence of the answer follow from its          *)
(* violations, and escalation_events, which nothing reads, is left out.    *)
(***************************************************************************)
EXTENDS Naturals, Sequences, Functions

CONSTANTS
  Callers,          \* the threads that may call
  Nobody,           \* none of them
  Sessions,
  Payloads,
  DriftThreshold,   \* config.drift_threshold, in thousandths
  Q09Threshold,     \* config.q09_threshold
  SuspicionLimit,   \* the 5 of the rule OW-003
  MaxToolCalls      \* MAX_TOOL_CALL_SEQUENCE_LEN

ToolNames == <<"filesystem", "execute", "shell", "eval", "http_get", "http_post",
               "read_file", "write_file">>

\* What a text adds to the drift, in thousandths, the tools it names, whether it
\* is suspicious or in the style of a command, how many of the six Q09 families
\* it belongs to, and the violations found without looking at the session.
Payload == [drift : Nat, tools : SUBSET Range(ToolNames), suspicious : BOOLEAN, cmd : BOOLEAN,
            families : 0..6, stateless : SUBSET {"HALLUCINATION_DETECTED",
            "DATA_POISONING_INDICATOR", "RUNTIME_DOS"}]

\* The tools of one text fit into the window.
ASSUME OverWatchAssumption ==
  /\ Nobody \notin Callers
  /\ Payloads \subseteq Payload
  /\ DriftThreshold \in Nat /\ Q09Threshold \in Nat /\ SuspicionLimit \in Nat
  /\ MaxToolCalls \in Nat /\ MaxToolCalls >= Len(ToolNames)

VARIABLES
  sessions,  \* session -> fingerprint
  writer,    \* who has announced to take the outer lock alone, if anybody
  call,      \* what each caller is doing
  past       \* history: session -> what the evaluations completed since its last reset add up to

ovars == <<sessions, writer, call, past>>

SessionFingerprint ==
  [turn_count |-> 0, drift |-> 0, tools |-> <<>>, SUSPICION |-> 0, CMD_STYLE_INJ |-> 0, Q09 |-> 0]

Nothing == [turns |-> 0, drift |-> 0, suspicious |-> 0, cmd |-> 0, families |-> 0]

NoText == [drift |-> 0, tools |-> {}, suspicious |-> FALSE, cmd |-> FALSE, families |-> 0,
           stateless |-> {}]

\* A caller: its place, its session and text, the drift it has read, what it has
\* found, and past as it was when it began.
Resting == [pc |-> "idle", session |-> "none", payload |-> NoText, drift |-> 0,
            violations |-> {}, before |-> Nothing]

Evaluating(c) == call[c].pc \in {"drift", "tools", "suspicion", "cmd", "q09"}

Bit(b) == IF b THEN 1 ELSE 0

-----------------------------------------------------------------------------
(* evaluate.                                                               *)

\* Variant with a fault: an entry that exists is made anew.
Entered_Anew(s) ==
  [q \in DOMAIN sessions \cup {s} |-> IF q = s THEN SessionFingerprint ELSE sessions[q]]

Entered(s) ==
  [q \in DOMAIN sessions \cup {s} |-> IF q \in DOMAIN sessions THEN sessions[q] ELSE SessionFingerprint]

\* The outer lock is taken shared, unless somebody waits for it alone, and the
\* session gets its entry.
Enter(c) ==
  /\ call[c].pc = "enter"
  /\ writer = Nobody
  /\ sessions' = Entered(call[c].session)
  /\ call' = [call EXCEPT ![c].pc = "drift", ![c].before = past[call[c].session]]
  /\ UNCHANGED <<writer, past>>

\* One acquisition of the inner lock: the fingerprint becomes fp, and what has
\* been found so far and the next place are in ev. Without an entry, a panic.
Acquisition(c, fp, ev) ==
  IF call[c].session \in DOMAIN sessions
  THEN /\ sessions' = [sessions EXCEPT ![call[c].session] = fp]
       /\ call' = [call EXCEPT ![c] = ev]
       /\ UNCHANGED <<writer, past>>
  ELSE /\ call' = [call EXCEPT ![c].pc = "panicked"]
       /\ UNCHANGED <<sessions, writer, past>>

\* From the fourth turn on a drift of more than 0.05 a turn adds half of that.
Drifted(drift, turns) ==
  IF turns > 3 /\ drift > 50 * turns THEN drift + drift \div (2 * turns) ELSE drift

Drift(c) ==
  /\ call[c].pc = "drift"
  /\ LET fp    == sessions[call[c].session]
         turns == fp.turn_count + 1
         drift == Drifted(fp.drift + call[c].payload.drift, turns) IN
     Acquisition(c, [fp EXCEPT !.turn_count = turns, !.drift = drift],
       [call[c] EXCEPT !.pc = "tools", !.drift = drift,
          !.violations = {v \in {"CONVERSATION_DRIFT"} : drift > DriftThreshold}])

Chain(tools) ==
  {"read_file", "write_file"} \subseteq tools /\ tools \cap {"execute", "shell"} # {}

\* The tools that a text names, in the order they are looked for.
Named(p) ==
  LET One(i) == IF ToolNames[i] \in p.tools THEN <<ToolNames[i]>> ELSE <<>> IN
  One(1) \o One(2) \o One(3) \o One(4) \o One(5) \o One(6) \o One(7) \o One(8)

\* The window keeps the latest tools.
Tools(c) ==
  /\ call[c].pc = "tools"
  /\ LET fp     == sessions[call[c].session]
         pushed == fp.tools \o Named(call[c].payload)
         over   == IF Len(pushed) > MaxToolCalls THEN Len(pushed) - MaxToolCalls ELSE 0
         window == SubSeq(pushed, over + 1, Len(pushed)) IN
     Acquisition(c, [fp EXCEPT !.tools = window],
       [call[c] EXCEPT !.pc = "suspicion",
          !.violations = @ \cup {v \in {"TOOL_CHAIN_ESCALATION"} : Chain(Range(window))}])

\* The drift is the one that was read before.
Suspicion(c) ==
  /\ call[c].pc = "suspicion"
  /\ LET fp    == sessions[call[c].session]
         count == fp.SUSPICION + Bit(call[c].payload.suspicious \/ call[c].drift > 200) IN
     Acquisition(c, [fp EXCEPT !.SUSPICION = count],
       [call[c] EXCEPT !.pc = "cmd",
          !.violations = @ \cup {v \in {"MULTI_TURN_INJECTION_CAMPAIGN"} : count > SuspicionLimit}])

Cmd(c) ==
  /\ call[c].pc = "cmd"
  /\ LET fp    == sessions[call[c].session]
         count == fp.CMD_STYLE_INJ + Bit(call[c].payload.cmd) IN
     Acquisition(c, [fp EXCEPT !.CMD_STYLE_INJ = count],
       [call[c] EXCEPT !.pc = "q09",
          !.violations = @ \cup {v \in {"CMD_INJECTION_CAMPAIGN"} : count >= 3}])

\* One to three violations by the total, from the second turn of the session on.
Dialectical(total, turns) ==
  {v \in {"SEMANTIC_DRIFT_DIALECTICAL", "SEMANTIC_DRIFT_Q09_VELOCITY", "SEMANTIC_DRIFT_Q09_CAMPAIGN"} :
     /\ turns >= 2 /\ total > Q09Threshold
     /\ v = "SEMANTIC_DRIFT_Q09_VELOCITY" => total >= 5
     /\ v = "SEMANTIC_DRIFT_Q09_CAMPAIGN" => total >= 7}

Added(sum, p) ==
  [turns |-> sum.turns + 1, drift |-> sum.drift + p.drift, suspicious |-> sum.suspicious + Bit(p.suspicious),
   cmd |-> sum.cmd + Bit(p.cmd), families |-> sum.families + p.families]

\* The last acquisition; the rest looks at the text only, and the outer lock is
\* given back.
Q09(c) ==
  /\ call[c].pc = "q09"
  /\ LET s     == call[c].session
         fp    == sessions[s]
         total == fp.Q09 + call[c].payload.families IN
     IF s \in DOMAIN sessions
     THEN /\ sessions' = [sessions EXCEPT ![s] = [fp EXCEPT !.Q09 = total]]
          /\ call' = [call EXCEPT ![c].pc = "judged",
                        ![c].violations = @ \cup Dialectical(total, fp.turn_count)
                                            \cup call[c].payload.stateless]
          /\ past' = [past EXCEPT ![s] = Added(@, call[c].payload)]
          /\ UNCHANGED writer
     ELSE /\ call' = [call EXCEPT ![c].pc = "panicked"]
          /\ UNCHANGED <<sessions, writer, past>>

-----------------------------------------------------------------------------
(* reset_session, by end_session and operator_reset.                       *)

\* Whoever wants the outer lock alone first keeps new readers out.
AnnounceReset(c) ==
  /\ call[c].pc = "reset"
  /\ writer = Nobody
  /\ writer' = c
  /\ call' = [call EXCEPT ![c].pc = "drain"]
  /\ UNCHANGED <<sessions, past>>

\* Variant with a fault: the session is removed under the shared lock.
Alone_Shared == TRUE

Alone == \A c \in Callers : ~Evaluating(c)

ResetSession(c) ==
  /\ call[c].pc = "drain"
  /\ Alone
  /\ LET s == call[c].session IN
     /\ sessions' = [q \in DOMAIN sessions \ {s} |-> sessions[q]]
     /\ past' = [past EXCEPT ![s] = Nothing]
  /\ writer' = Nobody
  /\ call' = [call EXCEPT ![c].pc = "done"]

-----------------------------------------------------------------------------
OverWatchInit ==
  /\ sessions = [s \in {} |-> SessionFingerprint]
  /\ writer = Nobody
  /\ call = [c \in Callers |-> Resting]
  /\ past = [s \in Sessions |-> Nothing]

OverWatchStep(c) ==
  \/ Enter(c) \/ Drift(c) \/ Tools(c) \/ Suspicion(c) \/ Cmd(c) \/ Q09(c)
  \/ AnnounceReset(c) \/ ResetSession(c)

-----------------------------------------------------------------------------
\* overwatch.rs:78 to :164, `sessions.get_mut(session_id).unwrap()`: the entry an
\* evaluation has made, or found, is there until the evaluation is over, whatever
\* ends or resets the session meanwhile. No handler panics.
EntryStays ==
  \A c \in Callers :
    /\ Evaluating(c) => call[c].session \in DOMAIN sessions
    /\ call[c].pc # "panicked"

\* What the evaluations completed since the last reset, and the text at hand,
\* call for at the least.
Due(sum, p) ==
  LET all == Added(sum, p) IN
  {v \in {"CONVERSATION_DRIFT"} : all.drift > DriftThreshold}
    \cup {v \in {"TOOL_CHAIN_ESCALATION"} : Chain(p.tools)}
    \cup {v \in {"MULTI_TURN_INJECTION_CAMPAIGN"} : all.suspicious > SuspicionLimit}
    \cup {v \in {"CMD_INJECTION_CAMPAIGN"} : all.cmd >= 3}
    \cup Dialectical(all.families, all.turns)
    \cup p.stateless

\* overwatch.rs:135 "Threshold: 3+ CMD_STYLE_INJECTION signals across the session",
\* and likewise for drift, suspicion and Q09: an evaluation reports every campaign
\* that the evaluations answered before it began, since the session was last reset,
\* make together with its own text, however many run at the same time.
EvaluationSeesItsPast ==
  \A c \in Callers :
    call[c].pc = "judged" =>
      Due(call[c].before, call[c].payload) \subseteq call[c].violations

=============================================================================
