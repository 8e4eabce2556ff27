------------------------------ MODULE Arbiter ------------------------------
(***************************************************************************)
(* The Arbiter of arbiter.rs: a security state per session, 1 (S1) to 4    *)
(* (S4), raised by the signals of the layers, cleared by an operator or by *)
(* the end of the session, and an audit log chained through the hash chain *)
(* of crypto.rs. The session map, the hash chain and the log have a lock   *)
(* each and no method holds two, so every acquisition is a step of the     *)
(* thread and other threads run in between. Inserting the entry and        *)
(* clearing an expired lockdown are two acquisitions in the code; nothing  *)
(* another thread can do between them tells, and they are one step here.   *)
(***************************************************************************)
EXTENDS DecisionTable, Sequences

CONSTANTS
  Threads,
  Sessions,
  Signals,    \* what layers report: a severity, a confidence in percent and
              \* the threshold modifier in percent it is processed with
  Graded,     \* the signals the table is compared on
  MaxCalls,   \* bound on the calls begun
  MaxForeign  \* bound on the links other layers add to the hash chain

ASSUME SignalsAssumption == Signals \subseteq ModifiedSignal /\ Graded \subseteq ModifiedSignal

ASSUME CallsAssumption == MaxCalls \in Nat

VARIABLES
  session_states,  \* session -> current state and whether locked_until is set
  hash_chain,      \* crypto.rs: what each link hashes; a hash is its position
  audit_log,
  job,             \* what each thread is doing
  calls,           \* how many calls have begun
  overlapped       \* history: a call has begun while another was in progress

vars == <<session_states, hash_chain, audit_log, job, calls, overlapped>>

Idle == [pc |-> "idle"]

SessionState == [current : SecurityState, locked : BOOLEAN]

New == [current |-> 1, locked |-> FALSE]

\* Variant with a fault: a lockdown that is over is taken for S1.
current_state_AutoReset(s) ==
  IF s \in DOMAIN session_states /\ ~(session_states[s].current = 4 /\ ~session_states[s].locked)
  THEN session_states[s].current ELSE 1

\* current_state: a session that has no entry is in S1.
current_state(s) == IF s \in DOMAIN session_states THEN session_states[s].current ELSE 1

-----------------------------------------------------------------------------
(* process and process_with_modifier.                                      *)

Begin(t, j) ==
  /\ job[t] = Idle
  /\ calls < MaxCalls
  /\ calls' = calls + 1
  /\ overlapped' = (overlapped \/ \E u \in Threads : job[u] # Idle)
  /\ job' = [job EXCEPT ![t] = j]

\* The entry of the session is made; a lockdown whose time is over is cleared,
\* and the state stays what it was. A modifier of 0 skips both.
BeginProcess(t, s, sig) ==
  /\ Begin(t, [pc |-> "read", kind |-> "process", session |-> s, signal |-> sig])
  /\ IF sig.modifier = 0 THEN UNCHANGED session_states
     ELSE \E expired \in BOOLEAN :
            LET e == IF s \in DOMAIN session_states THEN session_states[s] ELSE New IN
            session_states' =
              [q \in DOMAIN session_states \cup {s} |->
                 IF q = s THEN [e EXCEPT !.locked = @ /\ ~expired] ELSE session_states[q]]
  /\ UNCHANGED <<hash_chain, audit_log>>

\* A clean signal is answered with the state there is; any other fixes the
\* transition, from what is read now.
ReadState(t) ==
  /\ job[t].pc = "read"
  /\ LET j    == job[t]
         from == current_state(j.session)
         to   == determine_new_state(from, j.signal) IN
     job' = [job EXCEPT ![t] =
               IF is_clean(j.signal) THEN Idle
               ELSE IF to > from
               THEN [pc |-> "write", kind |-> j.kind, session |-> j.session,
                     from |-> from, to |-> to]
               ELSE [pc |-> "answer", kind |-> j.kind, session |-> j.session]]
  /\ UNCHANGED <<session_states, hash_chain, audit_log, calls, overlapped>>

\* transition: the guard has compared what was read; the write replaces what
\* is there, if there still is an entry. The audit entry follows either way.
Transition(t) ==
  /\ job[t].pc = "write"
  /\ LET s == job[t].session IN
     session_states' =
       IF s \in DOMAIN session_states
       THEN [session_states EXCEPT ![s] =
               [current |-> job[t].to, locked |-> @.locked \/ job[t].to = 4]]
       ELSE session_states
  /\ job' = [job EXCEPT ![t].pc = "link"]
  /\ UNCHANGED <<hash_chain, audit_log, calls, overlapped>>

\* The state is read once more for the answer.
Answer(t) ==
  /\ job[t].pc = "answer"
  /\ job' = [job EXCEPT ![t] = Idle]
  /\ UNCHANGED <<session_states, hash_chain, audit_log, calls, overlapped>>

-----------------------------------------------------------------------------
(* write_audit_entry: get_latest_hash, extend_chain, push.                 *)

\* Variant with a fault: from and to exchanged.
Entry_Exchanged(j) == [session |-> j.session, from |-> j.to, to |-> j.from, kind |-> j.kind]

Entry(j) == [session |-> j.session, from |-> j.from, to |-> j.to, kind |-> j.kind]

\* What the log keeps: what happened, and the hashes the chain had before and after.
AuditEntry ==
  [entry : [session : Sessions, from : SecurityState, to : SecurityState,
            kind : {"process", "reset", "denied"}],
   prev : Nat, current : Nat]

GetLatestHash(t) ==
  /\ job[t].pc = "link"
  /\ job' = [job EXCEPT ![t] = [pc |-> "extend", kind |-> @.kind, session |-> @.session,
                                from |-> @.from, to |-> @.to, prev |-> Len(hash_chain)]]
  /\ UNCHANGED <<session_states, hash_chain, audit_log, calls, overlapped>>

NewHash == Len(hash_chain) + 1

ExtendChain(t) ==
  /\ job[t].pc = "extend"
  /\ hash_chain' = Append(hash_chain, Entry(job[t]))
  /\ job' = [job EXCEPT ![t] =
               [pc |-> "push", kind |-> @.kind, session |-> @.session, from |-> @.from,
                to |-> @.to, prev |-> @.prev, current |-> NewHash]]
  /\ UNCHANGED <<session_states, audit_log, calls, overlapped>>

\* Variant with a fault: denied resets are not logged.
Logged_NotDenied(j) ==
  IF j.kind = "denied" THEN audit_log
  ELSE Append(audit_log, [entry |-> Entry(j), prev |-> j.prev, current |-> j.current])

Logged(j) == Append(audit_log, [entry |-> Entry(j), prev |-> j.prev, current |-> j.current])

PushEntry(t) ==
  /\ job[t].pc = "push"
  /\ LET j == job[t] IN
     /\ audit_log' = Logged(j)
     /\ job' = [job EXCEPT ![t] =
                  IF j.kind = "denied" THEN Idle
                  ELSE [pc |-> IF j.kind = "reset" THEN "clear" ELSE "answer",
                        kind |-> j.kind, session |-> j.session]]
  /\ UNCHANGED <<session_states, hash_chain, calls, overlapped>>

\* The other layers link their signals into the same chain.
Foreign == [kind |-> "signal"]

ExtendElsewhere ==
  /\ Len(SelectSeq(hash_chain, LAMBDA e : e = Foreign)) <= MaxForeign
  /\ hash_chain' = Append(hash_chain, Foreign)
  /\ UNCHANGED <<session_states, audit_log, job, calls, overlapped>>

-----------------------------------------------------------------------------
(* operator_reset_session: the authority is verified, the attempt audited  *)
(* and only then, if it was authorized, the state is cleared.              *)

\* Variant with a fault: a denied reset is recorded as one that leads to S1.
ResetTarget_Always(s, authorized) == 1

ResetTarget(s, authorized) == IF authorized THEN 1 ELSE current_state(s)

\* Variant with a fault: only a denied reset is audited.
BeginReset_Unaudited(t, s, authorized) ==
  /\ Begin(t, [pc |-> IF authorized THEN "clear" ELSE "link",
               kind |-> IF authorized THEN "reset" ELSE "denied",
               session |-> s, from |-> current_state(s), to |-> ResetTarget(s, authorized)])
  /\ UNCHANGED <<session_states, hash_chain, audit_log>>

BeginReset(t, s, authorized) ==
  /\ Begin(t, [pc |-> "link", kind |-> IF authorized THEN "reset" ELSE "denied",
               session |-> s, from |-> current_state(s), to |-> ResetTarget(s, authorized)])
  /\ UNCHANGED <<session_states, hash_chain, audit_log>>

Cleared(e) == [e EXCEPT !.current = 1, !.locked = FALSE]

ClearState(t) ==
  /\ job[t].pc = "clear"
  /\ LET s == job[t].session IN
     session_states' = IF s \in DOMAIN session_states
                       THEN [session_states EXCEPT ![s] = Cleared(@)] ELSE session_states
  /\ job' = [job EXCEPT ![t] = Idle]
  /\ UNCHANGED <<hash_chain, audit_log, calls, overlapped>>

\* forget_session, when end_session ends the session.
ForgetSession(s) ==
  /\ s \in DOMAIN session_states
  /\ session_states' = [q \in DOMAIN session_states \ {s} |-> session_states[q]]
  /\ UNCHANGED <<hash_chain, audit_log, job, calls, overlapped>>

-----------------------------------------------------------------------------
Init ==
  /\ session_states = [s \in {} |-> New]
  /\ hash_chain = <<Foreign>>      \* the hash of the seed
  /\ audit_log = <<>>
  /\ job = [t \in Threads |-> Idle]
  /\ calls = 0
  /\ overlapped = FALSE

Continue(t) ==
  \/ ReadState(t) \/ Transition(t) \/ Answer(t) \/ ClearState(t)
  \/ GetLatestHash(t) \/ ExtendChain(t) \/ PushEntry(t)

Next ==
  \/ \E t \in Threads : Continue(t)
  \/ \E t \in Threads, s \in Sessions, sig \in Signals : BeginProcess(t, s, sig)
  \/ \E t \in Threads, s \in Sessions, a \in BOOLEAN : BeginReset(t, s, a)
  \/ \E s \in Sessions : ForgetSession(s)
  \/ ExtendElsewhere

Spec == Init /\ [][Next]_vars

\* A thread inside a call goes on: no lock is held across steps.
FairSpec == Spec /\ \A t \in Threads : WF_vars(Continue(t))

-----------------------------------------------------------------------------
\* The shape of the session map, of the threads' calls and of the log; a
\* transition leads to one of the four states.
TypeOK ==
  /\ DOMAIN session_states \subseteq Sessions
  /\ \A s \in DOMAIN session_states : session_states[s] \in SessionState
  /\ \A t \in Threads :
       /\ job[t].pc \in {"idle", "read", "write", "link", "extend", "push", "answer", "clear"}
       /\ job[t].pc # "idle" => job[t].session \in Sessions
       /\ job[t].pc \in {"write", "link", "extend", "push"} =>
            job[t].from \in SecurityState /\ job[t].to \in SecurityState
  /\ \A i \in DOMAIN audit_log :
       audit_log[i] \in AuditEntry /\ audit_log[i].current \in DOMAIN hash_chain
  /\ calls \in 0..MaxCalls

-----------------------------------------------------------------------------
(* What holds however the threads interleave.                              *)

Auditing(t) == job[t].pc \in {"link", "extend", "push"}

\* No session is in a raised state the audit log will not show: the entry
\* that leads to it is in the log or on its way there, also when the write
\* overtook another one.
RaisedIsAudited ==
  \A s \in DOMAIN session_states : session_states[s].current > 1 =>
    \/ \E i \in DOMAIN audit_log :
         audit_log[i].entry.session = s /\ audit_log[i].entry.to = session_states[s].current
    \/ \E t \in Threads :
         Auditing(t) /\ job[t].session = s /\ job[t].to = session_states[s].current

\* An entry that stays is brought back to S1 only by a reset the log already
\* shows: "OPERATOR_RESET" is recorded before the state is touched.
ResetIsAuditedFirst ==
  [][\A s \in DOMAIN session_states \cap DOMAIN session_states' :
       session_states[s].current > 1 /\ session_states'[s].current = 1 =>
         \E i \in DOMAIN audit_log :
           audit_log[i].entry.session = s /\ audit_log[i].entry.kind = "reset"]_vars

\* What the chain hashes for the Arbiter ends up in the log.
ChainReachesLog ==
  \A n \in 2..(1 + MaxCalls + MaxForeign) :
    (n \in DOMAIN hash_chain /\ hash_chain[n] # Foreign) ~>
      (\E i \in DOMAIN audit_log : audit_log[i].current = n)

-----------------------------------------------------------------------------
(* What holds as long as no two calls have overlapped.                     *)

\* The state of a session that stays is lowered only by a reset.
LoweredByReset ==
  \A s \in DOMAIN session_states \cap DOMAIN session_states' :
    session_states'[s].current < session_states[s].current =>
      session_states'[s] = New /\ \E t \in Threads : job[t].pc = "clear"

\* transition is "monotonic only (can only escalate)" when calls follow each
\* other: a session leaves a state for a lower one only when the operator clears
\* it, or its entry goes.
MonotonicInTurn == [][~overlapped => LoweredByReset]_vars

LoweredAfterAudit == ResetIsAuditedFirst /\ MonotonicInTurn

\* Between calls the last entry of a session in the log accounts for its
\* state; the end of a session, which is not audited, is the only way below.
LastEntryCoversState ==
  ~overlapped /\ (\A t \in Threads : job[t] = Idle) =>
    \A s \in DOMAIN session_states :
      session_states[s].current > 1 =>
        \E i \in DOMAIN audit_log :
          /\ audit_log[i].entry.session = s
          /\ audit_log[i].entry.to = session_states[s].current
          /\ \A k \in (i + 1)..Len(audit_log) : audit_log[k].entry.session # s

\* In a state, a lower modifier or a higher confidence never leads a signal that
\* is not clean to a lower state.
Tightens ==
  [current \in SecurityState |->
     \A sig \in Graded :
       ~is_clean(sig) =>
         \A stricter \in {q \in Graded : q.severity = sig.severity /\ q.modifier <= sig.modifier
                                           /\ q.confidence >= sig.confidence} :
           determine_new_state(current, stricter) >= determine_new_state(current, sig)]

\* "modifier < 1.0 = tighter thresholds (easier to escalate)", in every state a
\* session comes to.
ModifierOnlyTightens == \A s \in Sessions : Tightens[current_state(s)]

-----------------------------------------------------------------------------
(* What the code says and does not do.                                     *)

\* transition is "monotonic only (can only escalate)", arbiter.rs:361: also when
\* two layers' reports on one session are processed at once.
MonotonicOnly == [][LoweredByReset]_vars

\* crypto.rs:27 "Hash chain: each entry = SHA256(prev_entry + signal_canonical)":
\* the prev_chain_hash of an entry is the link its current_chain_hash extends.
PrevIsPredecessor ==
  \A i \in DOMAIN audit_log : audit_log[i].prev = audit_log[i].current - 1
=============================================================================
