---------------------------- MODULE ServerProofs ----------------------------
(***************************************************************************)
(* Proofs about Server and OverWatch, for every number of connections,     *)
(* slots and sessions, and every set of texts.                             *)
(***************************************************************************)
EXTENDS Server, FiniteSetTheorems, FunctionTheorems, SequenceTheorems, TLAPS

-----------------------------------------------------------------------------
(* The inductive invariant.                                                *)

Fields == {"pc", "session", "payload", "drift", "violations", "before"}

\* Every caller has a record with the fields of one.
Shaped ==
  /\ call = [c \in Callers |-> call[c]]
  /\ \A c \in Callers : call[c] = [f \in Fields |-> call[c][f]]

\* The entry of a session under evaluation is there.
Entries == \A c \in Callers : Evaluating(c) => call[c].session \in DOMAIN sessions

NoPanic == \A c \in Callers : call[c].pc # "panicked"

\* The connections beyond the loop's are not there yet, the one it is at has no
\* thread, and the loop is within its bound.
LoopAhead ==
  /\ loop = [pc |-> loop.pc, connection |-> loop.connection, in_flight |-> loop.in_flight]
  /\ loop.pc \in {"accept", "admit"}
  /\ loop.connection \in 0..MaxRequests
  /\ \A c \in Callers : c > loop.connection => call[c].pc = "idle"
  /\ loop.pc = "admit" => /\ loop.connection \in Callers
                          /\ call[loop.connection].pc = "idle"
                          /\ loop.in_flight \in Nat

\* Every slot is held by a live handler, or by the connection the loop is at.
SlotsAreHandlers ==
  /\ active \in Nat
  /\ active = Cardinality(Live) + (IF loop.pc = "admit" THEN 1 ELSE 0)

\* What the loop has read was true when it read it; handlers have ended since.
Admission ==
  /\ Cardinality(Live) <= MaxConnections
  /\ loop.pc = "admit" => Cardinality(Live) + 1 <= loop.in_flight

IInv == Shaped /\ Entries /\ NoPanic /\ LoopAhead /\ SlotsAreHandlers /\ Admission

-----------------------------------------------------------------------------
(* What a step of a caller does to the record of callers.                  *)

\* A caller gets a record, the others keep theirs.
LEMMA Recorded ==
  ASSUME Shaped, NEW c \in Callers, NEW r, r = [f \in Fields |-> r[f]],
         call' = [call EXCEPT ![c] = r]
  PROVE  /\ Shaped'
         /\ call'[c] = r
         /\ \A d \in Callers : d # c => call'[d] = call[d]
BY DEF Shaped

\* A caller goes to another place.
LEMMA Moved ==
  ASSUME Shaped, NEW c \in Callers, NEW p, call' = [call EXCEPT ![c].pc = p]
  PROVE  /\ Shaped'
         /\ call'[c].pc = p /\ call'[c].session = call[c].session
         /\ \A d \in Callers : d # c => call'[d] = call[d]
<1> DEFINE r == [call[c] EXCEPT !.pc = p]
<1>1. r = [f \in Fields |-> r[f]] BY DEF Shaped, Fields
<1>2. call' = [call EXCEPT ![c] = r] OBVIOUS
<1>3. r.pc = p /\ r.session = call[c].session BY DEF Shaped, Fields
<1> QED BY <1>1, <1>2, <1>3, Recorded

\* What every step of a handler that is alive comes to: it stays alive or gives
\* its slot back, the others stay where they are, and a session loses its entry
\* only when nobody evaluates.
Effect(c) ==
  /\ Shaped'
  /\ \A d \in Callers : d # c => call'[d] = call[d]
  /\ call[c].pc \notin {"idle", "closed", "panicked"}
  /\ call'[c].pc \notin {"idle", "panicked"}
  /\ Evaluating(c)' => call'[c].session \in DOMAIN sessions'
  /\ \/ DOMAIN sessions \subseteq DOMAIN sessions'
     \/ \A d \in Callers : ~Evaluating(d)
  /\ active' = IF call'[c].pc = "closed" THEN active - 1 ELSE active
  /\ loop' = loop

\* An acquisition of the inner lock finds the entry.
LEMMA Acquired ==
  ASSUME Shaped, Entries, NEW c \in Callers, Evaluating(c), NEW fp, NEW ev,
         ev = [f \in Fields |-> ev[f]], ev.session = call[c].session,
         ev.pc \in {"tools", "suspicion", "cmd", "q09"},
         Acquisition(c, fp, ev), UNCHANGED <<active, loop>>
  PROVE  Effect(c)
<1>1. call[c].session \in DOMAIN sessions BY DEF Entries
<1>2. /\ sessions' = [sessions EXCEPT ![call[c].session] = fp]
      /\ call' = [call EXCEPT ![c] = ev]
  BY <1>1 DEF Acquisition
<1>3. /\ Shaped' /\ call'[c] = ev
      /\ \A d \in Callers : d # c => call'[d] = call[d]
  BY <1>2, Recorded
<1>4. DOMAIN sessions' = DOMAIN sessions BY <1>2
<1> QED BY <1>1, <1>3, <1>4 DEF Effect, Evaluating

LEMMA EvaluationStep ==
  ASSUME Shaped, Entries, NEW c \in Callers, UNCHANGED <<active, loop>>,
         Enter(c) \/ Drift(c) \/ Tools(c) \/ Suspicion(c) \/ Cmd(c) \/ Q09(c)
  PROVE  Effect(c)
<1>0. call[c] = [f \in Fields |-> call[c][f]] BY DEF Shaped
<1>1. CASE Enter(c)
  <2> DEFINE r == [call[c] EXCEPT !.pc = "drift", !.before = past[call[c].session]]
  <2>1. r = [f \in Fields |-> r[f]] /\ r.pc = "drift" /\ r.session = call[c].session
    BY <1>0 DEF Fields
  <2>2. call' = [call EXCEPT ![c] = r] BY <1>1 DEF Enter
  <2>3. /\ Shaped' /\ call'[c] = r
        /\ \A d \in Callers : d # c => call'[d] = call[d]
    BY <2>1, <2>2, Recorded
  <2>4. DOMAIN sessions' = DOMAIN sessions \cup {call[c].session} BY <1>1 DEF Enter, Entered
  <2> QED BY <1>1, <2>1, <2>3, <2>4 DEF Effect, Evaluating, Enter
<1>2. CASE Drift(c)
  <2>1. PICK fp, drift, violations :
          Acquisition(c, fp, [call[c] EXCEPT !.pc = "tools", !.drift = drift,
                                             !.violations = violations])
    BY <1>2 DEF Drift
  <2> DEFINE r == [call[c] EXCEPT !.pc = "tools", !.drift = drift, !.violations = violations]
  <2>2. r = [f \in Fields |-> r[f]] /\ r.pc = "tools" /\ r.session = call[c].session
    BY <1>0 DEF Fields
  <2>3. Evaluating(c) BY <1>2 DEF Drift, Evaluating
  <2> QED BY <2>1, <2>2, <2>3, Acquired
<1>3. CASE Tools(c)
  <2>1. PICK fp, violations :
          Acquisition(c, fp, [call[c] EXCEPT !.pc = "suspicion", !.violations = violations])
    BY <1>3 DEF Tools
  <2> DEFINE r == [call[c] EXCEPT !.pc = "suspicion", !.violations = violations]
  <2>2. r = [f \in Fields |-> r[f]] /\ r.pc = "suspicion" /\ r.session = call[c].session
    BY <1>0 DEF Fields
  <2>3. Evaluating(c) BY <1>3 DEF Tools, Evaluating
  <2> QED BY <2>1, <2>2, <2>3, Acquired
<1>4. CASE Suspicion(c)
  <2>1. PICK fp, violations :
          Acquisition(c, fp, [call[c] EXCEPT !.pc = "cmd", !.violations = violations])
    BY <1>4 DEF Suspicion
  <2> DEFINE r == [call[c] EXCEPT !.pc = "cmd", !.violations = violations]
  <2>2. r = [f \in Fields |-> r[f]] /\ r.pc = "cmd" /\ r.session = call[c].session
    BY <1>0 DEF Fields
  <2>3. Evaluating(c) BY <1>4 DEF Suspicion, Evaluating
  <2> QED BY <2>1, <2>2, <2>3, Acquired
<1>5. CASE Cmd(c)
  <2>1. PICK fp, violations :
          Acquisition(c, fp, [call[c] EXCEPT !.pc = "q09", !.violations = violations])
    BY <1>5 DEF Cmd
  <2> DEFINE r == [call[c] EXCEPT !.pc = "q09", !.violations = violations]
  <2>2. r = [f \in Fields |-> r[f]] /\ r.pc = "q09" /\ r.session = call[c].session
    BY <1>0 DEF Fields
  <2>3. Evaluating(c) BY <1>5 DEF Cmd, Evaluating
  <2> QED BY <2>1, <2>2, <2>3, Acquired
<1>6. CASE Q09(c)
  <2>1. Evaluating(c) /\ call[c].pc = "q09" BY <1>6 DEF Q09, Evaluating
  <2>2. call[c].session \in DOMAIN sessions BY <2>1 DEF Entries
  <2>3. PICK fp, violations :
          /\ sessions' = [sessions EXCEPT ![call[c].session] = fp]
          /\ call' = [call EXCEPT ![c].pc = "judged", ![c].violations = violations]
    BY <1>6, <2>2 DEF Q09
  <2> DEFINE r == [call[c] EXCEPT !.pc = "judged", !.violations = violations]
  <2>4. r = [f \in Fields |-> r[f]] /\ r.pc = "judged" BY <1>0 DEF Fields
  <2>5. call' = [call EXCEPT ![c] = r] BY <2>3
  <2>6. /\ Shaped' /\ call'[c] = r
        /\ \A d \in Callers : d # c => call'[d] = call[d]
    BY <2>4, <2>5, Recorded
  <2>7. DOMAIN sessions' = DOMAIN sessions BY <2>3
  <2> QED BY <2>1, <2>4, <2>6, <2>7 DEF Effect, Evaluating
<1> QED BY <1>1, <1>2, <1>3, <1>4, <1>5, <1>6

LEMMA ResetStep ==
  ASSUME Shaped, NEW c \in Callers, UNCHANGED <<active, loop>>,
         AnnounceReset(c) \/ ResetSession(c)
  PROVE  Effect(c)
<1>1. CASE AnnounceReset(c)
  <2>1. call' = [call EXCEPT ![c].pc = "drain"] /\ sessions' = sessions
    BY <1>1 DEF AnnounceReset
  <2>2. /\ Shaped' /\ call'[c].pc = "drain"
        /\ \A d \in Callers : d # c => call'[d] = call[d]
    BY <2>1, Moved
  <2> QED BY <1>1, <2>1, <2>2 DEF Effect, Evaluating, AnnounceReset
<1>2. CASE ResetSession(c)
  <2>1. call' = [call EXCEPT ![c].pc = "done"] BY <1>2 DEF ResetSession
  <2>2. /\ Shaped' /\ call'[c].pc = "done"
        /\ \A d \in Callers : d # c => call'[d] = call[d]
    BY <2>1, Moved
  <2>3. \A d \in Callers : ~Evaluating(d) BY <1>2 DEF ResetSession, Alone
  <2> QED BY <1>2, <2>2, <2>3 DEF Effect, Evaluating, ResetSession
<1> QED BY <1>1, <1>2

\* Of the lines read, all but the blank one only move the handler on.
LineStep(c) ==
  ReadRequestLine(c) \/ ReadHeaderLine(c) \/ TimeOut(c)
    \/ TooManyHeaders(c) \/ NewHeader(c) \/ IdleLine(c)

LEMMA LineRead ==
  ASSUME NEW c \in Callers, LineStep(c)
  PROVE  /\ call[c].pc \in {"read", "headers", "parse"}
         /\ UNCHANGED <<sessions, past, active, loop>>
         /\ \E p \in {"headers", "parse", "release", "done"} : call' = [call EXCEPT ![c].pc = p]
<1>1. CASE ReadRequestLine(c) BY <1>1 DEF ReadRequestLine
<1>2. CASE ReadHeaderLine(c) BY <1>2 DEF ReadHeaderLine
<1>3. CASE TimeOut(c) BY <1>3 DEF TimeOut, Expires
<1>4. CASE TooManyHeaders(c) BY <1>4 DEF TooManyHeaders
<1>5. CASE NewHeader(c) BY <1>5 DEF NewHeader
<1>6. CASE IdleLine(c) BY <1>6 DEF IdleLine
<1> QED BY <1>1, <1>2, <1>3, <1>4, <1>5, <1>6 DEF LineStep

LEMMA HandlerStep ==
  ASSUME Shaped, Entries, NEW c \in Callers, Handle(c)
  PROVE  Effect(c)
<1>1. CASE Receive(c)
  <2>1. /\ call[c].pc = "parse" /\ UNCHANGED <<sessions, active, loop>> BY <1>1 DEF Receive
  <2>2. CASE call' = [call EXCEPT ![c].pc = "done"]
    <3>1. /\ Shaped' /\ call'[c].pc = "done"
          /\ \A d \in Callers : d # c => call'[d] = call[d]
      BY <2>2, Moved
    <3> QED BY <2>1, <3>1 DEF Effect, Evaluating
  <2>3. CASE \E s \in Sessions : \E p \in Payloads :
               call' = [call EXCEPT ![c] = [Resting EXCEPT !.pc = "enter", !.session = s, !.payload = p]]
    <3>1. PICK s, p :
            call' = [call EXCEPT ![c] = [Resting EXCEPT !.pc = "enter", !.session = s, !.payload = p]]
      BY <2>3
    <3> DEFINE r == [Resting EXCEPT !.pc = "enter", !.session = s, !.payload = p]
    <3>2. r = [f \in Fields |-> r[f]] /\ r.pc = "enter" BY DEF Resting, Fields
    <3>3. /\ Shaped' /\ call'[c] = r
          /\ \A d \in Callers : d # c => call'[d] = call[d]
      BY <3>1, <3>2, Recorded
    <3> QED BY <2>1, <3>2, <3>3 DEF Effect, Evaluating
  <2>4. CASE \E s \in Sessions :
               call' = [call EXCEPT ![c] = [Resting EXCEPT !.pc = "reset", !.session = s]]
    <3>1. PICK s : call' = [call EXCEPT ![c] = [Resting EXCEPT !.pc = "reset", !.session = s]]
      BY <2>4
    <3> DEFINE r == [Resting EXCEPT !.pc = "reset", !.session = s]
    <3>2. r = [f \in Fields |-> r[f]] /\ r.pc = "reset" BY DEF Resting, Fields
    <3>3. /\ Shaped' /\ call'[c] = r
          /\ \A d \in Callers : d # c => call'[d] = call[d]
      BY <3>1, <3>2, Recorded
    <3> QED BY <2>1, <3>2, <3>3 DEF Effect, Evaluating
  <2> QED BY <1>1, <2>2, <2>3, <2>4 DEF Receive
<1>2. CASE LineStep(c)
  <2>1. PICK p \in {"headers", "parse", "release", "done"} : call' = [call EXCEPT ![c].pc = p]
    BY <1>2, LineRead
  <2>2. call[c].pc \in {"read", "headers", "parse"} /\ UNCHANGED <<sessions, active, loop>>
    BY <1>2, LineRead
  <2>3. /\ Shaped' /\ call'[c].pc = p
        /\ \A d \in Callers : d # c => call'[d] = call[d]
    BY <2>1, Moved
  <2> QED BY <2>2, <2>3 DEF Effect, Evaluating
<1>3. CASE Work(c)
  BY <1>3, EvaluationStep, ResetStep DEF Work, OverWatchStep
<1>4. CASE Respond(c)
  <2>1. /\ call[c].pc \in {"judged", "done"} /\ UNCHANGED <<sessions, active, loop>>
        /\ call' = [call EXCEPT ![c] = [Resting EXCEPT !.pc = "release"]]
    BY <1>4 DEF Respond
  <2> DEFINE r == [Resting EXCEPT !.pc = "release"]
  <2>2. r = [f \in Fields |-> r[f]] /\ r.pc = "release" BY DEF Resting, Fields
  <2>3. /\ Shaped' /\ call'[c] = r
        /\ \A d \in Callers : d # c => call'[d] = call[d]
    BY <2>1, <2>2, Recorded
  <2> QED BY <2>1, <2>2, <2>3 DEF Effect, Evaluating
<1>5. CASE Release(c)
  <2>1. /\ call[c].pc = "release" /\ UNCHANGED <<sessions, loop>>
        /\ active' = active - 1
        /\ call' = [call EXCEPT ![c].pc = "closed"]
    BY <1>5 DEF Release
  <2>2. /\ Shaped' /\ call'[c].pc = "closed"
        /\ \A d \in Callers : d # c => call'[d] = call[d]
    BY <2>1, Moved
  <2> QED BY <2>1, <2>2 DEF Effect, Evaluating
<1> QED BY <1>1, <1>2, <1>3, <1>4, <1>5 DEF Handle, OwnStep, Parse, LineStep

-----------------------------------------------------------------------------
(* The invariant is inductive.                                             *)

LEMMA LiveIsFinite == IsFiniteSet(Live) /\ Cardinality(Live) \in Nat
<1>1. IsFiniteSet(Callers) BY ServerAssumption, FS_Interval
<1>2. Live \subseteq Callers BY DEF Live
<1> QED BY <1>1, <1>2, FS_Subset, FS_CardinalityType

LEMMA InitInv == Init => IInv
<1> SUFFICES ASSUME Init PROVE IInv OBVIOUS
<1> USE DEF Init, OverWatchInit
<1>1. \A c \in Callers : call[c] = Resting OBVIOUS
<1>2. Shaped
  <2>1. Resting = [f \in Fields |-> Resting[f]] BY DEF Resting, Fields
  <2> QED BY <1>1, <2>1 DEF Shaped
<1>3. Entries /\ NoPanic BY <1>1 DEF Entries, NoPanic, Evaluating, Resting
<1>4. LoopAhead BY <1>1, ServerAssumption DEF LoopAhead, Resting
<1>5. Live = {} BY <1>1 DEF Live, Resting
<1>6. Cardinality(Live) = 0 BY <1>5, FS_EmptySet
<1>7. SlotsAreHandlers BY <1>6 DEF SlotsAreHandlers
<1>8. Admission BY <1>6, ServerAssumption DEF Admission
<1> QED BY <1>2, <1>3, <1>4, <1>7, <1>8 DEF IInv

LEMMA HandlerKeepsInv ==
  ASSUME IInv, NEW c \in Callers, Handle(c)
  PROVE  IInv'
<1>0. Effect(c) BY HandlerStep DEF IInv
<1> USE DEF IInv
<1>1. Shaped' BY <1>0 DEF Effect
<1>2. Entries'
  <2> SUFFICES ASSUME NEW d \in Callers, Evaluating(d)' PROVE call'[d].session \in DOMAIN sessions'
    BY DEF Entries
  <2>1. CASE d = c BY <1>0, <2>1 DEF Effect
  <2>2. CASE d # c
    <3>1. call'[d] = call[d] BY <1>0, <2>2 DEF Effect
    <3>2. Evaluating(d) BY <3>1 DEF Evaluating
    <3>3. DOMAIN sessions \subseteq DOMAIN sessions' BY <1>0, <3>2 DEF Effect
    <3> QED BY <3>1, <3>2, <3>3 DEF Entries
  <2> QED BY <2>1, <2>2
<1>3. NoPanic'
  <2> SUFFICES ASSUME NEW d \in Callers PROVE call'[d].pc # "panicked" BY DEF NoPanic
  <2> QED BY <1>0 DEF Effect, NoPanic
<1>4. LoopAhead'
  <2>1. loop' = loop BY <1>0 DEF Effect
  <2>2. \A d \in Callers : call[d].pc = "idle" => call'[d].pc = "idle" BY <1>0 DEF Effect
  <2> QED BY <2>1, <2>2 DEF LoopAhead
<1>5. c \in Live BY <1>0 DEF Effect, Live
<1>6. /\ SlotsAreHandlers'
      /\ Admission'
  <2>1. CASE call'[c].pc = "closed"
    <3>1. Live' = Live \ {c} BY <1>0, <2>1 DEF Effect, Live
    <3>2. Cardinality(Live') = Cardinality(Live) - 1
      BY <3>1, <1>5, LiveIsFinite, FS_RemoveElement
    <3>3. Cardinality(Live') \in Nat BY LiveIsFinite, <3>1, FS_RemoveElement, FS_CardinalityType
    <3>4. active' = active - 1 /\ loop' = loop BY <1>0, <2>1 DEF Effect
    <3> QED BY <3>2, <3>3, <3>4, LiveIsFinite, ServerAssumption
         DEF SlotsAreHandlers, Admission, LoopAhead
  <2>2. CASE call'[c].pc # "closed"
    <3>1. Live' = Live BY <1>0, <2>2 DEF Effect, Live
    <3>2. active' = active /\ loop' = loop BY <1>0, <2>2 DEF Effect
    <3> QED BY <3>1, <3>2 DEF SlotsAreHandlers, Admission
  <2> QED BY <2>1, <2>2
<1> QED BY <1>1, <1>2, <1>3, <1>4, <1>6

LEMMA LoopKeepsInv ==
  ASSUME IInv, Accept \/ Spawn \/ Refuse
  PROVE  IInv'
<1> USE DEF IInv
<1> DEFINE c == loop.connection
<1>1. CASE Accept
  <2>1. UNCHANGED ovars /\ Live' = Live BY <1>1 DEF Accept, ovars, Live
  <2>2. Shaped' /\ Entries' /\ NoPanic'
    BY <2>1 DEF Shaped, Entries, NoPanic, Evaluating, ovars
  <2>3. LoopAhead'
    BY <1>1, <2>1, ServerAssumption DEF Accept, LoopAhead, SlotsAreHandlers, ovars
  <2>4. SlotsAreHandlers' /\ Admission'
    BY <1>1, <2>1, LiveIsFinite DEF Accept, SlotsAreHandlers, Admission, LoopAhead
  <2> QED BY <2>2, <2>3, <2>4
<1>2. CASE Spawn
  <2>1. /\ loop.pc = "admit" /\ c \in Callers /\ call[c].pc = "idle" /\ loop.in_flight \in Nat
        /\ loop.in_flight <= MaxConnections
        /\ call' = [call EXCEPT ![c].pc = "read"]
        /\ UNCHANGED <<sessions, active>>
        /\ loop' = [loop EXCEPT !.pc = "accept", !.in_flight = 0]
    BY <1>2 DEF Spawn, LoopAhead, Back
  <2>2. /\ Shaped' /\ call'[c].pc = "read"
        /\ \A d \in Callers : d # c => call'[d] = call[d]
    BY <2>1, Moved
  <2>3. Entries' /\ NoPanic' BY <2>1, <2>2 DEF Entries, NoPanic, Evaluating
  <2>4. loop'.pc = "accept" /\ loop'.connection = c /\ loop'.in_flight = 0
        /\ loop' = [pc |-> loop'.pc, connection |-> loop'.connection, in_flight |-> loop'.in_flight]
    BY <2>1 DEF LoopAhead
  <2>5. LoopAhead' BY <2>1, <2>2, <2>4, ServerAssumption DEF LoopAhead
  <2>6. Live' = Live \cup {c} /\ c \notin Live BY <2>1, <2>2 DEF Live
  <2>7. Cardinality(Live') = Cardinality(Live) + 1 BY <2>6, LiveIsFinite, FS_AddElement
  <2>8. SlotsAreHandlers' /\ Admission'
    BY <2>1, <2>4, <2>7, LiveIsFinite, ServerAssumption DEF SlotsAreHandlers, Admission
  <2> QED BY <2>2, <2>3, <2>5, <2>8
<1>3. CASE Refuse
  <2>1. /\ loop.pc = "admit" /\ c \in Callers /\ call[c].pc = "idle"
        /\ call' = [call EXCEPT ![c].pc = "closed"]
        /\ UNCHANGED sessions /\ active' = active - 1
        /\ loop' = [loop EXCEPT !.pc = "accept", !.in_flight = 0]
    BY <1>3 DEF Refuse, LoopAhead, Back, Returned
  <2>2. /\ Shaped' /\ call'[c].pc = "closed"
        /\ \A d \in Callers : d # c => call'[d] = call[d]
    BY <2>1, Moved
  <2>3. Entries' /\ NoPanic' BY <2>1, <2>2 DEF Entries, NoPanic, Evaluating
  <2>4. loop'.pc = "accept" /\ loop'.connection = c /\ loop'.in_flight = 0
        /\ loop' = [pc |-> loop'.pc, connection |-> loop'.connection, in_flight |-> loop'.in_flight]
    BY <2>1 DEF LoopAhead
  <2>5. LoopAhead' BY <2>1, <2>2, <2>4, ServerAssumption DEF LoopAhead
  <2>6. Live' = Live BY <2>1, <2>2 DEF Live
  <2>7. SlotsAreHandlers' /\ Admission'
    BY <2>1, <2>4, <2>6, LiveIsFinite DEF SlotsAreHandlers, Admission
  <2> QED BY <2>2, <2>3, <2>5, <2>7
<1> QED BY <1>1, <1>2, <1>3

\* The inductive invariant holds: the entry of a session under evaluation is there,
\* no handler panics, and the slots in use are those of the live handlers.
THEOREM Invariance == Spec => []IInv
<1>1. IInv /\ [Next]_vars => IInv'
  <2> SUFFICES ASSUME IInv, [Next]_vars PROVE IInv' OBVIOUS
  <2>1. CASE Accept \/ Spawn \/ Refuse BY <2>1, LoopKeepsInv
  <2>2. CASE \E c \in Callers : Handle(c) BY <2>2, HandlerKeepsInv
  <2>3. CASE UNCHANGED vars
    <3>1. Live' = Live BY <2>3 DEF vars, Live
    <3> QED BY <2>3, <3>1
         DEF vars, IInv, Shaped, Entries, NoPanic, Evaluating, LoopAhead, SlotsAreHandlers, Admission
  <2> QED BY <2>1, <2>2, <2>3 DEF Next
<1> QED BY <1>1, InitInv, PTL DEF Spec

-----------------------------------------------------------------------------
(* What follows.                                                           *)

\* overwatch.rs:78, :99, :118, :133, :164: no `unwrap` of an evaluation fails, and so
\* no handler panics there, however evaluations, ends and resets interleave.
THEOREM EntryStaysCorrect == Spec => []EntryStays
<1>1. IInv => EntryStays BY DEF IInv, Entries, NoPanic, EntryStays
<1> QED BY <1>1, Invariance, PTL

\* server.rs:1207: never more handlers than configured, and a connection is refused
\* only while that many are alive: no slot is ever lost.
THEOREM RefusedOnlyWhenFullCorrect == Spec => RefusedOnlyWhenFull
<1> DEFINE A == /\ Cardinality(Live) <= MaxConnections
                /\ loop.pc = "accept" /\ loop'.pc = "admit" /\ loop'.in_flight > MaxConnections =>
                     Cardinality(Live) = MaxConnections
<1>1. IInv /\ [Next]_vars => [A]_vars
  <2> SUFFICES ASSUME IInv, Next PROVE A OBVIOUS
  <2>1. Cardinality(Live) <= MaxConnections BY DEF IInv, Admission
  <2>2. ASSUME loop.pc = "accept", loop'.pc = "admit", loop'.in_flight > MaxConnections
        PROVE  Cardinality(Live) = MaxConnections
    <3>1. CASE Accept
      <4>1. loop'.in_flight = Cardinality(Live) + 1
        BY <2>2, <3>1, LiveIsFinite DEF Accept, IInv, SlotsAreHandlers
      <4> QED BY <2>1, <2>2, <4>1, LiveIsFinite, ServerAssumption
    <3>2. CASE Spawn \/ Refuse BY <2>2, <3>2 DEF Spawn, Refuse
    <3>3. CASE \E c \in Callers : Handle(c)
      <4>1. PICK c \in Callers : Handle(c) BY <3>3
      <4>2. loop' = loop BY <4>1, HandlerStep DEF IInv, Effect
      <4> QED BY <2>2, <4>2
    <3> QED BY <3>1, <3>2, <3>3 DEF Next
  <2> QED BY <2>1, <2>2
<1> QED BY <1>1, Invariance, PTL DEF Spec, RefusedOnlyWhenFull

-----------------------------------------------------------------------------
(* Sums over the callers: the number of points under a function.           *)

Column(c, k) == {c} \X (1..k)

Area(w) == {x \in Callers \X Nat : x[2] \in 1..w[x[1]]}

Total(w) == Cardinality(Area(w))

Weights == [Callers -> Nat]

LEMMA ColumnSize ==
  ASSUME NEW c, NEW k \in Nat
  PROVE  IsFiniteSet(Column(c, k)) /\ Cardinality(Column(c, k)) = k
<1> DEFINE f == [n \in 1..k |-> <<c, n>>]
<1>1. f \in [1..k -> Column(c, k)]
  BY DEF Column
<1>2. \A x, y \in 1..k : f[x] = f[y] => x = y
  OBVIOUS
<1>3. \A t \in Column(c, k) : \E n \in 1..k : f[n] = t
  <2> SUFFICES ASSUME NEW t \in Column(c, k) PROVE \E n \in 1..k : f[n] = t
    OBVIOUS
  <2>1. t[2] \in 1..k /\ f[t[2]] = t
    BY DEF Column
  <2> QED BY <2>1
<1> HIDE DEF f
<1>4. ExistsBijection(1..k, Column(c, k))
  BY <1>1, <1>2, <1>3, Fun_IsBij DEF ExistsBijection
<1>5. IsFiniteSet(1..k) /\ Cardinality(1..k) = k
  BY FS_Interval
<1> QED BY <1>4, <1>5, FS_Bijection

LEMMA AreaIsFinite ==
  ASSUME NEW w \in Weights
  PROVE  IsFiniteSet(Area(w)) /\ Total(w) \in Nat
<1> DEFINE f == [c \in Callers |-> Column(c, w[c])]
           S == {f[c] : c \in Callers}
<1>1. IsFiniteSet(Callers)
  BY ServerAssumption, FS_Interval
<1>2. f \in Surjection(Callers, S)
  BY DEF Surjection
<1>3. IsFiniteSet(S)
  BY <1>1, <1>2, FS_Surjection
<1>4. \A T \in S : IsFiniteSet(T)
  BY ColumnSize DEF Weights
<1>5. IsFiniteSet(UNION S)
  BY <1>3, <1>4, FS_UNION
<1>6. Area(w) \subseteq UNION S
  <2> SUFFICES ASSUME NEW x \in Area(w) PROVE x \in UNION S
    OBVIOUS
  <2>1. x[1] \in Callers /\ x \in f[x[1]]
    BY DEF Area, Column
  <2> QED BY <2>1
<1>7. IsFiniteSet(Area(w))
  BY <1>5, <1>6, FS_Subset
<1> QED BY <1>7, FS_CardinalityType DEF Total

\* The part of a sum that is not of one caller.
LEMMA TotalWithout ==
  ASSUME NEW w \in Weights, NEW c \in Callers
  PROVE  LET R == {x \in Area(w) : x[1] # c} IN
         IsFiniteSet(R) /\ Cardinality(R) \in Nat /\ Total(w) = Cardinality(R) + w[c]
<1> DEFINE R == {x \in Area(w) : x[1] # c}
<1>1. IsFiniteSet(R) /\ Cardinality(R) \in Nat
  BY AreaIsFinite, FS_Subset, FS_CardinalityType, R \subseteq Area(w)
<1>2. w[c] \in Nat
  BY DEF Weights
<1>3. IsFiniteSet(Column(c, w[c])) /\ Cardinality(Column(c, w[c])) = w[c]
  BY <1>2, ColumnSize
<1>4. Area(w) = R \cup Column(c, w[c])
  <2>1. Column(c, w[c]) \subseteq Area(w)
    BY <1>2 DEF Column, Area
  <2>2. \A x \in Area(w) : x[1] = c => x \in Column(c, w[c])
    BY DEF Column, Area
  <2> QED BY <2>1, <2>2
<1>5. R \cap Column(c, w[c]) = {}
  BY DEF Column
<1> HIDE DEF R
<1>6. Cardinality(R \cap Column(c, w[c])) = 0
  BY <1>5, FS_EmptySet
<1>7. Cardinality(Area(w)) = Cardinality(R) + w[c]
  <2>1. Cardinality(R \cup Column(c, w[c])) =
          Cardinality(R) + Cardinality(Column(c, w[c])) - Cardinality(R \cap Column(c, w[c]))
    BY <1>1, <1>3, FS_Union
  <2> QED BY <1>1, <1>2, <1>3, <1>4, <1>6, <2>1
<1> QED BY <1>1, <1>7 DEF Total, R

\* One caller's weight changes, and the sum by as much.
LEMMA TotalChanges ==
  ASSUME NEW w \in Weights, NEW v \in Weights, NEW c \in Callers,
         \A d \in Callers : d # c => v[d] = w[d]
  PROVE  /\ Total(w) \in Nat /\ Total(v) \in Nat /\ w[c] \in Nat /\ v[c] \in Nat
         /\ Total(v) + w[c] = Total(w) + v[c]
<1> DEFINE R == {x \in Area(w) : x[1] # c}
           Q == {x \in Area(v) : x[1] # c}
<1>1. R = Q
  BY DEF Area
<1>2. /\ Cardinality(R) \in Nat /\ Total(w) = Cardinality(R) + w[c]
      /\ Total(v) = Cardinality(Q) + v[c]
  BY TotalWithout
<1>3. w[c] \in Nat /\ v[c] \in Nat
  BY DEF Weights
<1> HIDE DEF R, Q
<1> QED BY <1>1, <1>2, <1>3

LEMMA TotalAtLeast ==
  ASSUME NEW w \in Weights, NEW c \in Callers
  PROVE  Total(w) \in Nat /\ w[c] \in Nat /\ Total(w) >= w[c]
<1> DEFINE R == {x \in Area(w) : x[1] # c}
<1>1. Cardinality(R) \in Nat /\ Total(w) = Cardinality(R) + w[c]
  BY TotalWithout
<1>2. w[c] \in Nat
  BY DEF Weights
<1> HIDE DEF R
<1> QED BY <1>1, <1>2

LEMMA TotalZero ==
  ASSUME NEW w, \A c \in Callers : w[c] = 0
  PROVE  Total(w) = 0
<1>1. Area(w) = {}
  BY DEF Area
<1> QED BY <1>1, FS_EmptySet DEF Total

-----------------------------------------------------------------------------
(* The window of tools.                                                    *)

\* Sequences of tools, which of them there are, and how many.
LEMMA Concatenated ==
  ASSUME NEW S, NEW s \in Seq(S), NEW t \in Seq(S)
  PROVE  /\ s \o t \in Seq(S) /\ Len(s \o t) = Len(s) + Len(t)
         /\ Len(s) \in Nat /\ Len(t) \in Nat
         /\ Range(s) \subseteq Range(s \o t) /\ Range(t) \subseteq Range(s \o t)
<1>1. /\ s \o t \in Seq(S) /\ Len(s \o t) = Len(s) + Len(t)
      /\ Len(s) \in Nat /\ Len(t) \in Nat /\ DOMAIN s = 1..Len(s) /\ DOMAIN t = 1..Len(t)
      /\ DOMAIN (s \o t) = 1..Len(s \o t)
  BY ConcatProperties, LenProperties
<1>2. \A i \in 1..Len(s) : (s \o t)[i] = s[i]
  BY <1>1, ConcatProperties
<1>3. \A i \in 1..Len(t) : (s \o t)[Len(s) + i] = t[i]
  <2> SUFFICES ASSUME NEW i \in 1..Len(t) PROVE (s \o t)[Len(s) + i] = t[i]
    OBVIOUS
  <2>1. Len(s) + i \in 1..(Len(s) + Len(t)) /\ ~(Len(s) + i <= Len(s)) /\ (Len(s) + i) - Len(s) = i
    BY <1>1
  <2> QED BY <2>1, ConcatProperties
<1>4. Range(s) \subseteq Range(s \o t)
  BY <1>1, <1>2 DEF Range
<1>5. Range(t) \subseteq Range(s \o t)
  <2> SUFFICES ASSUME NEW i \in 1..Len(t) PROVE t[i] \in Range(s \o t)
    BY <1>1 DEF Range
  <2>1. Len(s) + i \in 1..Len(s \o t)
    BY <1>1
  <2> QED BY <1>1, <1>3, <2>1 DEF Range
<1> QED BY <1>1, <1>4, <1>5

LEMMA LenToolNames == Len(ToolNames) = 8 /\ DOMAIN ToolNames = 1..8
BY DEF ToolNames

\* A text's tools are all named, in at most eight entries.
LEMMA NamedAll ==
  ASSUME NEW p, p.tools \subseteq Range(ToolNames)
  PROVE  /\ Named(p) \in Seq(Range(ToolNames)) /\ Len(Named(p)) <= 8
         /\ p.tools \subseteq Range(Named(p))
<1> DEFINE T == Range(ToolNames)
           One(i) == IF ToolNames[i] \in p.tools THEN <<ToolNames[i]>> ELSE <<>>
           s2 == One(1) \o One(2)
           s3 == s2 \o One(3)
           s4 == s3 \o One(4)
           s5 == s4 \o One(5)
           s6 == s5 \o One(6)
           s7 == s6 \o One(7)
           s8 == s7 \o One(8)
<1>0. Named(p) = s8
  BY DEF Named
<1>1. ASSUME NEW i \in 1..8
      PROVE  /\ One(i) \in Seq(T) /\ Len(One(i)) \in Nat /\ Len(One(i)) <= 1
             /\ ToolNames[i] \in p.tools => ToolNames[i] \in Range(One(i))
  <2>1. ToolNames[i] \in T
    BY LenToolNames DEF Range
  <2>2. CASE ToolNames[i] \in p.tools
    <3>1. One(i) = <<ToolNames[i]>>
      BY <2>2
    <3>2. <<ToolNames[i]>> \in Seq(T) /\ Len(<<ToolNames[i]>>) = 1
      BY <2>1
    <3>3. ToolNames[i] \in Range(<<ToolNames[i]>>)
      BY DEF Range
    <3> QED BY <3>1, <3>2, <3>3
  <2>3. CASE ToolNames[i] \notin p.tools
    <3>1. One(i) = <<>> /\ <<>> \in Seq(T) /\ Len(<<>>) = 0
      BY <2>3, EmptySeq
    <3> QED BY <2>3, <3>1
  <2> QED BY <2>2, <2>3
<1> HIDE DEF One, T, s8
<1>2. /\ s2 \in Seq(T) /\ Len(s2) <= 2 /\ Range(One(1)) \subseteq Range(s2)
      /\ Range(One(2)) \subseteq Range(s2)
  BY <1>1, Concatenated
<1> HIDE DEF s2
<1>3. /\ s3 \in Seq(T) /\ Len(s3) <= 3 /\ Range(s2) \subseteq Range(s3)
      /\ Range(One(3)) \subseteq Range(s3)
  BY <1>1, <1>2, Concatenated
<1> HIDE DEF s3
<1>4. /\ s4 \in Seq(T) /\ Len(s4) <= 4 /\ Range(s3) \subseteq Range(s4)
      /\ Range(One(4)) \subseteq Range(s4)
  BY <1>1, <1>3, Concatenated
<1> HIDE DEF s4
<1>5. /\ s5 \in Seq(T) /\ Len(s5) <= 5 /\ Range(s4) \subseteq Range(s5)
      /\ Range(One(5)) \subseteq Range(s5)
  BY <1>1, <1>4, Concatenated
<1> HIDE DEF s5
<1>6. /\ s6 \in Seq(T) /\ Len(s6) <= 6 /\ Range(s5) \subseteq Range(s6)
      /\ Range(One(6)) \subseteq Range(s6)
  BY <1>1, <1>5, Concatenated
<1> HIDE DEF s6
<1>7. /\ s7 \in Seq(T) /\ Len(s7) <= 7 /\ Range(s6) \subseteq Range(s7)
      /\ Range(One(7)) \subseteq Range(s7)
  BY <1>1, <1>6, Concatenated
<1> HIDE DEF s7
<1>8. /\ s8 \in Seq(T) /\ Len(s8) <= 8 /\ Range(s7) \subseteq Range(s8)
      /\ Range(One(8)) \subseteq Range(s8)
  BY <1>1, <1>7, Concatenated DEF s8
<1>9. \A i \in 1..8 : Range(One(i)) \subseteq Range(s8)
  <2> SUFFICES ASSUME NEW i \in 1..8 PROVE Range(One(i)) \subseteq Range(s8)
    OBVIOUS
  <2>1. i = 1 \/ i = 2 \/ i = 3 \/ i = 4 \/ i = 5 \/ i = 6 \/ i = 7 \/ i = 8
    OBVIOUS
  <2> QED BY <1>2, <1>3, <1>4, <1>5, <1>6, <1>7, <1>8, <2>1
<1>10. p.tools \subseteq Range(s8)
  <2> SUFFICES ASSUME NEW x \in p.tools PROVE x \in Range(s8)
    OBVIOUS
  <2>1. PICK i \in 1..8 : x = ToolNames[i]
    BY LenToolNames DEF Range
  <2> QED BY <1>1, <1>9, <2>1
<1> QED BY <1>0, <1>8, <1>10 DEF T

\* The window over the tools so far and a text's has all of the text's.
LEMMA WindowHasTools ==
  ASSUME NEW tools \in Seq(Range(ToolNames)), NEW p, p.tools \subseteq Range(ToolNames)
  PROVE  LET pushed == tools \o Named(p)
             over   == IF Len(pushed) > MaxToolCalls THEN Len(pushed) - MaxToolCalls ELSE 0
             window == SubSeq(pushed, over + 1, Len(pushed)) IN
         window \in Seq(Range(ToolNames)) /\ p.tools \subseteq Range(window)
<1> DEFINE T == Range(ToolNames)
           pushed == tools \o Named(p)
           over   == IF Len(pushed) > MaxToolCalls THEN Len(pushed) - MaxToolCalls ELSE 0
           window == SubSeq(pushed, over + 1, Len(pushed))
<1>1. /\ Named(p) \in Seq(T) /\ Len(Named(p)) <= 8 /\ p.tools \subseteq Range(Named(p))
  BY NamedAll
<1>2. /\ pushed \in Seq(T) /\ Len(pushed) = Len(tools) + Len(Named(p))
      /\ Len(tools) \in Nat /\ Len(Named(p)) \in Nat
      /\ DOMAIN Named(p) = 1..Len(Named(p))
  BY <1>1, Concatenated, LenProperties
<1>3. \A i \in 1..Len(Named(p)) : pushed[Len(tools) + i] = Named(p)[i]
  <2> SUFFICES ASSUME NEW i \in 1..Len(Named(p)) PROVE pushed[Len(tools) + i] = Named(p)[i]
    OBVIOUS
  <2>1. /\ Len(tools) + i \in 1..(Len(tools) + Len(Named(p))) /\ ~(Len(tools) + i <= Len(tools))
        /\ (Len(tools) + i) - Len(tools) = i
    BY <1>2
  <2> QED BY <1>1, <2>1, ConcatProperties
<1> HIDE DEF pushed
<1>4. MaxToolCalls \in Nat /\ MaxToolCalls >= 8
  BY OverWatchAssumption, LenToolNames
<1>5. over \in Nat /\ over <= Len(tools) /\ Len(pushed) \in Nat /\ over <= Len(pushed)
  BY <1>1, <1>2, <1>4
<1> HIDE DEF over
<1>6. \A i \in (over + 1)..Len(pushed) : pushed[i] \in T
  BY <1>2, <1>5, ElementOfSeq
<1>7. /\ window \in Seq(T)
      /\ Len(window) = (IF over + 1 <= Len(pushed) THEN Len(pushed) - (over + 1) + 1 ELSE 0)
      /\ \A i \in 1..(Len(pushed) - (over + 1) + 1) : window[i] = pushed[(over + 1) + i - 1]
  BY <1>5, <1>6, SubSeqProperties
<1> HIDE DEF window
<1>8. Len(window) = Len(pushed) - over /\ DOMAIN window = 1..Len(window)
  BY <1>5, <1>7, LenProperties
<1>9. p.tools \subseteq Range(window)
  <2> SUFFICES ASSUME NEW i \in 1..Len(Named(p)) PROVE Named(p)[i] \in Range(window)
    BY <1>1, <1>2 DEF Range
  <2> DEFINE k == Len(tools) - over + i
  <2>1. /\ k \in 1..(Len(pushed) - (over + 1) + 1) /\ k \in 1..Len(window)
        /\ (over + 1) + k - 1 = Len(tools) + i
    BY <1>2, <1>5, <1>8
  <2> HIDE DEF k
  <2>2. window[k] = Named(p)[i]
    BY <1>3, <1>7, <2>1
  <2> QED BY <1>8, <2>1, <2>2 DEF Range
<1> QED BY <1>7, <1>9 DEF T, window, over, pushed

-----------------------------------------------------------------------------
(* Evaluations and their past: the inductive invariant.                    *)

\* What past adds up.
Sums == {"turns", "drift", "suspicious", "cmd", "families"}

PastSum == [turns : Nat, drift : Nat, suspicious : Nat, cmd : Nat, families : Nat]

Fingerprints ==
  [turn_count : Nat, drift : Nat, tools : Seq(Range(ToolNames)), SUSPICION : Nat,
   CMD_STYLE_INJ : Nat, Q09 : Nat]

Typed ==
  /\ past \in [Sessions -> PastSum]
  /\ DOMAIN sessions \subseteq Sessions
  /\ \A s \in DOMAIN sessions : sessions[s] \in Fingerprints
  /\ \A c \in Callers :
       /\ call[c].pc = "enter" \/ Evaluating(c) =>
            call[c].session \in Sessions /\ call[c].payload \in Payload /\ call[c].drift \in Nat
       /\ Evaluating(c) => call[c].before \in PastSum

\* A session is not reset while somebody evaluates, so that past only grows.
BeforeIsPast ==
  \A c \in Callers : Evaluating(c) =>
    \A f \in Sums : call[c].before[f] <= past[call[c].session][f]

\* What a text adds to each sum, and the same of a fingerprint.
Adds(p) ==
  [turns |-> 1, drift |-> p.drift, suspicious |-> Bit(p.suspicious), cmd |-> Bit(p.cmd),
   families |-> p.families]

Level(fp) ==
  [turns |-> fp.turn_count, drift |-> fp.drift, suspicious |-> fp.SUSPICION,
   cmd |-> fp.CMD_STYLE_INJ, families |-> fp.Q09]

\* Where the text of an evaluation is in the fingerprint already, but not in past.
Taken ==
  [turns |-> {"tools", "suspicion", "cmd", "q09"}, drift |-> {"tools", "suspicion", "cmd", "q09"},
   suspicious |-> {"cmd", "q09"}, cmd |-> {"q09"}, families |-> {}]

Weight(s, f) ==
  [c \in Callers |->
     IF call[c].session = s /\ call[c].pc \in Taken[f] THEN Adds(call[c].payload)[f] ELSE 0]

Entry(s) == IF s \in DOMAIN sessions THEN sessions[s] ELSE SessionFingerprint

\* A fingerprint has all that was completed and what those under way have put there.
Balanced ==
  \A s \in Sessions, f \in Sums : Level(Entry(s))[f] >= past[s][f] + Total(Weight(s, f))

\* What an evaluation has found is what was due at the acquisitions it has behind it.
Reported(c) ==
  LET p == call[c].payload
      v == call[c].violations IN
  /\ call[c].pc \in {"tools", "suspicion", "cmd", "q09"} =>
       (call[c].before.drift + p.drift > DriftThreshold => "CONVERSATION_DRIFT" \in v)
  /\ call[c].pc \in {"suspicion", "cmd", "q09"} =>
       (Chain(p.tools) => "TOOL_CHAIN_ESCALATION" \in v)
  /\ call[c].pc \in {"cmd", "q09"} =>
       (call[c].before.suspicious + Bit(p.suspicious) > SuspicionLimit =>
          "MULTI_TURN_INJECTION_CAMPAIGN" \in v)
  /\ call[c].pc = "q09" =>
       (call[c].before.cmd + Bit(p.cmd) >= 3 => "CMD_INJECTION_CAMPAIGN" \in v)
  /\ call[c].pc = "judged" => Due(call[c].before, p) \subseteq v

EInv == IInv /\ Typed /\ BeforeIsPast /\ Balanced /\ \A c \in Callers : Reported(c)

-----------------------------------------------------------------------------
(* What the sums are made of.                                              *)

LEMMA SumValues ==
  ASSUME NEW sum \in PastSum
  PROVE  \A f \in Sums : sum[f] \in Nat
BY DEF PastSum, Sums

LEMMA AddsValues ==
  ASSUME NEW p \in Payload
  PROVE  Adds(p) \in PastSum
<1>1. /\ p.drift \in Nat /\ p.families \in 0..6
      /\ p.suspicious \in BOOLEAN /\ p.cmd \in BOOLEAN
  BY DEF Payload
<1>2. Bit(p.suspicious) \in Nat /\ Bit(p.cmd) \in Nat
  BY DEF Bit
<1> QED BY <1>1, <1>2 DEF Adds, PastSum

LEMMA LevelValues ==
  ASSUME NEW fp \in Fingerprints
  PROVE  Level(fp) \in PastSum
BY DEF Fingerprints, Level, PastSum

LEMMA FreshFingerprint ==
  /\ SessionFingerprint \in Fingerprints /\ Nothing \in PastSum
  /\ \A f \in Sums : Level(SessionFingerprint)[f] = 0 /\ Nothing[f] = 0
<1>1. SessionFingerprint \in Fingerprints
  BY EmptySeq DEF SessionFingerprint, Fingerprints
<1>2. Nothing \in PastSum
  BY DEF Nothing, PastSum
<1>3. \A f \in Sums : Level(SessionFingerprint)[f] = 0 /\ Nothing[f] = 0
  BY DEF SessionFingerprint, Level, Nothing, Sums
<1> QED BY <1>1, <1>2, <1>3

LEMMA EntryTyped ==
  ASSUME Typed, NEW s
  PROVE  Entry(s) \in Fingerprints
BY FreshFingerprint DEF Typed, Entry

LEMMA AddedSum ==
  ASSUME NEW sum \in PastSum, NEW p \in Payload
  PROVE  Added(sum, p) \in PastSum /\ \A f \in Sums : Added(sum, p)[f] = sum[f] + Adds(p)[f]
<1>1. Adds(p) \in PastSum
  BY AddsValues
<1>2. /\ Adds(p).turns = 1 /\ Adds(p).drift = p.drift /\ Adds(p).suspicious = Bit(p.suspicious)
      /\ Adds(p).cmd = Bit(p.cmd) /\ Adds(p).families = p.families
  BY DEF Adds
<1>3. /\ Adds(p).turns \in Nat /\ Adds(p).drift \in Nat /\ Adds(p).suspicious \in Nat
      /\ Adds(p).cmd \in Nat /\ Adds(p).families \in Nat
      /\ sum.turns \in Nat /\ sum.drift \in Nat /\ sum.suspicious \in Nat
      /\ sum.cmd \in Nat /\ sum.families \in Nat
  BY <1>1 DEF PastSum
<1>4. Added(sum, p) = [turns |-> sum.turns + Adds(p).turns, drift |-> sum.drift + Adds(p).drift,
                       suspicious |-> sum.suspicious + Adds(p).suspicious,
                       cmd |-> sum.cmd + Adds(p).cmd, families |-> sum.families + Adds(p).families]
  BY <1>2 DEF Added
<1>5. Added(sum, p) \in PastSum
  BY <1>3, <1>4 DEF PastSum
<1>6. \A f \in Sums : Added(sum, p)[f] = sum[f] + Adds(p)[f]
  BY <1>4 DEF Sums
<1> QED BY <1>5, <1>6

\* The weights are numbers.
LEMMA WeightTyped ==
  ASSUME Typed, NEW s \in Sessions, NEW f \in Sums
  PROVE  Weight(s, f) \in Weights
<1>1. ASSUME NEW c \in Callers, call[c].pc \in Taken[f]
      PROVE  Adds(call[c].payload)[f] \in Nat
  <2>1. call[c].pc \in {"tools", "suspicion", "cmd", "q09"}
    BY <1>1 DEF Taken, Sums
  <2>2. call[c].payload \in Payload
    BY <2>1 DEF Typed, Evaluating
  <2> QED BY <2>2, AddsValues, SumValues
<1> QED BY <1>1 DEF Weight, Weights

Weighted == \A s \in Sessions, f \in Sums : Weight(s, f) \in Weights

LEMMA WeightsTyped == Typed => Weighted
BY WeightTyped DEF Weighted

\* What an evaluation began with and what it has put into the fingerprint is there.
LEMMA PastInEntry ==
  ASSUME EInv, NEW c \in Callers, Evaluating(c), NEW f \in Sums
  PROVE  LET own == IF call[c].pc \in Taken[f] THEN Adds(call[c].payload)[f] ELSE 0 IN
         /\ call[c].before[f] \in Nat /\ own \in Nat /\ Adds(call[c].payload)[f] \in Nat
         /\ Level(Entry(call[c].session))[f] \in Nat
         /\ call[c].before[f] + own <= Level(Entry(call[c].session))[f]
<1> USE DEF EInv
<1> DEFINE s == call[c].session
           own == IF call[c].pc \in Taken[f] THEN Adds(call[c].payload)[f] ELSE 0
<1>1. s \in Sessions /\ call[c].payload \in Payload /\ call[c].before \in PastSum /\ past[s] \in PastSum
  BY DEF Typed
<1>2. /\ Adds(call[c].payload)[f] \in Nat /\ call[c].before[f] \in Nat /\ past[s][f] \in Nat
      /\ Level(Entry(s))[f] \in Nat
  BY <1>1, AddsValues, LevelValues, EntryTyped, SumValues
<1>3. /\ Total(Weight(s, f)) \in Nat /\ Weight(s, f)[c] \in Nat
      /\ Total(Weight(s, f)) >= Weight(s, f)[c]
  BY <1>1, WeightTyped, TotalAtLeast
<1>4. Weight(s, f)[c] = own
  BY DEF Weight
<1>5. call[c].before[f] <= past[s][f]
  BY DEF BeforeIsPast
<1>6. Level(Entry(s))[f] >= past[s][f] + Total(Weight(s, f))
  BY <1>1 DEF Balanced
<1> HIDE DEF s, own
<1>7. own \in Nat /\ call[c].before[f] + own <= Level(Entry(s))[f]
  BY <1>2, <1>3, <1>4, <1>5, <1>6
<1> QED BY <1>2, <1>7 DEF s, own

-----------------------------------------------------------------------------
(* What a step of one caller leaves to the others.                         *)

LEMMA OthersStay ==
  ASSUME EInv, NEW c \in Callers, \A d \in Callers : d # c => call'[d] = call[d],
         past' \in [Sessions -> PastSum], DOMAIN sessions' \subseteq Sessions,
         \A s \in DOMAIN sessions' : sessions'[s] \in Fingerprints,
         call'[c].pc = "enter" \/ Evaluating(c)' =>
           call'[c].session \in Sessions /\ call'[c].payload \in Payload /\ call'[c].drift \in Nat,
         Evaluating(c)' => /\ call'[c].before \in PastSum
                           /\ \A f \in Sums : call'[c].before[f] <= past'[call'[c].session][f],
         \/ \A s \in Sessions, f \in Sums : past[s][f] <= past'[s][f]
         \/ \A d \in Callers : ~Evaluating(d),
         Reported(c)'
  PROVE  Typed' /\ BeforeIsPast' /\ \A d \in Callers : Reported(d)'
<1> USE DEF EInv
<1>1. ASSUME NEW d \in Callers, d # c
      PROVE  /\ call'[d] = call[d] /\ Evaluating(d)' = Evaluating(d) /\ Reported(d)'
  <2>1. call'[d] = call[d]
    BY <1>1
  <2>2. Evaluating(d)' = Evaluating(d)
    BY <2>1 DEF Evaluating
  <2>3. Reported(d)'
    BY <2>1 DEF Reported
  <2> QED BY <2>1, <2>2, <2>3
<1>2. Typed'
  <2>1. ASSUME NEW d \in Callers
        PROVE  /\ call'[d].pc = "enter" \/ Evaluating(d)' =>
                    /\ call'[d].session \in Sessions /\ call'[d].payload \in Payload
                    /\ call'[d].drift \in Nat
               /\ Evaluating(d)' => call'[d].before \in PastSum
    <3>1. CASE d = c
      BY <3>1
    <3>2. CASE d # c
      BY <1>1, <3>2 DEF Typed
    <3> QED BY <3>1, <3>2
  <2> QED BY <2>1 DEF Typed
<1>3. BeforeIsPast'
  <2> SUFFICES ASSUME NEW d \in Callers, Evaluating(d)', NEW f \in Sums
               PROVE  call'[d].before[f] <= past'[call'[d].session][f]
    BY DEF BeforeIsPast
  <2>1. CASE d = c
    BY <2>1
  <2>2. CASE d # c
    <3>1. call'[d] = call[d] /\ Evaluating(d)
      BY <1>1, <2>2
    <3>2. call[d].session \in Sessions /\ call[d].before \in PastSum
      BY <3>1 DEF Typed
    <3>3. call[d].before[f] <= past[call[d].session][f]
      BY <3>1 DEF BeforeIsPast
    <3>4. past[call[d].session][f] <= past'[call[d].session][f]
      BY <3>1, <3>2
    <3>5. past[call[d].session] \in PastSum /\ past'[call[d].session] \in PastSum
      BY <3>2 DEF Typed
    <3>6. /\ call[d].before[f] \in Nat /\ past[call[d].session][f] \in Nat
          /\ past'[call[d].session][f] \in Nat
      BY <3>2, <3>5, SumValues
    <3> QED BY <3>1, <3>3, <3>4, <3>6
  <2> QED BY <2>1, <2>2
<1>4. ASSUME NEW d \in Callers PROVE Reported(d)'
  <2>1. CASE d = c
    BY <2>1
  <2>2. CASE d # c
    BY <1>1, <2>2
  <2> QED BY <2>1, <2>2
<1> QED BY <1>2, <1>3, <1>4

\* The balance of a session, when one caller's weight changes.
LEMMA BalanceKept ==
  ASSUME EInv, Typed', NEW c \in Callers, \A d \in Callers : d # c => call'[d] = call[d],
         NEW s \in Sessions, NEW f \in Sums,
         Level(Entry(s)')[f] + past[s][f] + Weight(s, f)[c]
           >= Level(Entry(s))[f] + past'[s][f] + Weight(s, f)'[c]
  PROVE  Level(Entry(s)')[f] >= past'[s][f] + Total(Weight(s, f)')
<1> USE DEF EInv
<1>1. Weight(s, f) \in Weights
  BY WeightTyped
<1>2. Weight(s, f)' \in Weights
  <2>1. Typed' => Weighted'
    BY WeightsTyped, PTL
  <2> QED BY <2>1 DEF Weighted
<1>3. \A d \in Callers : d # c => Weight(s, f)'[d] = Weight(s, f)[d]
  BY DEF Weight
<1>4. /\ Total(Weight(s, f)) \in Nat /\ Total(Weight(s, f)') \in Nat
      /\ Weight(s, f)[c] \in Nat /\ Weight(s, f)'[c] \in Nat
      /\ Total(Weight(s, f)') + Weight(s, f)[c] = Total(Weight(s, f)) + Weight(s, f)'[c]
  BY <1>1, <1>2, <1>3, TotalChanges
<1>5. past[s] \in PastSum /\ past'[s] \in PastSum
  BY DEF Typed
<1>6. Entry(s) \in Fingerprints /\ Entry(s)' \in Fingerprints
  BY FreshFingerprint DEF Typed, Entry
<1>7. /\ past[s][f] \in Nat /\ past'[s][f] \in Nat
      /\ Level(Entry(s))[f] \in Nat /\ Level(Entry(s)')[f] \in Nat
  BY <1>5, <1>6, LevelValues, SumValues
<1>8. Level(Entry(s))[f] >= past[s][f] + Total(Weight(s, f))
  BY DEF Balanced
<1> QED BY <1>4, <1>7, <1>8

-----------------------------------------------------------------------------
(* The acquisitions.                                                       *)

PastKept == Typed' /\ BeforeIsPast' /\ Balanced' /\ \A d \in Callers : Reported(d)'

\* The entry is found, and becomes fp.
LEMMA AcquisitionEffect ==
  ASSUME EInv, NEW c \in Callers, Evaluating(c), NEW fp \in Fingerprints, NEW ev,
         ev = [f \in Fields |-> ev[f]], Acquisition(c, fp, ev)
  PROVE  /\ call'[c] = ev /\ (\A d \in Callers : d # c => call'[d] = call[d]) /\ past' = past
         /\ DOMAIN sessions' = DOMAIN sessions /\ call[c].session \in Sessions
         /\ Entry(call[c].session) = sessions[call[c].session]
         /\ \A s \in DOMAIN sessions' : sessions'[s] \in Fingerprints
         /\ \A s : Entry(s)' = IF s = call[c].session THEN fp ELSE Entry(s)
<1> USE DEF EInv, IInv
<1>1. call[c].session \in DOMAIN sessions
  BY DEF Entries
<1>2. /\ sessions' = [sessions EXCEPT ![call[c].session] = fp] /\ past' = past
      /\ call' = [call EXCEPT ![c] = ev]
  BY <1>1 DEF Acquisition
<1>3. call'[c] = ev /\ \A d \in Callers : d # c => call'[d] = call[d]
  BY <1>2, Recorded
<1>4. DOMAIN sessions' = DOMAIN sessions
  BY <1>2
<1>5. \A s \in DOMAIN sessions : sessions'[s] = IF s = call[c].session THEN fp ELSE sessions[s]
  BY <1>2
<1>6. \A s \in DOMAIN sessions' : sessions'[s] \in Fingerprints
  BY <1>4, <1>5 DEF Typed
<1>7. \A s : Entry(s)' = IF s = call[c].session THEN fp ELSE Entry(s)
  BY <1>1, <1>4, <1>5 DEF Entry
<1>8. call[c].session \in Sessions
  BY DEF Typed
<1> QED BY <1>1, <1>2, <1>3, <1>4, <1>6, <1>7, <1>8 DEF Entry

\* An acquisition puts at least as much of the text into the fingerprint as it takes
\* from what is still to be put there.
LEMMA AcquisitionStep ==
  ASSUME EInv, NEW c \in Callers, Evaluating(c), NEW fp \in Fingerprints, NEW ev,
         ev = [f \in Fields |-> ev[f]], Acquisition(c, fp, ev),
         ev.session = call[c].session, ev.payload = call[c].payload, ev.before = call[c].before,
         ev.drift \in Nat, ev.pc \in {"tools", "suspicion", "cmd", "q09"},
         \A f \in Sums :
           Level(fp)[f] + (IF call[c].pc \in Taken[f] THEN Adds(call[c].payload)[f] ELSE 0)
             >= Level(Entry(call[c].session))[f]
                  + (IF ev.pc \in Taken[f] THEN Adds(call[c].payload)[f] ELSE 0),
         Reported(c)'
  PROVE  PastKept
<1> USE DEF EInv
<1> DEFINE s0 == call[c].session
<1>1. /\ call'[c] = ev /\ (\A d \in Callers : d # c => call'[d] = call[d]) /\ past' = past
      /\ DOMAIN sessions' = DOMAIN sessions /\ s0 \in Sessions
      /\ \A s \in DOMAIN sessions' : sessions'[s] \in Fingerprints
      /\ \A s : Entry(s)' = IF s = s0 THEN fp ELSE Entry(s)
  BY AcquisitionEffect
<1>2. /\ call'[c].session = s0 /\ call'[c].payload = call[c].payload
      /\ call'[c].before = call[c].before /\ call'[c].drift \in Nat
      /\ call[c].payload \in Payload /\ call[c].before \in PastSum
  BY <1>1 DEF Typed
<1>3. \A f \in Sums : call'[c].before[f] <= past'[call'[c].session][f]
  BY <1>1, <1>2 DEF BeforeIsPast
<1>4. \A s \in Sessions, f \in Sums : past[s][f] <= past'[s][f]
  <2> SUFFICES ASSUME NEW s \in Sessions, NEW f \in Sums PROVE past[s][f] <= past'[s][f]
    OBVIOUS
  <2>1. past[s][f] \in Nat
    BY SumValues DEF Typed
  <2> QED BY <1>1, <2>1
<1>5. past' \in [Sessions -> PastSum] /\ DOMAIN sessions' \subseteq Sessions
  BY <1>1 DEF Typed
<1>6. Typed' /\ BeforeIsPast' /\ \A d \in Callers : Reported(d)'
  BY <1>1, <1>2, <1>3, <1>4, <1>5, OthersStay
<1>7. Balanced'
  <2> SUFFICES ASSUME NEW s \in Sessions, NEW f \in Sums
               PROVE  Level(Entry(s)')[f] >= past'[s][f] + Total(Weight(s, f)')
    BY DEF Balanced
  <2>1. past[s][f] \in Nat /\ Level(Entry(s))[f] \in Nat /\ Adds(call[c].payload)[f] \in Nat
        /\ Level(fp)[f] \in Nat
    BY <1>2, SumValues, LevelValues, EntryTyped, AddsValues DEF Typed
  <2>2. /\ Weight(s, f)[c] =
             IF s0 = s /\ call[c].pc \in Taken[f] THEN Adds(call[c].payload)[f] ELSE 0
        /\ Weight(s, f)'[c] =
             IF s0 = s /\ ev.pc \in Taken[f] THEN Adds(call[c].payload)[f] ELSE 0
    BY <1>1, <1>2 DEF Weight
  <2>3. Level(Entry(s)')[f] + past[s][f] + Weight(s, f)[c]
           >= Level(Entry(s))[f] + past'[s][f] + Weight(s, f)'[c]
    <3>1. CASE s = s0
      <4>1. Entry(s)' = fp /\ past'[s][f] = past[s][f]
        BY <1>1, <3>1
      <4>2. Level(fp)[f] + Weight(s, f)[c] >= Level(Entry(s))[f] + Weight(s, f)'[c]
        BY <2>2, <3>1
      <4>3. Weight(s, f)[c] \in Nat /\ Weight(s, f)'[c] \in Nat
        BY <2>1, <2>2
      <4> QED BY <2>1, <4>1, <4>2, <4>3
    <3>2. CASE s # s0
      <4>1. Entry(s)' = Entry(s) /\ past'[s][f] = past[s][f]
        BY <1>1, <3>2
      <4>2. Weight(s, f)[c] = 0 /\ Weight(s, f)'[c] = 0
        BY <2>2, <3>2
      <4> QED BY <2>1, <4>1, <4>2
    <3> QED BY <3>1, <3>2
  <2> QED BY <1>1, <1>6, <2>3, BalanceKept
<1> QED BY <1>6, <1>7 DEF PastKept

\* Drift that is fast adds to itself.
LEMMA DriftedMore ==
  ASSUME NEW drift \in Nat, NEW turns \in Nat \ {0}
  PROVE  Drifted(drift, turns) \in Nat /\ Drifted(drift, turns) >= drift
<1>1. \A n \in Nat, k \in Nat \ {0} : n \div k \in Nat
  OBVIOUS
<1>2. 2 * turns \in Nat \ {0}
  OBVIOUS
<1>3. drift \div (2 * turns) \in Nat
  BY <1>1, <1>2
<1> QED BY <1>3 DEF Drifted

LEMMA DriftStep ==
  ASSUME EInv, NEW c \in Callers, Drift(c)
  PROVE  PastKept
<1> USE DEF EInv
<1> DEFINE p == call[c].payload
           old == sessions[call[c].session]
           turns == old.turn_count + 1
           drift == Drifted(old.drift + p.drift, turns)
           fp == [old EXCEPT !.turn_count = turns, !.drift = drift]
           found == {v \in {"CONVERSATION_DRIFT"} : drift > DriftThreshold}
           ev == [call[c] EXCEPT !.pc = "tools", !.drift = drift, !.violations = found]
<1>1. call[c].pc = "drift" /\ Acquisition(c, fp, ev) /\ Evaluating(c)
  BY DEF Drift, Evaluating
<1>2. /\ call[c].session \in DOMAIN sessions /\ old \in Fingerprints /\ p \in Payload
      /\ call[c].before \in PastSum
  BY <1>1 DEF IInv, Entries, Typed
<1>3. Entry(call[c].session) = old
  BY <1>2 DEF Entry
<1>4. old.turn_count \in Nat /\ old.drift \in Nat /\ p.drift \in Nat
  BY <1>2 DEF Fingerprints, Payload
<1>5. turns \in Nat \ {0} /\ old.drift + p.drift \in Nat
  BY <1>4
<1>6. drift \in Nat /\ drift >= old.drift + p.drift
  BY <1>5, DriftedMore
<1> HIDE DEF turns, drift
<1>7. /\ fp \in Fingerprints /\ fp.turn_count = turns /\ fp.drift = drift
      /\ fp.SUSPICION = old.SUSPICION /\ fp.CMD_STYLE_INJ = old.CMD_STYLE_INJ /\ fp.Q09 = old.Q09
  BY <1>2, <1>5, <1>6 DEF Fingerprints
<1>8. /\ ev = [f \in Fields |-> ev[f]] /\ ev.session = call[c].session /\ ev.payload = p
      /\ ev.before = call[c].before /\ ev.drift = drift /\ ev.pc = "tools"
      /\ ev.violations = found
  <2>1. call[c] = [f \in Fields |-> call[c][f]]
    BY DEF IInv, Shaped
  <2> QED BY <2>1 DEF Fields
<1>9. ASSUME NEW f \in Sums
      PROVE  Level(fp)[f] + (IF call[c].pc \in Taken[f] THEN Adds(p)[f] ELSE 0)
               >= Level(Entry(call[c].session))[f] + (IF ev.pc \in Taken[f] THEN Adds(p)[f] ELSE 0)
  <2>0. Level(old)[f] \in Nat
    BY <1>2, LevelValues, SumValues
  <2>1. call[c].pc \notin Taken[f]
    BY <1>1 DEF Taken, Sums
  <2>2. CASE f = "turns"
    <3>1. Level(fp)[f] = turns /\ Level(old)[f] = old.turn_count /\ Adds(p)[f] = 1
      BY <1>7, <2>2 DEF Level, Adds
    <3> QED BY <1>3, <1>4, <2>1, <3>1 DEF turns
  <2>3. CASE f = "drift"
    <3>1. Level(fp)[f] = drift /\ Level(old)[f] = old.drift /\ Adds(p)[f] = p.drift
      BY <1>7, <2>3 DEF Level, Adds
    <3> QED BY <1>3, <1>4, <1>6, <2>1, <3>1
  <2>4. CASE f \notin {"turns", "drift"}
    <3>1. ev.pc \notin Taken[f]
      BY <1>8, <2>4 DEF Taken, Sums
    <3>2. Level(fp)[f] = Level(old)[f]
      BY <1>7, <2>4 DEF Level, Sums
    <3> QED BY <1>3, <2>0, <2>1, <3>1, <3>2
  <2> QED BY <2>2, <2>3, <2>4
<1> HIDE DEF fp, ev
<1>10. call'[c] = ev
  BY <1>1, <1>7, <1>8, AcquisitionEffect
<1>11. call[c].before.drift + p.drift <= drift
  <2>1. /\ call[c].before["drift"] \in Nat /\ Level(old)["drift"] \in Nat
        /\ call[c].before["drift"] + 0 <= Level(old)["drift"]
    <3>1. "drift" \in Sums /\ call[c].pc \notin Taken["drift"]
      BY <1>1 DEF Sums, Taken
    <3> QED BY <1>1, <1>3, <3>1, PastInEntry
  <2>2. Level(old)["drift"] = old.drift /\ call[c].before["drift"] = call[c].before.drift
    BY DEF Level
  <2> QED BY <1>4, <1>6, <2>1, <2>2
<1>12. Reported(c)'
  <2>1. call[c].before.drift + p.drift > DriftThreshold => "CONVERSATION_DRIFT" \in found
    <3>1. call[c].before.drift \in Nat /\ DriftThreshold \in Nat
      BY <1>2, OverWatchAssumption DEF PastSum
    <3> QED BY <1>4, <1>6, <1>11, <3>1
  <2> HIDE DEF found
  <2> QED BY <1>8, <1>10, <2>1 DEF Reported
<1> QED BY <1>1, <1>6, <1>7, <1>8, <1>9, <1>12, AcquisitionStep

LEMMA ToolsStep ==
  ASSUME EInv, NEW c \in Callers, Tools(c)
  PROVE  PastKept
<1> USE DEF EInv
<1> DEFINE p == call[c].payload
           old == sessions[call[c].session]
           pushed == old.tools \o Named(p)
           over == IF Len(pushed) > MaxToolCalls THEN Len(pushed) - MaxToolCalls ELSE 0
           window == SubSeq(pushed, over + 1, Len(pushed))
           fp == [old EXCEPT !.tools = window]
           found == call[c].violations
                      \cup {v \in {"TOOL_CHAIN_ESCALATION"} : Chain(Range(window))}
           ev == [call[c] EXCEPT !.pc = "suspicion", !.violations = found]
<1>1. call[c].pc = "tools" /\ Acquisition(c, fp, ev) /\ Evaluating(c)
  BY DEF Tools, Evaluating
<1>2. call[c].session \in DOMAIN sessions /\ old \in Fingerprints /\ p \in Payload
      /\ call[c].drift \in Nat
  BY <1>1 DEF IInv, Entries, Typed
<1>3. Entry(call[c].session) = old
  BY <1>2 DEF Entry
<1>4. old.tools \in Seq(Range(ToolNames)) /\ p.tools \subseteq Range(ToolNames)
  BY <1>2 DEF Fingerprints, Payload
<1>5. window \in Seq(Range(ToolNames)) /\ p.tools \subseteq Range(window)
  BY <1>4, WindowHasTools
<1> HIDE DEF window
<1>6. /\ fp \in Fingerprints /\ fp.turn_count = old.turn_count /\ fp.drift = old.drift
      /\ fp.SUSPICION = old.SUSPICION /\ fp.CMD_STYLE_INJ = old.CMD_STYLE_INJ /\ fp.Q09 = old.Q09
  BY <1>2, <1>5 DEF Fingerprints
<1>7. /\ ev = [f \in Fields |-> ev[f]] /\ ev.session = call[c].session /\ ev.payload = p
      /\ ev.before = call[c].before /\ ev.drift = call[c].drift /\ ev.pc = "suspicion"
      /\ ev.violations = found
  <2>1. call[c] = [f \in Fields |-> call[c][f]]
    BY DEF IInv, Shaped
  <2> QED BY <2>1 DEF Fields
<1>8. ASSUME NEW f \in Sums
      PROVE  Level(fp)[f] + (IF call[c].pc \in Taken[f] THEN Adds(p)[f] ELSE 0)
               >= Level(Entry(call[c].session))[f] + (IF ev.pc \in Taken[f] THEN Adds(p)[f] ELSE 0)
  <2>1. Level(fp) = Level(old)
    BY <1>6 DEF Level
  <2>2. call[c].pc \in Taken[f] <=> ev.pc \in Taken[f]
    BY <1>1, <1>7 DEF Taken, Sums
  <2>3. Level(old)[f] \in Nat /\ Adds(p)[f] \in Nat
    BY <1>2, LevelValues, AddsValues, SumValues
  <2> QED BY <1>3, <2>1, <2>2, <2>3
<1> HIDE DEF fp, ev
<1>9. call'[c] = ev
  BY <1>1, <1>6, <1>7, AcquisitionEffect
<1>10. Reported(c)'
  <2>1. Chain(p.tools) => Chain(Range(window))
    BY <1>5 DEF Chain
  <2>2. Chain(p.tools) => "TOOL_CHAIN_ESCALATION" \in found
    BY <2>1
  <2>3. call[c].before.drift + p.drift > DriftThreshold => "CONVERSATION_DRIFT" \in found
    BY <1>1 DEF Reported
  <2> HIDE DEF found
  <2> QED BY <1>7, <1>9, <2>2, <2>3 DEF Reported
<1> QED BY <1>1, <1>2, <1>6, <1>7, <1>8, <1>10, AcquisitionStep

LEMMA SuspicionStep ==
  ASSUME EInv, NEW c \in Callers, Suspicion(c)
  PROVE  PastKept
<1> USE DEF EInv
<1> DEFINE p == call[c].payload
           old == sessions[call[c].session]
           count == old.SUSPICION + Bit(p.suspicious \/ call[c].drift > 200)
           fp == [old EXCEPT !.SUSPICION = count]
           found == call[c].violations
                      \cup {v \in {"MULTI_TURN_INJECTION_CAMPAIGN"} : count > SuspicionLimit}
           ev == [call[c] EXCEPT !.pc = "cmd", !.violations = found]
<1>1. call[c].pc = "suspicion" /\ Acquisition(c, fp, ev) /\ Evaluating(c)
  BY DEF Suspicion, Evaluating
<1>2. /\ call[c].session \in DOMAIN sessions /\ old \in Fingerprints /\ p \in Payload
      /\ call[c].before \in PastSum /\ call[c].drift \in Nat
  BY <1>1 DEF IInv, Entries, Typed
<1>3. Entry(call[c].session) = old
  BY <1>2 DEF Entry
<1>4. /\ old.SUSPICION \in Nat /\ Bit(p.suspicious) \in Nat
      /\ Bit(p.suspicious \/ call[c].drift > 200) \in Nat
      /\ Bit(p.suspicious \/ call[c].drift > 200) >= Bit(p.suspicious)
  <2>1. old.SUSPICION \in Nat
    BY <1>2 DEF Fingerprints
  <2>2. CASE p.suspicious
    BY <2>1, <2>2 DEF Bit
  <2>3. CASE ~p.suspicious
    BY <2>1, <2>3 DEF Bit
  <2> QED BY <2>2, <2>3
<1>5. count \in Nat /\ count >= old.SUSPICION + Bit(p.suspicious)
  BY <1>4
<1> HIDE DEF count
<1>6. /\ fp \in Fingerprints /\ fp.turn_count = old.turn_count /\ fp.drift = old.drift
      /\ fp.SUSPICION = count /\ fp.CMD_STYLE_INJ = old.CMD_STYLE_INJ /\ fp.Q09 = old.Q09
  BY <1>2, <1>5 DEF Fingerprints
<1>7. /\ ev = [f \in Fields |-> ev[f]] /\ ev.session = call[c].session /\ ev.payload = p
      /\ ev.before = call[c].before /\ ev.drift = call[c].drift /\ ev.pc = "cmd"
      /\ ev.violations = found
  <2>1. call[c] = [f \in Fields |-> call[c][f]]
    BY DEF IInv, Shaped
  <2> QED BY <2>1 DEF Fields
<1>8. ASSUME NEW f \in Sums
      PROVE  Level(fp)[f] + (IF call[c].pc \in Taken[f] THEN Adds(p)[f] ELSE 0)
               >= Level(Entry(call[c].session))[f] + (IF ev.pc \in Taken[f] THEN Adds(p)[f] ELSE 0)
  <2>0. Level(old)[f] \in Nat /\ Adds(p)[f] \in Nat
    BY <1>2, LevelValues, AddsValues, SumValues
  <2>1. CASE f = "suspicious"
    <3>1. /\ Level(fp)[f] = count /\ Level(old)[f] = old.SUSPICION
          /\ Adds(p)[f] = Bit(p.suspicious) /\ call[c].pc \notin Taken[f]
      BY <1>1, <1>6, <2>1 DEF Level, Adds, Taken
    <3> QED BY <1>3, <1>4, <1>5, <3>1
  <2>2. CASE f # "suspicious"
    <3>1. Level(fp)[f] = Level(old)[f]
      BY <1>6, <2>2 DEF Level, Sums
    <3>2. call[c].pc \in Taken[f] <=> ev.pc \in Taken[f]
      BY <1>1, <1>7, <2>2 DEF Taken, Sums
    <3> QED BY <1>3, <2>0, <3>1, <3>2
  <2> QED BY <2>1, <2>2
<1> HIDE DEF fp, ev
<1>9. call'[c] = ev
  BY <1>1, <1>6, <1>7, AcquisitionEffect
<1>10. call[c].before.suspicious + Bit(p.suspicious) <= count
  <2>1. /\ call[c].before["suspicious"] \in Nat /\ Level(old)["suspicious"] \in Nat
        /\ call[c].before["suspicious"] + 0 <= Level(old)["suspicious"]
    <3>1. "suspicious" \in Sums /\ call[c].pc \notin Taken["suspicious"]
      BY <1>1 DEF Sums, Taken
    <3> QED BY <1>1, <1>3, <3>1, PastInEntry
  <2>2. /\ Level(old)["suspicious"] = old.SUSPICION
        /\ call[c].before["suspicious"] = call[c].before.suspicious
    BY DEF Level
  <2> QED BY <1>4, <1>5, <2>1, <2>2
<1>11. Reported(c)'
  <2>1. call[c].before.suspicious + Bit(p.suspicious) > SuspicionLimit =>
          "MULTI_TURN_INJECTION_CAMPAIGN" \in found
    <3>1. call[c].before.suspicious \in Nat /\ SuspicionLimit \in Nat
      BY <1>2, OverWatchAssumption DEF PastSum
    <3> QED BY <1>4, <1>5, <1>10, <3>1
  <2>2. /\ call[c].before.drift + p.drift > DriftThreshold => "CONVERSATION_DRIFT" \in found
        /\ Chain(p.tools) => "TOOL_CHAIN_ESCALATION" \in found
    BY <1>1 DEF Reported
  <2> HIDE DEF found
  <2> QED BY <1>7, <1>9, <2>1, <2>2 DEF Reported
<1> QED BY <1>1, <1>2, <1>6, <1>7, <1>8, <1>11, AcquisitionStep

LEMMA CmdStep ==
  ASSUME EInv, NEW c \in Callers, Cmd(c)
  PROVE  PastKept
<1> USE DEF EInv
<1> DEFINE p == call[c].payload
           old == sessions[call[c].session]
           count == old.CMD_STYLE_INJ + Bit(p.cmd)
           fp == [old EXCEPT !.CMD_STYLE_INJ = count]
           found == call[c].violations \cup {v \in {"CMD_INJECTION_CAMPAIGN"} : count >= 3}
           ev == [call[c] EXCEPT !.pc = "q09", !.violations = found]
<1>1. call[c].pc = "cmd" /\ Acquisition(c, fp, ev) /\ Evaluating(c)
  BY DEF Cmd, Evaluating
<1>2. /\ call[c].session \in DOMAIN sessions /\ old \in Fingerprints /\ p \in Payload
      /\ call[c].before \in PastSum /\ call[c].drift \in Nat
  BY <1>1 DEF IInv, Entries, Typed
<1>3. Entry(call[c].session) = old
  BY <1>2 DEF Entry
<1>4. old.CMD_STYLE_INJ \in Nat /\ Bit(p.cmd) \in Nat
  BY <1>2 DEF Fingerprints, Bit
<1>5. count \in Nat
  BY <1>4
<1>6. /\ fp \in Fingerprints /\ fp.turn_count = old.turn_count /\ fp.drift = old.drift
      /\ fp.SUSPICION = old.SUSPICION /\ fp.CMD_STYLE_INJ = count /\ fp.Q09 = old.Q09
  <2> HIDE DEF count
  <2> QED BY <1>2, <1>5 DEF Fingerprints
<1> HIDE DEF count
<1>7. /\ ev = [f \in Fields |-> ev[f]] /\ ev.session = call[c].session /\ ev.payload = p
      /\ ev.before = call[c].before /\ ev.drift = call[c].drift /\ ev.pc = "q09"
      /\ ev.violations = found
  <2>1. call[c] = [f \in Fields |-> call[c][f]]
    BY DEF IInv, Shaped
  <2> QED BY <2>1 DEF Fields
<1>8. ASSUME NEW f \in Sums
      PROVE  Level(fp)[f] + (IF call[c].pc \in Taken[f] THEN Adds(p)[f] ELSE 0)
               >= Level(Entry(call[c].session))[f] + (IF ev.pc \in Taken[f] THEN Adds(p)[f] ELSE 0)
  <2>0. Level(old)[f] \in Nat /\ Adds(p)[f] \in Nat
    BY <1>2, LevelValues, AddsValues, SumValues
  <2>1. CASE f = "cmd"
    <3>1. /\ Level(fp)[f] = count /\ Level(old)[f] = old.CMD_STYLE_INJ
          /\ Adds(p)[f] = Bit(p.cmd) /\ call[c].pc \notin Taken[f]
      BY <1>1, <1>6, <2>1 DEF Level, Adds, Taken
    <3> QED BY <1>3, <1>4, <3>1 DEF count
  <2>2. CASE f # "cmd"
    <3>1. Level(fp)[f] = Level(old)[f]
      BY <1>6, <2>2 DEF Level, Sums
    <3>2. call[c].pc \in Taken[f] <=> ev.pc \in Taken[f]
      BY <1>1, <1>7, <2>2 DEF Taken, Sums
    <3> QED BY <1>3, <2>0, <3>1, <3>2
  <2> QED BY <2>1, <2>2
<1> HIDE DEF fp, ev
<1>9. call'[c] = ev
  BY <1>1, <1>6, <1>7, AcquisitionEffect
<1>10. call[c].before.cmd + Bit(p.cmd) <= count
  <2>1. /\ call[c].before["cmd"] \in Nat /\ Level(old)["cmd"] \in Nat
        /\ call[c].before["cmd"] + 0 <= Level(old)["cmd"]
    <3>1. "cmd" \in Sums /\ call[c].pc \notin Taken["cmd"]
      BY <1>1 DEF Sums, Taken
    <3> QED BY <1>1, <1>3, <3>1, PastInEntry
  <2>2. /\ Level(old)["cmd"] = old.CMD_STYLE_INJ /\ call[c].before["cmd"] = call[c].before.cmd
    BY DEF Level
  <2> QED BY <1>4, <2>1, <2>2 DEF count
<1>11. Reported(c)'
  <2>1. call[c].before.cmd + Bit(p.cmd) >= 3 => "CMD_INJECTION_CAMPAIGN" \in found
    <3>1. call[c].before.cmd \in Nat
      BY <1>2 DEF PastSum
    <3> QED BY <1>4, <1>5, <1>10, <3>1
  <2>2. /\ call[c].before.drift + p.drift > DriftThreshold => "CONVERSATION_DRIFT" \in found
        /\ Chain(p.tools) => "TOOL_CHAIN_ESCALATION" \in found
        /\ call[c].before.suspicious + Bit(p.suspicious) > SuspicionLimit =>
             "MULTI_TURN_INJECTION_CAMPAIGN" \in found
    BY <1>1 DEF Reported
  <2> HIDE DEF found
  <2> QED BY <1>7, <1>9, <2>1, <2>2 DEF Reported
<1> QED BY <1>1, <1>2, <1>6, <1>7, <1>8, <1>11, AcquisitionStep

\* More turns and more hits call for no less.
LEMMA DialecticalGrows ==
  ASSUME NEW total \in Nat, NEW more \in Nat, total <= more,
         NEW turns \in Nat, NEW later \in Nat, turns <= later
  PROVE  Dialectical(total, turns) \subseteq Dialectical(more, later)
<1>1. Q09Threshold \in Nat
  BY OverWatchAssumption
<1> QED BY <1>1 DEF Dialectical

\* The last acquisition moves the text into past.
LEMMA Q09Step ==
  ASSUME EInv, NEW c \in Callers, Q09(c)
  PROVE  PastKept
<1> USE DEF EInv
<1> DEFINE p == call[c].payload
           s0 == call[c].session
           old == sessions[s0]
           total == old.Q09 + p.families
           fp == [old EXCEPT !.Q09 = total]
           found == call[c].violations \cup Dialectical(total, old.turn_count) \cup p.stateless
           ev == [call[c] EXCEPT !.pc = "judged", !.violations = found]
<1>1. call[c].pc = "q09" /\ Evaluating(c)
  BY DEF Q09, Evaluating
<1>2. /\ s0 \in DOMAIN sessions /\ s0 \in Sessions /\ old \in Fingerprints /\ p \in Payload
      /\ call[c].before \in PastSum /\ past[s0] \in PastSum /\ past \in [Sessions -> PastSum]
  BY <1>1 DEF IInv, Entries, Typed
<1>3. /\ sessions' = [sessions EXCEPT ![s0] = fp]
      /\ call' = [call EXCEPT ![c] = ev]
      /\ past' = [past EXCEPT ![s0] = Added(past[s0], p)]
  BY <1>2 DEF Q09
<1>4. Entry(s0) = old
  BY <1>2 DEF Entry
<1>5. total \in Nat /\ old.Q09 \in Nat /\ p.families \in Nat /\ old.turn_count \in Nat
  <2>1. old.Q09 \in Nat /\ old.turn_count \in Nat
    BY <1>2 DEF Fingerprints
  <2>2. p.families \in 0..6
    BY <1>2 DEF Payload
  <2> QED BY <2>1, <2>2
<1>6. /\ fp \in Fingerprints /\ fp.turn_count = old.turn_count /\ fp.drift = old.drift
      /\ fp.SUSPICION = old.SUSPICION /\ fp.CMD_STYLE_INJ = old.CMD_STYLE_INJ /\ fp.Q09 = total
  <2> HIDE DEF total
  <2> QED BY <1>2, <1>5 DEF Fingerprints
<1> HIDE DEF total
<1>7. /\ ev = [f \in Fields |-> ev[f]] /\ ev.session = s0 /\ ev.payload = p
      /\ ev.before = call[c].before /\ ev.pc = "judged" /\ ev.violations = found
  <2>1. call[c] = [f \in Fields |-> call[c][f]]
    BY DEF IInv, Shaped
  <2> QED BY <2>1 DEF Fields
<1> HIDE DEF ev, fp
<1>8. call'[c] = ev /\ \A d \in Callers : d # c => call'[d] = call[d]
  BY <1>3, <1>7, Recorded DEF IInv
<1>9. /\ DOMAIN sessions' = DOMAIN sessions
      /\ \A s \in DOMAIN sessions : sessions'[s] = IF s = s0 THEN fp ELSE sessions[s]
  BY <1>3
<1>10. /\ \A s \in DOMAIN sessions' : sessions'[s] \in Fingerprints
       /\ DOMAIN sessions' \subseteq Sessions
  BY <1>6, <1>9 DEF Typed
<1>11. \A s : Entry(s)' = IF s = s0 THEN fp ELSE Entry(s)
  BY <1>2, <1>9 DEF Entry
<1>12. Added(past[s0], p) \in PastSum /\ \A f \in Sums : Added(past[s0], p)[f] = past[s0][f] + Adds(p)[f]
  BY <1>2, AddedSum
<1>13. past' \in [Sessions -> PastSum]
  BY <1>2, <1>3, <1>12
<1>14. \A s \in Sessions, f \in Sums :
         past'[s][f] = past[s][f] + (IF s = s0 THEN Adds(p)[f] ELSE 0)
  <2> SUFFICES ASSUME NEW s \in Sessions, NEW f \in Sums
               PROVE  past'[s][f] = past[s][f] + (IF s = s0 THEN Adds(p)[f] ELSE 0)
    OBVIOUS
  <2>1. CASE s = s0
    BY <1>2, <1>3, <1>12, <2>1
  <2>2. CASE s # s0
    <3>1. past'[s] = past[s]
      BY <1>2, <1>3, <2>2
    <3>2. past[s][f] \in Nat
      BY <1>2, SumValues
    <3> QED BY <2>2, <3>1, <3>2
  <2> QED BY <2>1, <2>2
<1>15. \A s \in Sessions, f \in Sums : past[s][f] <= past'[s][f]
  <2> SUFFICES ASSUME NEW s \in Sessions, NEW f \in Sums PROVE past[s][f] <= past'[s][f]
    OBVIOUS
  <2>1. past[s][f] \in Nat /\ Adds(p)[f] \in Nat
    BY <1>2, SumValues, AddsValues
  <2> QED BY <1>14, <2>1
<1>16. Reported(c)'
  <2> DEFINE b == call[c].before
             all == Added(b, p)
  <2>1. /\ all.drift = b.drift + p.drift /\ all.suspicious = b.suspicious + Bit(p.suspicious)
        /\ all.cmd = b.cmd + Bit(p.cmd) /\ all.families = b.families + p.families
        /\ all.turns = b.turns + 1
    BY DEF Added
  <2>2. /\ all.drift > DriftThreshold => "CONVERSATION_DRIFT" \in call[c].violations
        /\ Chain(p.tools) => "TOOL_CHAIN_ESCALATION" \in call[c].violations
        /\ all.suspicious > SuspicionLimit => "MULTI_TURN_INJECTION_CAMPAIGN" \in call[c].violations
        /\ all.cmd >= 3 => "CMD_INJECTION_CAMPAIGN" \in call[c].violations
    BY <1>1, <2>1 DEF Reported
  <2>3. b["families"] \in Nat /\ b["families"] + 0 <= Level(old)["families"]
    <3>1. "families" \in Sums /\ call[c].pc \notin Taken["families"]
      BY <1>1 DEF Sums, Taken
    <3> QED BY <1>1, <1>4, <3>1, PastInEntry
  <2>4. b["turns"] \in Nat /\ b["turns"] + Adds(p)["turns"] <= Level(old)["turns"]
    <3>1. "turns" \in Sums /\ call[c].pc \in Taken["turns"]
      BY <1>1 DEF Sums, Taken
    <3> QED BY <1>1, <1>4, <3>1, PastInEntry
  <2>5. /\ Level(old)["families"] = old.Q09 /\ Level(old)["turns"] = old.turn_count
        /\ Adds(p)["turns"] = 1
    BY DEF Level, Adds
  <2>6. /\ all.families \in Nat /\ all.families <= total
        /\ all.turns \in Nat /\ all.turns <= old.turn_count
    BY <1>5, <2>1, <2>3, <2>4, <2>5 DEF total
  <2>7. Dialectical(all.families, all.turns) \subseteq Dialectical(total, old.turn_count)
    BY <1>5, <2>6, DialecticalGrows
  <2> HIDE DEF all
  <2>8. Due(b, p) \subseteq found
    BY <2>2, <2>7 DEF Due, all
  <2> HIDE DEF found
  <2> QED BY <1>7, <1>8, <2>8 DEF Reported
<1>17. ~Evaluating(c)' /\ call'[c].pc # "enter"
  BY <1>7, <1>8 DEF Evaluating
<1>18. Typed' /\ BeforeIsPast' /\ \A d \in Callers : Reported(d)'
  BY <1>8, <1>10, <1>13, <1>15, <1>16, <1>17, OthersStay
<1>19. Balanced'
  <2> SUFFICES ASSUME NEW s \in Sessions, NEW f \in Sums
               PROVE  Level(Entry(s)')[f] >= past'[s][f] + Total(Weight(s, f)')
    BY DEF Balanced
  <2>1. /\ past[s][f] \in Nat /\ Level(Entry(s))[f] \in Nat /\ Adds(p)[f] \in Nat
        /\ past'[s][f] = past[s][f] + (IF s = s0 THEN Adds(p)[f] ELSE 0)
    BY <1>2, <1>14, SumValues, LevelValues, EntryTyped, AddsValues
  <2>2. /\ Weight(s, f)[c] = IF s0 = s /\ call[c].pc \in Taken[f] THEN Adds(p)[f] ELSE 0
        /\ Weight(s, f)'[c] = 0
    <3>1. call'[c].pc \notin Taken[f]
      BY <1>7, <1>8 DEF Taken, Sums
    <3> QED BY <3>1 DEF Weight
  <2>3. Level(Entry(s)')[f] + past[s][f] + Weight(s, f)[c]
           >= Level(Entry(s))[f] + past'[s][f] + Weight(s, f)'[c]
    <3>1. CASE s = s0 /\ f = "families"
      <4>1. /\ Level(Entry(s)')[f] = total /\ Level(Entry(s))[f] = old.Q09
            /\ Adds(p)[f] = p.families /\ call[c].pc \notin Taken[f]
        BY <1>1, <1>4, <1>6, <1>11, <3>1 DEF Level, Adds, Taken
      <4> QED BY <1>5, <2>1, <2>2, <3>1, <4>1 DEF total
    <3>2. CASE s = s0 /\ f # "families"
      <4>1. Level(Entry(s)')[f] = Level(Entry(s))[f]
        BY <1>4, <1>6, <1>11, <3>2 DEF Level, Sums
      <4>2. call[c].pc \in Taken[f]
        BY <1>1, <3>2 DEF Taken, Sums
      <4> QED BY <2>1, <2>2, <3>2, <4>1, <4>2
    <3>3. CASE s # s0
      <4>1. Entry(s)' = Entry(s)
        BY <1>11, <3>3
      <4> QED BY <2>1, <2>2, <3>3, <4>1
    <3> QED BY <3>1, <3>2, <3>3
  <2> QED BY <1>8, <1>18, <2>3, BalanceKept
<1> QED BY <1>18, <1>19 DEF PastKept

-----------------------------------------------------------------------------
(* The other steps.                                                        *)

\* A caller with nothing of its text in a fingerprint goes to where that is so still.
LEMMA QuietStep ==
  ASSUME EInv, NEW c \in Callers, \A d \in Callers : d # c => call'[d] = call[d],
         past' = past, DOMAIN sessions' \subseteq Sessions,
         \A s \in DOMAIN sessions' : sessions'[s] \in Fingerprints,
         \A s \in Sessions : Entry(s)' = Entry(s),
         call[c].pc \notin {"tools", "suspicion", "cmd", "q09"},
         call'[c].pc \notin {"tools", "suspicion", "cmd", "q09", "judged"},
         call'[c].pc \in {"enter", "drift"} =>
           call'[c].session \in Sessions /\ call'[c].payload \in Payload /\ call'[c].drift \in Nat,
         call'[c].pc = "drift" => call'[c].before = past[call'[c].session]
  PROVE  PastKept
<1> USE DEF EInv
<1>1. Evaluating(c)' <=> call'[c].pc = "drift"
  BY DEF Evaluating
<1>2. Reported(c)'
  BY DEF Reported
<1>3. past \in [Sessions -> PastSum]
  BY DEF Typed
<1>4. \A s \in Sessions, f \in Sums : past[s][f] \in Nat
  BY <1>3, SumValues
<1>5. \A s \in Sessions, f \in Sums : past[s][f] <= past'[s][f]
  BY <1>4
<1>6. Evaluating(c)' => /\ call'[c].before \in PastSum
                        /\ \A f \in Sums : call'[c].before[f] <= past'[call'[c].session][f]
  BY <1>1, <1>3, <1>4
<1>7. Typed' /\ BeforeIsPast' /\ \A d \in Callers : Reported(d)'
  BY <1>1, <1>2, <1>3, <1>5, <1>6, OthersStay
<1>8. Balanced'
  <2> SUFFICES ASSUME NEW s \in Sessions, NEW f \in Sums
               PROVE  Level(Entry(s)')[f] >= past'[s][f] + Total(Weight(s, f)')
    BY DEF Balanced
  <2>1. call[c].pc \notin Taken[f] /\ call'[c].pc \notin Taken[f]
    BY DEF Taken, Sums
  <2>2. Weight(s, f)[c] = 0 /\ Weight(s, f)'[c] = 0
    BY <2>1 DEF Weight
  <2>3. Level(Entry(s))[f] \in Nat /\ past[s][f] \in Nat
    BY <1>4, LevelValues, EntryTyped, SumValues
  <2>4. Level(Entry(s)')[f] + past[s][f] + Weight(s, f)[c]
           >= Level(Entry(s))[f] + past'[s][f] + Weight(s, f)'[c]
    BY <2>2, <2>3
  <2> QED BY <1>7, <2>4, BalanceKept
<1> QED BY <1>7, <1>8 DEF PastKept

\* The same, when the fingerprints stay as they are.
LEMMA IdleStep ==
  ASSUME EInv, NEW c \in Callers, \A d \in Callers : d # c => call'[d] = call[d],
         past' = past, sessions' = sessions,
         call[c].pc \notin {"tools", "suspicion", "cmd", "q09"},
         call'[c].pc \notin {"drift", "tools", "suspicion", "cmd", "q09", "judged"},
         call'[c].pc = "enter" =>
           call'[c].session \in Sessions /\ call'[c].payload \in Payload /\ call'[c].drift \in Nat
  PROVE  PastKept
<1>1. /\ DOMAIN sessions' \subseteq Sessions
      /\ \A s \in DOMAIN sessions' : sessions'[s] \in Fingerprints
  BY DEF EInv, Typed
<1>2. \A s \in Sessions : Entry(s)' = Entry(s)
  BY DEF Entry
<1> QED BY <1>1, <1>2, QuietStep

LEMMA EnterStep ==
  ASSUME EInv, NEW c \in Callers, Enter(c)
  PROVE  PastKept
<1> USE DEF EInv
<1> DEFINE s0 == call[c].session
           ev == [call[c] EXCEPT !.pc = "drift", !.before = past[s0]]
<1>1. call[c].pc = "enter" /\ sessions' = Entered(s0) /\ past' = past /\ call' = [call EXCEPT ![c] = ev]
  BY DEF Enter
<1>2. s0 \in Sessions /\ call[c].payload \in Payload /\ call[c].drift \in Nat
  BY <1>1 DEF Typed
<1>3. /\ ev = [f \in Fields |-> ev[f]] /\ ev.session = s0 /\ ev.payload = call[c].payload
      /\ ev.before = past[s0] /\ ev.pc = "drift" /\ ev.drift = call[c].drift
  <2>1. call[c] = [f \in Fields |-> call[c][f]]
    BY DEF IInv, Shaped
  <2> QED BY <2>1 DEF Fields
<1> HIDE DEF ev
<1>5. call'[c] = ev /\ \A d \in Callers : d # c => call'[d] = call[d]
  BY <1>1, <1>3, Recorded DEF IInv
<1>6. /\ DOMAIN sessions' = DOMAIN sessions \cup {s0}
      /\ \A s \in DOMAIN sessions' :
           sessions'[s] = IF s \in DOMAIN sessions THEN sessions[s] ELSE SessionFingerprint
  BY <1>1 DEF Entered
<1>7. /\ DOMAIN sessions' \subseteq Sessions
      /\ \A s \in DOMAIN sessions' : sessions'[s] \in Fingerprints
  BY <1>2, <1>6, FreshFingerprint DEF Typed
<1>8. \A s \in Sessions : Entry(s)' = Entry(s)
  BY <1>6 DEF Entry
<1> QED BY <1>1, <1>2, <1>3, <1>5, <1>7, <1>8, QuietStep

\* Nobody evaluates while a session loses its entry, so nothing is under way.
LEMMA ForgetStep ==
  ASSUME EInv, NEW c \in Callers, ResetSession(c)
  PROVE  PastKept
<1> USE DEF EInv
<1> DEFINE s0 == call[c].session
<1>1. /\ call[c].pc = "drain" /\ call' = [call EXCEPT ![c].pc = "done"]
      /\ sessions' = [q \in DOMAIN sessions \ {s0} |-> sessions[q]]
      /\ past' = [past EXCEPT ![s0] = Nothing]
      /\ \A d \in Callers : ~Evaluating(d)
  BY DEF ResetSession, Alone
<1>2. /\ call'[c].pc = "done" /\ \A d \in Callers : d # c => call'[d] = call[d]
  BY <1>1, Moved DEF IInv
<1>3. /\ DOMAIN sessions' = DOMAIN sessions \ {s0}
      /\ \A s \in DOMAIN sessions' : sessions'[s] = sessions[s]
  BY <1>1
<1>4. /\ DOMAIN sessions' \subseteq Sessions
      /\ \A s \in DOMAIN sessions' : sessions'[s] \in Fingerprints
  BY <1>3 DEF Typed
<1>5. past \in [Sessions -> PastSum] /\ past' \in [Sessions -> PastSum]
  BY <1>1, FreshFingerprint DEF Typed
<1>6. Reported(c)' /\ ~Evaluating(c)'
  BY <1>2 DEF Reported, Evaluating
<1>7. Typed' /\ BeforeIsPast' /\ \A d \in Callers : Reported(d)'
  BY <1>1, <1>2, <1>4, <1>5, <1>6, OthersStay
<1>8. ASSUME NEW d \in Callers, NEW f \in Sums
      PROVE  call[d].pc \notin Taken[f] /\ call'[d].pc \notin Taken[f]
  <2>1. call[d].pc \notin Taken[f]
    BY <1>1 DEF Evaluating, Taken, Sums
  <2>2. CASE d = c
    BY <1>2, <2>1, <2>2 DEF Taken, Sums
  <2>3. CASE d # c
    BY <1>2, <2>1, <2>3
  <2> QED BY <2>1, <2>2, <2>3
<1>9. Balanced'
  <2> SUFFICES ASSUME NEW s \in Sessions, NEW f \in Sums
               PROVE  Level(Entry(s)')[f] >= past'[s][f] + Total(Weight(s, f)')
    BY DEF Balanced
  <2>1. \A d \in Callers : Weight(s, f)'[d] = 0 /\ Weight(s, f)[d] = 0
    BY <1>8 DEF Weight
  <2>2. Total(Weight(s, f)') = 0 /\ Total(Weight(s, f)) = 0
    BY <2>1, TotalZero
  <2>3. CASE s = s0
    <3>1. Entry(s)' = SessionFingerprint
      BY <1>3, <2>3 DEF Entry
    <3>2. past'[s] = Nothing
      BY <1>1, <1>5, <2>3
    <3> QED BY <2>2, <3>1, <3>2, FreshFingerprint
  <2>4. CASE s # s0
    <3>1. Entry(s)' = Entry(s)
      BY <1>3, <2>4 DEF Entry
    <3>2. past'[s] = past[s]
      BY <1>1, <1>5, <2>4
    <3>3. Level(Entry(s))[f] >= past[s][f] + Total(Weight(s, f))
      BY DEF Balanced
    <3> QED BY <2>2, <3>1, <3>2, <3>3
  <2> QED BY <2>3, <2>4
<1> QED BY <1>7, <1>9 DEF PastKept

LEMMA HandlerKeepsPast ==
  ASSUME EInv, NEW c \in Callers, Handle(c)
  PROVE  PastKept
<1>0. Effect(c)
  BY HandlerStep DEF EInv, IInv
<1>00. \A d \in Callers : d # c => call'[d] = call[d]
  BY <1>0 DEF Effect
<1>000. Shaped
  BY DEF EInv, IInv
<1>1. CASE Receive(c)
  <2>1. call[c].pc = "parse" /\ sessions' = sessions /\ past' = past
    BY <1>1 DEF Receive
  <2>2. CASE call' = [call EXCEPT ![c].pc = "done"]
    <3>1. call'[c].pc = "done"
      BY <1>000, <2>2, Moved
    <3> QED BY <1>00, <2>1, <3>1, IdleStep
  <2>3. CASE \E s \in Sessions : \E p \in Payloads :
               call' = [call EXCEPT ![c] = [Resting EXCEPT !.pc = "enter", !.session = s, !.payload = p]]
    <3>1. PICK s \in Sessions, p \in Payloads :
            call' = [call EXCEPT ![c] = [Resting EXCEPT !.pc = "enter", !.session = s, !.payload = p]]
      BY <2>3
    <3> DEFINE r == [Resting EXCEPT !.pc = "enter", !.session = s, !.payload = p]
    <3>2. /\ r = [f \in Fields |-> r[f]] /\ r.pc = "enter" /\ r.session = s /\ r.payload = p
          /\ r.drift = 0
      BY DEF Resting, Fields
    <3>3. call'[c] = r
      BY <1>000, <3>1, <3>2, Recorded
    <3>4. p \in Payload
      BY OverWatchAssumption
    <3> HIDE DEF r
    <3> QED BY <1>00, <2>1, <3>2, <3>3, <3>4, IdleStep
  <2>4. CASE \E s \in Sessions :
               call' = [call EXCEPT ![c] = [Resting EXCEPT !.pc = "reset", !.session = s]]
    <3>1. PICK s : call' = [call EXCEPT ![c] = [Resting EXCEPT !.pc = "reset", !.session = s]]
      BY <2>4
    <3> DEFINE r == [Resting EXCEPT !.pc = "reset", !.session = s]
    <3>2. r = [f \in Fields |-> r[f]] /\ r.pc = "reset"
      BY DEF Resting, Fields
    <3>3. call'[c] = r
      BY <1>000, <3>1, <3>2, Recorded
    <3> HIDE DEF r
    <3> QED BY <1>00, <2>1, <3>2, <3>3, IdleStep
  <2> QED BY <1>1, <2>2, <2>3, <2>4 DEF Receive
<1>2. CASE LineStep(c)
  <2>1. PICK p \in {"headers", "parse", "release", "done"} : call' = [call EXCEPT ![c].pc = p]
    BY <1>2, LineRead
  <2>2. call[c].pc \in {"read", "headers", "parse"} /\ sessions' = sessions /\ past' = past
    BY <1>2, LineRead
  <2>3. call'[c].pc = p
    BY <1>000, <2>1, Moved
  <2> QED BY <1>00, <2>2, <2>3, IdleStep
<1>3. CASE AnnounceReset(c)
  <2>1. /\ call[c].pc = "reset" /\ sessions' = sessions /\ past' = past
        /\ call' = [call EXCEPT ![c].pc = "drain"]
    BY <1>3 DEF AnnounceReset
  <2>2. call'[c].pc = "drain"
    BY <1>000, <2>1, Moved
  <2> QED BY <1>00, <2>1, <2>2, IdleStep
<1>4. CASE Respond(c)
  <2>1. /\ call[c].pc \in {"judged", "done"} /\ sessions' = sessions /\ past' = past
        /\ call' = [call EXCEPT ![c] = [Resting EXCEPT !.pc = "release"]]
    BY <1>4 DEF Respond
  <2> DEFINE r == [Resting EXCEPT !.pc = "release"]
  <2>2. r = [f \in Fields |-> r[f]] /\ r.pc = "release"
    BY DEF Resting, Fields
  <2>3. call'[c] = r
    BY <1>000, <2>1, <2>2, Recorded
  <2> HIDE DEF r
  <2> QED BY <1>00, <2>1, <2>2, <2>3, IdleStep
<1>5. CASE Release(c)
  <2>1. /\ call[c].pc = "release" /\ sessions' = sessions /\ past' = past
        /\ call' = [call EXCEPT ![c].pc = "closed"]
    BY <1>5 DEF Release
  <2>2. call'[c].pc = "closed"
    BY <1>000, <2>1, Moved
  <2> QED BY <1>00, <2>1, <2>2, IdleStep
<1>6. CASE Work(c)
  BY <1>3, <1>6, EnterStep, DriftStep, ToolsStep, SuspicionStep, CmdStep, Q09Step, ForgetStep
     DEF Work, OverWatchStep
<1> QED BY <1>1, <1>2, <1>4, <1>5, <1>6 DEF Handle, OwnStep, Parse, LineStep

LEMMA LoopKeepsPast ==
  ASSUME EInv, Accept \/ Spawn \/ Refuse
  PROVE  PastKept
<1> USE DEF EInv
<1> DEFINE c == loop.connection
<1>1. CASE Accept
  BY <1>1 DEF Accept, ovars, PastKept, Typed, BeforeIsPast, Balanced, Reported, Evaluating, Entry, Weight
<1>2. CASE Spawn
  <2>1. /\ c \in Callers /\ call[c].pc = "idle" /\ sessions' = sessions /\ past' = past
        /\ call' = [call EXCEPT ![c].pc = "read"]
    BY <1>2 DEF Spawn, IInv, LoopAhead
  <2>2. call'[c].pc = "read" /\ \A d \in Callers : d # c => call'[d] = call[d]
    BY <2>1, Moved DEF IInv
  <2> HIDE DEF c
  <2> QED BY <2>1, <2>2, IdleStep
<1>3. CASE Refuse
  <2>1. /\ c \in Callers /\ call[c].pc = "idle" /\ sessions' = sessions /\ past' = past
        /\ call' = [call EXCEPT ![c].pc = "closed"]
    BY <1>3 DEF Refuse, IInv, LoopAhead
  <2>2. call'[c].pc = "closed" /\ \A d \in Callers : d # c => call'[d] = call[d]
    BY <2>1, Moved DEF IInv
  <2> HIDE DEF c
  <2> QED BY <2>1, <2>2, IdleStep
<1> QED BY <1>1, <1>2, <1>3

LEMMA InitPast == Init => EInv
<1> SUFFICES ASSUME Init PROVE EInv
  OBVIOUS
<1>1. /\ \A c \in Callers : call[c] = Resting
      /\ past = [s \in Sessions |-> Nothing] /\ DOMAIN sessions = {}
  BY DEF Init, OverWatchInit
<1>2. Resting.pc = "idle"
  BY DEF Resting
<1>3. Typed /\ BeforeIsPast /\ \A c \in Callers : Reported(c)
  BY <1>1, <1>2, FreshFingerprint DEF Typed, BeforeIsPast, Reported, Evaluating
<1>4. Balanced
  <2> SUFFICES ASSUME NEW s \in Sessions, NEW f \in Sums
               PROVE  Level(Entry(s))[f] >= past[s][f] + Total(Weight(s, f))
    BY DEF Balanced
  <2>1. \A c \in Callers : Weight(s, f)[c] = 0
    BY <1>1, <1>2 DEF Weight, Taken, Sums
  <2>2. Total(Weight(s, f)) = 0
    BY <2>1, TotalZero
  <2>3. Entry(s) = SessionFingerprint /\ past[s] = Nothing
    BY <1>1 DEF Entry
  <2> QED BY <2>2, <2>3, FreshFingerprint
<1> QED BY <1>3, <1>4, InitInv DEF EInv

\* The invariant of evaluations and their past.
THEOREM PastInvariance == Spec => []EInv
<1>1. EInv /\ IInv' /\ [Next]_vars => EInv'
  <2> SUFFICES ASSUME EInv, IInv', [Next]_vars PROVE EInv'
    OBVIOUS
  <2>1. CASE Accept \/ Spawn \/ Refuse
    BY <2>1, LoopKeepsPast DEF PastKept, EInv
  <2>2. CASE \E c \in Callers : Handle(c)
    BY <2>2, HandlerKeepsPast DEF PastKept, EInv
  <2>3. CASE UNCHANGED vars
    BY <2>3 DEF vars, EInv, Typed, BeforeIsPast, Balanced, Reported, Evaluating, Entry, Weight
  <2> QED BY <2>1, <2>2, <2>3 DEF Next
<1> QED BY <1>1, InitPast, Invariance, PTL DEF Spec

\* overwatch.rs:135: an evaluation reports every campaign that those answered before it
\* began make together with its own text, however many run at the same time.
THEOREM EvaluationSeesItsPastCorrect == Spec => []EvaluationSeesItsPast
<1>1. EInv => EvaluationSeesItsPast
  BY DEF EInv, Reported, EvaluationSeesItsPast
<1> QED BY <1>1, PastInvariance, PTL

\* No more slots are in use than connections were made.
LEMMA SlotsBounded ==
  ASSUME IInv
  PROVE  active \in 0..MaxRequests
<1> USE DEF IInv
<1>1. IsFiniteSet(Callers) /\ Cardinality(Callers) = MaxRequests
  BY ServerAssumption, FS_Interval
<1>2. Live \subseteq Callers
  BY DEF Live
<1>3. CASE loop.pc = "admit"
  <2>1. loop.connection \in Callers /\ loop.connection \notin Live
    BY <1>3 DEF LoopAhead, Live
  <2>2. Live \cup {loop.connection} \subseteq Callers
    BY <1>2, <2>1
  <2>3. Cardinality(Live \cup {loop.connection}) = Cardinality(Live) + 1
    BY <2>1, LiveIsFinite, FS_AddElement
  <2>4. Cardinality(Live \cup {loop.connection}) <= MaxRequests
    BY <1>1, <2>2, FS_Subset
  <2> QED BY <1>3, <2>3, <2>4, LiveIsFinite, ServerAssumption DEF SlotsAreHandlers
<1>4. CASE loop.pc # "admit"
  <2>1. Cardinality(Live) <= MaxRequests
    BY <1>1, <1>2, FS_Subset
  <2> QED BY <1>4, <2>1, LiveIsFinite, ServerAssumption DEF SlotsAreHandlers
<1> QED BY <1>3, <1>4

\* The shape of the state: the slots are within the connections made, the names of
\* headers read within their limit.
THEOREM TypeCorrect == Spec => []TypeOK
<1> DEFINE WriterOK == writer \in Callers \cup {Nobody}
           HeadersOK == headers \in [Callers -> 0..MaxHeaders]
<1>1. Init => WriterOK /\ HeadersOK
  BY ServerAssumption DEF Init, OverWatchInit
<1>2. WriterOK /\ HeadersOK /\ [Next]_vars => WriterOK' /\ HeadersOK'
  <2> SUFFICES ASSUME WriterOK, HeadersOK, [Next]_vars PROVE WriterOK' /\ HeadersOK'
    OBVIOUS
  <2>1. CASE Accept \/ Spawn \/ Refuse
    BY <2>1 DEF Accept, Spawn, Refuse, ovars
  <2>2. ASSUME NEW c \in Callers, Handle(c) PROVE WriterOK' /\ HeadersOK'
    <3>1. CASE Work(c)
      BY <3>1 DEF Work, OverWatchStep, Enter, Drift, Tools, Suspicion, Cmd, Q09, AnnounceReset,
                  ResetSession, Acquisition
    <3>2. CASE Parse(c)
      <4>1. UNCHANGED writer
        BY <3>2 DEF Parse, Receive, TooManyHeaders, NewHeader, IdleLine
      <4>2. \/ headers' = headers
            \/ headers' = [headers EXCEPT ![c] = 0]
            \/ headers[c] < MaxHeaders /\ headers' = [headers EXCEPT ![c] = @ + 1]
        BY <3>2 DEF Parse, Receive, TooManyHeaders, NewHeader, IdleLine
      <4>3. headers[c] \in 0..MaxHeaders
        OBVIOUS
      <4>4. headers[c] < MaxHeaders => headers[c] + 1 \in 0..MaxHeaders
        BY <4>3, ServerAssumption
      <4> QED BY <4>1, <4>2, <4>4, ServerAssumption
    <3>3. CASE ReadRequestLine(c) \/ ReadHeaderLine(c) \/ TimeOut(c) \/ Respond(c) \/ Release(c)
      BY <3>3 DEF ReadRequestLine, ReadHeaderLine, TimeOut, Respond, Release
    <3> QED BY <2>2, <3>1, <3>2, <3>3 DEF Handle, OwnStep
  <2> QED BY <2>1, <2>2 DEF Next, vars
<1>3. EInv /\ WriterOK /\ HeadersOK => TypeOK
  BY SlotsBounded DEF EInv, IInv, Typed, LoopAhead, TypeOK
<1> HIDE DEF WriterOK, HeadersOK
<1> QED BY <1>1, <1>2, <1>3, PastInvariance, PTL DEF Spec

=============================================================================
