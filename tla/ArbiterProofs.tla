--------------------------- MODULE ArbiterProofs ---------------------------
(***************************************************************************)
(* Proofs about Arbiter: that a raised session is shown in the audit log,  *)
(* what may lower one, that the log agrees with the hash chain, and that a *)
(* stricter signal never leads to a lower state.                           *)
(***************************************************************************)
EXTENDS Arbiter, TLAPS

-----------------------------------------------------------------------------
(* The inductive invariant.                                                *)

Call == {"process", "reset", "denied"}

\* What a thread can be at.
Jobs ==
  {Idle}
  \cup [pc : {"read"}, kind : {"process"}, session : Sessions, signal : Signals]
  \cup [pc : {"write"}, kind : {"process"}, session : Sessions, from : SecurityState,
        to : SecurityState]
  \cup [pc : {"link"}, kind : Call, session : Sessions, from : SecurityState,
        to : SecurityState]
  \cup [pc : {"extend"}, kind : Call, session : Sessions, from : SecurityState,
        to : SecurityState, prev : Nat]
  \cup [pc : {"push"}, kind : Call, session : Sessions, from : SecurityState,
        to : SecurityState, prev : Nat, current : Nat]
  \cup [pc : {"answer", "clear"}, kind : Call, session : Sessions]

Link == {Foreign} \cup [session : Sessions, from : SecurityState, to : SecurityState, kind : Call]

Shape ==
  /\ DOMAIN session_states \subseteq Sessions
  /\ session_states \in [DOMAIN session_states -> SessionState]
  /\ hash_chain \in Seq(Link) /\ audit_log \in Seq(AuditEntry)
  /\ job \in [Threads -> Jobs]
  /\ calls \in 0..MaxCalls /\ overlapped \in BOOLEAN

\* A write is under way for a higher state than was read.
WritesRaise == \A t \in Threads : job[t].pc = "write" => job[t].from < job[t].to

\* Who is about to clear a state has the reset in the log.
ClearingIsLogged ==
  \A t \in Threads : job[t].pc = "clear" =>
    \E i \in DOMAIN audit_log :
      audit_log[i].entry.session = job[t].session /\ audit_log[i].entry.kind = "reset"

\* The log keeps of a link what the chain hashes, and each link once.
OnChain ==
  /\ \A i \in DOMAIN audit_log :
       /\ audit_log[i].current \in DOMAIN hash_chain
       /\ hash_chain[audit_log[i].current] = audit_log[i].entry
       /\ audit_log[i].prev < audit_log[i].current
  /\ \A i, k \in DOMAIN audit_log : audit_log[i].current = audit_log[k].current => i = k

Pushing(t) == job[t].pc = "push"

LinksPending ==
  /\ \A t \in Threads : job[t].pc = "extend" => job[t].prev <= Len(hash_chain)
  /\ \A t \in Threads : Pushing(t) =>
       /\ job[t].current \in DOMAIN hash_chain /\ hash_chain[job[t].current] = Entry(job[t])
       /\ job[t].prev < job[t].current
       /\ \A i \in DOMAIN audit_log : audit_log[i].current # job[t].current
  /\ \A t, u \in Threads : Pushing(t) /\ Pushing(u) /\ job[t].current = job[u].current => t = u

\* While no two calls overlap one thread is busy, and what it read is still so.
OneBusy == ~overlapped => \A t, u \in Threads : job[t] # Idle /\ job[u] # Idle => t = u

Undisturbed ==
  ~overlapped => \A t \in Threads :
    /\ job[t].pc = "write" /\ job[t].session \in DOMAIN session_states =>
         session_states[job[t].session].current = job[t].from
    /\ Auditing(t) /\ job[t].kind # "reset" /\ job[t].session \in DOMAIN session_states =>
         session_states[job[t].session].current = job[t].to

\* The last entry of the session in the log leads to the state it is in.
Covered(s) ==
  \E i \in DOMAIN audit_log :
    /\ audit_log[i].entry.session = s
    /\ audit_log[i].entry.to = session_states[s].current
    /\ \A k \in (i + 1)..Len(audit_log) : audit_log[k].entry.session # s

\* So does the entry that is on its way, unless the state is about to be cleared.
Accounted ==
  ~overlapped =>
    \A s \in DOMAIN session_states : session_states[s].current > 1 =>
      \/ Covered(s)
      \/ \E t \in Threads :
           /\ job[t].pc = "clear" \/ (Auditing(t) /\ job[t].kind # "reset")
           /\ job[t].session = s

IInv ==
  /\ Shape /\ WritesRaise /\ RaisedIsAudited /\ ClearingIsLogged /\ OnChain /\ LinksPending
  /\ OneBusy /\ Undisturbed /\ Accounted

-----------------------------------------------------------------------------
(* What a step does.                                                       *)

\* A thread is where its job says, with the fields of that place.
LEMMA JobFields ==
  ASSUME Shape, NEW t \in Threads
  PROVE  /\ job[t].pc \in {"idle", "read", "write", "link", "extend", "push", "answer", "clear"}
         /\ job[t].pc = "idle" <=> job[t] = Idle
         /\ job[t].pc = "read" =>
              job[t] \in [pc : {"read"}, kind : {"process"}, session : Sessions, signal : Signals]
         /\ job[t].pc = "write" =>
              job[t] \in [pc : {"write"}, kind : {"process"}, session : Sessions,
                          from : SecurityState, to : SecurityState]
         /\ job[t].pc = "link" =>
              job[t] \in [pc : {"link"}, kind : Call, session : Sessions,
                          from : SecurityState, to : SecurityState]
         /\ job[t].pc = "extend" =>
              job[t] \in [pc : {"extend"}, kind : Call, session : Sessions,
                          from : SecurityState, to : SecurityState, prev : Nat]
         /\ job[t].pc = "push" =>
              job[t] \in [pc : {"push"}, kind : Call, session : Sessions,
                          from : SecurityState, to : SecurityState, prev : Nat, current : Nat]
         /\ job[t].pc \in {"answer", "clear"} =>
              job[t] \in [pc : {"answer", "clear"}, kind : Call, session : Sessions]
<1>1. job[t] \in Jobs
  BY DEF Shape
<1> QED BY <1>1 DEF Jobs, Idle

\* A session is in one of the four states.
LEMMA StateType ==
  ASSUME Shape, NEW s
  PROVE  current_state(s) \in SecurityState
  BY DEF Shape, current_state, SessionState, SecurityState

LEMMA Moved ==
  ASSUME Shape, NEW t \in Threads, NEW j, job' = [job EXCEPT ![t] = j]
  PROVE  job'[t] = j /\ \A u \in Threads : u # t => job'[u] = job[u]
  BY DEF Shape

\* A signal warrants one of the four states, and raises a state or leaves it.
LEMMA DecisionType ==
  ASSUME NEW from \in SecurityState, NEW sig
  PROVE  determine_new_state(from, sig) \in SecurityState /\ determine_new_state(from, sig) >= from
<1>1. Warranted(sig) \in SecurityState
  BY DEF Warranted, SecurityState
<1> QED BY <1>1 DEF determine_new_state, SecurityState

\* What a job holds.
Has(j, pc, kind, s) == j.pc = pc /\ j.kind = kind /\ j.session = s

HasEntry(j, pc, kind, s, from, to) == Has(j, pc, kind, s) /\ j.from = from /\ j.to = to

\* A call begins at a thread that was idle.
Begun(t, j) ==
  /\ job[t] = Idle /\ job'[t] = j /\ \A u \in Threads : u # t => job'[u] = job[u]
  /\ ~overlapped' => ~overlapped /\ \A u \in Threads : job[u] = Idle
  /\ calls' \in 0..MaxCalls /\ overlapped' \in BOOLEAN

LEMMA BeginEffect ==
  ASSUME Shape, NEW t \in Threads, NEW j, Begin(t, j)
  PROVE  Begun(t, j)
<1>1. job'[t] = j /\ \A u \in Threads : u # t => job'[u] = job[u]
  BY Moved DEF Begin
<1>2. calls' \in 0..MaxCalls /\ overlapped' \in BOOLEAN
  BY CallsAssumption DEF Begin, Shape
<1> QED BY <1>1, <1>2 DEF Begin, Begun

\* An entry of the map is made or kept, and the state in it is not touched.
LEMMA ProcessEffect ==
  ASSUME Shape, NEW t \in Threads, NEW s \in Sessions, NEW sig \in Signals,
         BeginProcess(t, s, sig)
  PROVE  /\ Begun(t, [pc |-> "read", kind |-> "process", session |-> s, signal |-> sig])
         /\ Has(job'[t], "read", "process", s)
         /\ DOMAIN session_states \subseteq DOMAIN session_states'
         /\ DOMAIN session_states' \subseteq Sessions
         /\ session_states' \in [DOMAIN session_states' -> SessionState]
         /\ \A q \in DOMAIN session_states' : session_states'[q].current = current_state(q)
         /\ UNCHANGED <<hash_chain, audit_log>>
<1> DEFINE j == [pc |-> "read", kind |-> "process", session |-> s, signal |-> sig]
<1>0. Has(j, "read", "process", s)
  BY DEF Has
<1> HIDE DEF j
<1>a. Begin(t, j) /\ UNCHANGED <<hash_chain, audit_log>>
  BY DEF BeginProcess, j
<1>b. Begun(t, j)
  BY <1>a, BeginEffect
<1>1. /\ Begun(t, j) /\ Has(job'[t], "read", "process", s)
      /\ UNCHANGED <<hash_chain, audit_log>>
  BY <1>0, <1>a, <1>b DEF Begun
<1>2. CASE sig.modifier = 0
  BY <1>1, <1>2 DEF BeginProcess, Shape, current_state, j
<1>3. CASE sig.modifier # 0
  <2> DEFINE e == IF s \in DOMAIN session_states THEN session_states[s] ELSE New
  <2>1. PICK expired \in BOOLEAN :
          session_states' =
            [q \in DOMAIN session_states \cup {s} |->
               IF q = s THEN [e EXCEPT !.locked = @ /\ ~expired] ELSE session_states[q]]
    BY <1>3 DEF BeginProcess
  <2> DEFINE n == [e EXCEPT !.locked = @ /\ ~expired]
  <2>2. e \in SessionState /\ e.current = current_state(s)
    BY DEF Shape, SessionState, New, SecurityState, current_state
  <2> HIDE DEF e
  <2>3. n.current = current_state(s)
    BY <2>2 DEF SessionState
  <2>4. n \in SessionState
    BY <2>2 DEF SessionState
  <2>5. session_states' = [q \in DOMAIN session_states \cup {s} |->
                             IF q = s THEN n ELSE session_states[q]]
    BY <2>1
  <2> HIDE DEF n
  <2>6. /\ DOMAIN session_states \subseteq DOMAIN session_states'
        /\ DOMAIN session_states' \subseteq Sessions
        /\ session_states' \in [DOMAIN session_states' -> SessionState]
    BY <2>4, <2>5 DEF Shape
  <2>7. \A q \in DOMAIN session_states' : session_states'[q].current = current_state(q)
    BY <2>3, <2>5 DEF current_state
  <2> QED BY <1>1, <2>6, <2>7 DEF j
<1> QED BY <1>2, <1>3 DEF j

\* What the thread goes on with is fixed by what is read.
LEMMA ReadEffect ==
  ASSUME Shape, NEW t \in Threads, ReadState(t)
  PROVE  LET s == job[t].session
             from == current_state(s) IN
         /\ job[t].pc = "read" /\ s \in Sessions /\ from \in SecurityState
         /\ \/ job'[t] = Idle /\ job'[t].pc = "idle"
            \/ \E to \in SecurityState :
                 /\ from < to
                 /\ job'[t] = [pc |-> "write", kind |-> "process", session |-> s,
                               from |-> from, to |-> to]
                 /\ HasEntry(job'[t], "write", "process", s, from, to)
            \/ /\ job'[t] = [pc |-> "answer", kind |-> "process", session |-> s]
               /\ Has(job'[t], "answer", "process", s)
         /\ \A u \in Threads : u # t => job'[u] = job[u]
         /\ UNCHANGED <<session_states, hash_chain, audit_log, calls, overlapped>>
<1> DEFINE s == job[t].session
           from == current_state(s)
           to == determine_new_state(from, job[t].signal)
<1>1. /\ job[t].pc = "read" /\ s \in Sessions /\ job[t].kind = "process"
      /\ from \in SecurityState
  BY JobFields, StateType DEF ReadState
<1>2. to \in SecurityState
  BY <1>1, DecisionType
<1>3. job' = [job EXCEPT ![t] =
               IF is_clean(job[t].signal) THEN Idle
               ELSE IF to > from
               THEN [pc |-> "write", kind |-> job[t].kind, session |-> s, from |-> from, to |-> to]
               ELSE [pc |-> "answer", kind |-> job[t].kind, session |-> s]]
  BY DEF ReadState
<1> HIDE DEF to
<1>4. \/ job'[t] = Idle
      \/ /\ from < to
         /\ job'[t] = [pc |-> "write", kind |-> job[t].kind, session |-> s,
                       from |-> from, to |-> to]
      \/ job'[t] = [pc |-> "answer", kind |-> job[t].kind, session |-> s]
  BY <1>1, <1>2, <1>3, Moved DEF SecurityState
<1>5. \A u \in Threads : u # t => job'[u] = job[u]
  BY <1>3, Moved
<1>6. /\ HasEntry([pc |-> "write", kind |-> "process", session |-> s, from |-> from, to |-> to],
                  "write", "process", s, from, to)
      /\ Has([pc |-> "answer", kind |-> "process", session |-> s], "answer", "process", s)
      /\ Idle.pc = "idle"
  BY DEF HasEntry, Has, Idle
<1>7. \/ job'[t] = Idle /\ job'[t].pc = "idle"
      \/ /\ from < to
         /\ job'[t] = [pc |-> "write", kind |-> "process", session |-> s,
                       from |-> from, to |-> to]
         /\ HasEntry(job'[t], "write", "process", s, from, to)
      \/ /\ job'[t] = [pc |-> "answer", kind |-> "process", session |-> s]
         /\ Has(job'[t], "answer", "process", s)
  BY <1>1, <1>4, <1>6
<1> QED BY <1>1, <1>2, <1>5, <1>7 DEF ReadState

\* The write replaces the state, if there is an entry, and the audit follows.
LEMMA TransitionEffect ==
  ASSUME Shape, NEW t \in Threads, Transition(t)
  PROVE  LET j == job[t] IN
         /\ j.pc = "write" /\ j.kind = "process" /\ j.session \in Sessions
         /\ j.from \in SecurityState /\ j.to \in SecurityState
         /\ job'[t] = [pc |-> "link", kind |-> "process", session |-> j.session,
                       from |-> j.from, to |-> j.to]
         /\ HasEntry(job'[t], "link", "process", j.session, j.from, j.to)
         /\ \A u \in Threads : u # t => job'[u] = job[u]
         /\ DOMAIN session_states' = DOMAIN session_states
         /\ session_states' \in [DOMAIN session_states' -> SessionState]
         /\ \A s \in DOMAIN session_states :
              session_states'[s].current =
                IF s = j.session THEN j.to ELSE session_states[s].current
         /\ UNCHANGED <<hash_chain, audit_log, calls, overlapped>>
<1> DEFINE j == job[t]
<1>1. j \in [pc : {"write"}, kind : {"process"}, session : Sessions,
             from : SecurityState, to : SecurityState]
  BY JobFields DEF Transition
<1>2. [j EXCEPT !.pc = "link"] = [pc |-> "link", kind |-> "process", session |-> j.session,
                                  from |-> j.from, to |-> j.to]
  BY <1>1
<1>3. job' = [job EXCEPT ![t] = [j EXCEPT !.pc = "link"]]
  BY DEF Transition
<1>4. /\ DOMAIN session_states' = DOMAIN session_states
      /\ session_states' \in [DOMAIN session_states' -> SessionState]
      /\ \A s \in DOMAIN session_states :
           session_states'[s].current = IF s = j.session THEN j.to ELSE session_states[s].current
  <2>1. CASE j.session \notin DOMAIN session_states
    BY <2>1 DEF Transition, Shape
  <2>2. CASE j.session \in DOMAIN session_states
    <3> DEFINE q == j.session
               e == session_states[q]
               n == [current |-> j.to, locked |-> e.locked \/ j.to = 4]
    <3>1. e \in SessionState
      BY <2>2 DEF Shape
    <3>3. session_states' = [session_states EXCEPT ![q] = n]
      BY <2>2 DEF Transition
    <3>4. n \in SessionState /\ n.current = j.to
      BY <1>1, <3>1 DEF SessionState
    <3> HIDE DEF n
    <3> QED BY <2>2, <3>3, <3>4 DEF Shape
  <2> QED BY <2>1, <2>2
<1>5. job'[t] = [j EXCEPT !.pc = "link"] /\ \A u \in Threads : u # t => job'[u] = job[u]
  BY <1>3, Moved
<1>6. HasEntry([pc |-> "link", kind |-> "process", session |-> j.session, from |-> j.from,
                to |-> j.to], "link", "process", j.session, j.from, j.to)
  BY DEF HasEntry, Has
<1> QED BY <1>1, <1>2, <1>4, <1>5, <1>6 DEF Transition

\* The three steps of the audit.
LEMMA LatestEffect ==
  ASSUME Shape, NEW t \in Threads, GetLatestHash(t)
  PROVE  LET j == job[t] IN
         /\ j.pc = "link" /\ j.kind \in Call /\ j.session \in Sessions
         /\ j.from \in SecurityState /\ j.to \in SecurityState
         /\ job'[t] = [pc |-> "extend", kind |-> j.kind, session |-> j.session,
                       from |-> j.from, to |-> j.to, prev |-> Len(hash_chain)]
         /\ HasEntry(job'[t], "extend", j.kind, j.session, j.from, j.to)
         /\ job'[t].prev = Len(hash_chain)
         /\ \A u \in Threads : u # t => job'[u] = job[u]
         /\ UNCHANGED <<session_states, hash_chain, audit_log, calls, overlapped>>
<1>1. job[t] \in [pc : {"link"}, kind : Call, session : Sessions,
                  from : SecurityState, to : SecurityState]
  BY JobFields DEF GetLatestHash
<1>2. job' = [job EXCEPT ![t] =
               [pc |-> "extend", kind |-> job[t].kind, session |-> job[t].session,
                from |-> job[t].from, to |-> job[t].to, prev |-> Len(hash_chain)]]
  BY DEF GetLatestHash
<1> DEFINE j == [pc |-> "extend", kind |-> job[t].kind, session |-> job[t].session,
                 from |-> job[t].from, to |-> job[t].to, prev |-> Len(hash_chain)]
<1>3. /\ HasEntry(j, "extend", job[t].kind, job[t].session, job[t].from, job[t].to)
      /\ j.prev = Len(hash_chain)
  BY DEF HasEntry, Has
<1>4. job'[t] = j /\ \A u \in Threads : u # t => job'[u] = job[u]
  BY <1>2, Moved
<1>5. /\ HasEntry(job'[t], "extend", job[t].kind, job[t].session, job[t].from, job[t].to)
      /\ job'[t].prev = Len(hash_chain)
  <2> HIDE DEF j
  <2> QED BY <1>3, <1>4
<1> QED BY <1>1, <1>4, <1>5 DEF GetLatestHash

LEMMA ExtendEffect ==
  ASSUME Shape, NEW t \in Threads, ExtendChain(t)
  PROVE  LET j == job[t] IN
         /\ j.pc = "extend" /\ j.kind \in Call /\ j.session \in Sessions
         /\ j.from \in SecurityState /\ j.to \in SecurityState /\ j.prev \in Nat
         /\ Entry(j) = [session |-> j.session, from |-> j.from, to |-> j.to, kind |-> j.kind]
         /\ hash_chain' = Append(hash_chain, Entry(j))
         /\ job'[t] = [pc |-> "push", kind |-> j.kind, session |-> j.session, from |-> j.from,
                       to |-> j.to, prev |-> j.prev, current |-> NewHash]
         /\ HasEntry(job'[t], "push", j.kind, j.session, j.from, j.to)
         /\ job'[t].prev = j.prev /\ job'[t].current = NewHash
         /\ \A u \in Threads : u # t => job'[u] = job[u]
         /\ UNCHANGED <<session_states, audit_log, calls, overlapped>>
<1>1. job[t] \in [pc : {"extend"}, kind : Call, session : Sessions,
                  from : SecurityState, to : SecurityState, prev : Nat]
  BY JobFields DEF ExtendChain
<1>2. job' = [job EXCEPT ![t] =
               [pc |-> "push", kind |-> job[t].kind, session |-> job[t].session,
                from |-> job[t].from, to |-> job[t].to, prev |-> job[t].prev,
                current |-> NewHash]]
  BY DEF ExtendChain
<1> DEFINE j == [pc |-> "push", kind |-> job[t].kind, session |-> job[t].session,
                 from |-> job[t].from, to |-> job[t].to, prev |-> job[t].prev,
                 current |-> NewHash]
<1>3. /\ HasEntry(j, "push", job[t].kind, job[t].session, job[t].from, job[t].to)
      /\ j.prev = job[t].prev /\ j.current = NewHash
  BY DEF HasEntry, Has
<1>4. job'[t] = j /\ \A u \in Threads : u # t => job'[u] = job[u]
  BY <1>2, Moved
<1>5. /\ HasEntry(job'[t], "push", job[t].kind, job[t].session, job[t].from, job[t].to)
      /\ job'[t].prev = job[t].prev /\ job'[t].current = NewHash
  <2> HIDE DEF j
  <2> QED BY <1>3, <1>4
<1> QED BY <1>1, <1>4, <1>5 DEF ExtendChain, Entry

LEMMA PushEffect ==
  ASSUME Shape, NEW t \in Threads, PushEntry(t)
  PROVE  LET j == job[t] IN
         /\ j \in [pc : {"push"}, kind : Call, session : Sessions, from : SecurityState,
                   to : SecurityState, prev : Nat, current : Nat]
         /\ Entry(j) = [session |-> j.session, from |-> j.from, to |-> j.to, kind |-> j.kind]
         /\ audit_log' = Append(audit_log, [entry |-> Entry(j), prev |-> j.prev,
                                            current |-> j.current])
         /\ \/ j.kind = "denied" /\ job'[t] = Idle /\ job'[t].pc = "idle"
            \/ /\ j.kind = "reset"
               /\ job'[t] = [pc |-> "clear", kind |-> "reset", session |-> j.session]
               /\ Has(job'[t], "clear", "reset", j.session)
            \/ /\ j.kind = "process"
               /\ job'[t] = [pc |-> "answer", kind |-> "process", session |-> j.session]
               /\ Has(job'[t], "answer", "process", j.session)
         /\ \A u \in Threads : u # t => job'[u] = job[u]
         /\ UNCHANGED <<session_states, hash_chain, calls, overlapped>>
<1> DEFINE j == job[t]
<1>1. j \in [pc : {"push"}, kind : Call, session : Sessions, from : SecurityState,
             to : SecurityState, prev : Nat, current : Nat]
  BY JobFields DEF PushEntry
<1>2. job' = [job EXCEPT ![t] =
               IF j.kind = "denied" THEN Idle
               ELSE [pc |-> IF j.kind = "reset" THEN "clear" ELSE "answer",
                     kind |-> j.kind, session |-> j.session]]
  BY DEF PushEntry
<1>3. \A u \in Threads : u # t => job'[u] = job[u]
  BY <1>2, Moved
<1>4. \/ j.kind = "denied" /\ job'[t] = Idle
      \/ j.kind = "reset" /\ job'[t] = [pc |-> "clear", kind |-> "reset", session |-> j.session]
      \/ /\ j.kind = "process"
         /\ job'[t] = [pc |-> "answer", kind |-> "process", session |-> j.session]
  BY <1>1, <1>2, Moved DEF Call
<1>5. /\ Has([pc |-> "clear", kind |-> "reset", session |-> j.session],
             "clear", "reset", j.session)
      /\ Has([pc |-> "answer", kind |-> "process", session |-> j.session],
             "answer", "process", j.session)
      /\ Idle.pc = "idle"
  BY DEF Has, Idle
<1>6. \/ j.kind = "denied" /\ job'[t] = Idle /\ job'[t].pc = "idle"
      \/ /\ j.kind = "reset"
         /\ job'[t] = [pc |-> "clear", kind |-> "reset", session |-> j.session]
         /\ Has(job'[t], "clear", "reset", j.session)
      \/ /\ j.kind = "process"
         /\ job'[t] = [pc |-> "answer", kind |-> "process", session |-> j.session]
         /\ Has(job'[t], "answer", "process", j.session)
  BY <1>4, <1>5
<1> QED BY <1>1, <1>3, <1>6 DEF PushEntry, Logged, Entry

LEMMA ClearedIsNew ==
  ASSUME NEW e \in SessionState
  PROVE  Cleared(e) = New
<1> DEFINE f == [e EXCEPT !.current = 1]
<1>1. f = [current |-> 1, locked |-> e.locked]
  BY DEF SessionState
<1>2. \A x : [x EXCEPT !.current = 1, !.locked = FALSE]
               = [[x EXCEPT !.current = 1] EXCEPT !.locked = FALSE]
  OBVIOUS
<1>3. Cleared(e) = [f EXCEPT !.locked = FALSE]
  BY <1>2 DEF Cleared
<1> HIDE DEF f
<1>4. \A b : [f EXCEPT !.locked = b] = [current |-> 1, locked |-> b]
  BY <1>1
<1>5. [f EXCEPT !.locked = FALSE] = [current |-> 1, locked |-> FALSE]
  BY <1>4
<1> QED BY <1>3, <1>5 DEF New

\* The state is cleared, if there is an entry.
LEMMA ClearEffect ==
  ASSUME Shape, NEW t \in Threads, ClearState(t)
  PROVE  LET s == job[t].session IN
         /\ job[t].pc = "clear" /\ s \in Sessions /\ job'[t] = Idle /\ job'[t].pc = "idle"
         /\ \A u \in Threads : u # t => job'[u] = job[u]
         /\ DOMAIN session_states' = DOMAIN session_states
         /\ \A q \in DOMAIN session_states :
              session_states'[q] = IF q = s THEN New ELSE session_states[q]
         /\ session_states' \in [DOMAIN session_states' -> SessionState]
         /\ UNCHANGED <<hash_chain, audit_log, calls, overlapped>>
<1> DEFINE s == job[t].session
<1>1. job[t].pc = "clear" /\ s \in Sessions
  BY JobFields DEF ClearState
<1>2. job'[t] = Idle /\ Idle.pc = "idle" /\ \A u \in Threads : u # t => job'[u] = job[u]
  BY Moved DEF ClearState, Idle
<1>3. New \in SessionState
  BY DEF New, SessionState, SecurityState
<1>4. /\ DOMAIN session_states' = DOMAIN session_states
      /\ \A q \in DOMAIN session_states :
           session_states'[q] = IF q = s THEN New ELSE session_states[q]
      /\ session_states' \in [DOMAIN session_states' -> SessionState]
  <2>1. CASE s \notin DOMAIN session_states
    BY <2>1 DEF ClearState, Shape
  <2>2. CASE s \in DOMAIN session_states
    <3>1. session_states[s] \in SessionState
      BY <2>2 DEF Shape
    <3>2. Cleared(session_states[s]) = New
      BY <3>1, ClearedIsNew
    <3>3. session_states' = [session_states EXCEPT ![s] = New]
      BY <2>2, <3>2 DEF ClearState
    <3> QED BY <1>3, <2>2, <3>3 DEF Shape
  <2> QED BY <2>1, <2>2
<1> QED BY <1>1, <1>2, <1>4 DEF ClearState

\* A reset begins with its audit, at the state the session is in.
LEMMA ResetEffect ==
  ASSUME Shape, NEW t \in Threads, NEW s \in Sessions, NEW authorized \in BOOLEAN,
         BeginReset(t, s, authorized)
  PROVE  \E kind \in {"reset", "denied"}, from, to \in SecurityState :
           /\ Begun(t, [pc |-> "link", kind |-> kind, session |-> s, from |-> from, to |-> to])
           /\ HasEntry(job'[t], "link", kind, s, from, to)
           /\ kind = "denied" => to = current_state(s)
           /\ UNCHANGED <<session_states, hash_chain, audit_log>>
<1> DEFINE kind == IF authorized THEN "reset" ELSE "denied"
           from == current_state(s)
           to == ResetTarget(s, authorized)
<1>1. /\ kind \in {"reset", "denied"} /\ from \in SecurityState /\ to \in SecurityState
      /\ kind = "denied" => to = current_state(s)
  BY StateType DEF ResetTarget, SecurityState
<1>2. Begin(t, [pc |-> "link", kind |-> kind, session |-> s, from |-> from, to |-> to])
  BY DEF BeginReset
<1> HIDE DEF kind, from, to
<1>3. Begun(t, [pc |-> "link", kind |-> kind, session |-> s, from |-> from, to |-> to])
  BY <1>2, BeginEffect
<1>4. HasEntry([pc |-> "link", kind |-> kind, session |-> s, from |-> from, to |-> to],
               "link", kind, s, from, to)
  BY DEF HasEntry, Has
<1>5. HasEntry(job'[t], "link", kind, s, from, to)
  BY <1>3, <1>4 DEF Begun
<1> QED BY <1>1, <1>3, <1>5 DEF BeginReset

LEMMA AnswerEffect ==
  ASSUME Shape, NEW t \in Threads, Answer(t)
  PROVE  /\ job[t].pc = "answer" /\ job'[t] = Idle /\ job'[t].pc = "idle"
         /\ \A u \in Threads : u # t => job'[u] = job[u]
         /\ UNCHANGED <<session_states, hash_chain, audit_log, calls, overlapped>>
<1>1. Idle.pc = "idle"
  BY DEF Idle
<1> QED BY <1>1, Moved DEF Answer

LEMMA ForgetEffect ==
  ASSUME Shape, NEW s \in Sessions, ForgetSession(s)
  PROVE  /\ DOMAIN session_states' \subseteq DOMAIN session_states
         /\ \A q \in DOMAIN session_states' : session_states'[q] = session_states[q]
         /\ session_states' \in [DOMAIN session_states' -> SessionState]
         /\ UNCHANGED <<hash_chain, audit_log, job, calls, overlapped>>
  BY DEF ForgetSession, Shape

\* Appending to the chain and to the log.
LEMMA ChainGrows ==
  ASSUME Shape, NEW e \in Link, hash_chain' = Append(hash_chain, e)
  PROVE  /\ hash_chain' \in Seq(Link) /\ NewHash \in Nat /\ NewHash = Len(hash_chain) + 1
         /\ DOMAIN hash_chain' = DOMAIN hash_chain \cup {NewHash} /\ hash_chain'[NewHash] = e
         /\ Len(hash_chain) \in Nat /\ Len(hash_chain') = Len(hash_chain) + 1
         /\ \A n \in DOMAIN hash_chain :
              n \in Nat /\ n <= Len(hash_chain) /\ hash_chain'[n] = hash_chain[n]
  BY DEF Shape, NewHash

LEMMA LogGrows ==
  ASSUME Shape, NEW e \in AuditEntry, audit_log' = Append(audit_log, e)
  PROVE  LET n == Len(audit_log) + 1 IN
         /\ audit_log' \in Seq(AuditEntry) /\ n \in Nat /\ Len(audit_log') = n
         /\ DOMAIN audit_log' = DOMAIN audit_log \cup {n} /\ audit_log'[n] = e
         /\ n \notin DOMAIN audit_log
         /\ \A i \in DOMAIN audit_log : i \in Nat /\ i < n /\ audit_log'[i] = audit_log[i]
  BY DEF Shape

LEMMA ElsewhereEffect ==
  ASSUME Shape, ExtendElsewhere
  PROVE  /\ Foreign \in Link /\ hash_chain' = Append(hash_chain, Foreign)
         /\ UNCHANGED <<session_states, audit_log, job, calls, overlapped>>
  BY DEF ExtendElsewhere, Link

\* Every job is that of a thread.
LEMMA JobsOfThreads ==
  ASSUME Shape, [Next]_vars
  PROVE  job' = [u \in Threads |-> job'[u]]
<1> DEFINE P == job' = [u \in Threads |-> job'[u]]
<1>1. ASSUME NEW t \in Threads, NEW j, job' = [job EXCEPT ![t] = j] PROVE P
  BY <1>1 DEF Shape
<1>2. ASSUME UNCHANGED job PROVE P
  BY <1>2 DEF Shape
<1>3. ASSUME NEW t \in Threads, Continue(t) PROVE P
  BY <1>1, <1>3
     DEF Continue, ReadState, Transition, Answer, ClearState, GetLatestHash, ExtendChain, PushEntry
<1>4. ASSUME NEW t \in Threads, NEW s \in Sessions,
             (\E sig \in Signals : BeginProcess(t, s, sig)) \/ (\E a \in BOOLEAN : BeginReset(t, s, a))
      PROVE  P
  BY <1>1, <1>4 DEF BeginProcess, BeginReset, Begin
<1> QED BY <1>2, <1>3, <1>4 DEF Next, ForgetSession, ExtendElsewhere, vars

-----------------------------------------------------------------------------
(* The shape.                                                              *)

\* What the steps leave a thread, the chain and the log with.
LEMMA Built ==
  /\ \A s \in Sessions, kind \in Call :
       /\ [pc |-> "answer", kind |-> kind, session |-> s] \in Jobs
       /\ [pc |-> "clear", kind |-> kind, session |-> s] \in Jobs
  /\ \A s \in Sessions, kind \in Call, from, to \in SecurityState :
       /\ [pc |-> "link", kind |-> kind, session |-> s, from |-> from, to |-> to] \in Jobs
       /\ [session |-> s, from |-> from, to |-> to, kind |-> kind] \in Link
  /\ \A s \in Sessions, kind \in Call, from, to \in SecurityState, prev \in Nat :
       [pc |-> "extend", kind |-> kind, session |-> s, from |-> from, to |-> to,
        prev |-> prev] \in Jobs
  /\ \A s \in Sessions, kind \in Call, from, to \in SecurityState, prev, current \in Nat :
       [pc |-> "push", kind |-> kind, session |-> s, from |-> from, to |-> to,
        prev |-> prev, current |-> current] \in Jobs
  /\ \A s \in Sessions, kind \in Call, from, to \in SecurityState, prev, current \in Nat :
       [entry |-> [session |-> s, from |-> from, to |-> to, kind |-> kind],
        prev |-> prev, current |-> current] \in AuditEntry
<1>1. \A s \in Sessions, kind \in Call, from, to \in SecurityState :
        [session |-> s, from |-> from, to |-> to, kind |-> kind] \in Link
  BY DEF Link
<1>2. \A s \in Sessions, kind \in Call, from, to \in SecurityState, prev, current \in Nat :
        [entry |-> [session |-> s, from |-> from, to |-> to, kind |-> kind],
         prev |-> prev, current |-> current] \in AuditEntry
  BY DEF AuditEntry, Call
<1> QED BY <1>1, <1>2 DEF Jobs

LEMMA ShapeStep ==
  ASSUME Shape, [Next]_vars
  PROVE  Shape'
<1>1. ASSUME NEW t \in Threads, job'[t] \in Jobs,
             \A u \in Threads : u # t => job'[u] = job[u]
      PROVE  job' \in [Threads -> Jobs]
  BY <1>1, JobsOfThreads DEF Shape
<1>2. ASSUME NEW t \in Threads, NEW s \in Sessions, NEW sig \in Signals, BeginProcess(t, s, sig)
      PROVE  Shape'
  <2> DEFINE j == [pc |-> "read", kind |-> "process", session |-> s, signal |-> sig]
  <2>1. j \in Jobs
    BY DEF Jobs
  <2>2. job' \in [Threads -> Jobs]
    BY <1>1, <1>2, <2>1, ProcessEffect DEF Begun
  <2> QED BY <1>2, <2>2, ProcessEffect DEF Shape, Begun
<1>3. ASSUME NEW t \in Threads, NEW s \in Sessions, NEW a \in BOOLEAN, BeginReset(t, s, a)
      PROVE  Shape'
  <2>1. PICK kind \in {"reset", "denied"}, from \in SecurityState, to \in SecurityState :
          /\ Begun(t, [pc |-> "link", kind |-> kind, session |-> s, from |-> from, to |-> to])
          /\ UNCHANGED <<session_states, hash_chain, audit_log>>
    BY <1>3, ResetEffect
  <2>2. [pc |-> "link", kind |-> kind, session |-> s, from |-> from, to |-> to] \in Jobs
    BY DEF Jobs, Call
  <2>3. job' \in [Threads -> Jobs]
    BY <1>1, <2>1, <2>2 DEF Begun
  <2> QED BY <2>1, <2>3 DEF Shape, Begun
<1>4. ASSUME NEW t \in Threads, ReadState(t) PROVE Shape'
  <2> DEFINE s == job[t].session
             from == current_state(s)
  <2>1. Idle \in Jobs /\ [pc |-> "answer", kind |-> "process", session |-> s] \in Jobs
    BY <1>4, ReadEffect DEF Jobs, Call
  <2>2. \A to \in SecurityState :
          [pc |-> "write", kind |-> "process", session |-> s, from |-> from, to |-> to] \in Jobs
    BY <1>4, ReadEffect DEF Jobs
  <2>3. job'[t] \in Jobs
    BY <1>4, <2>1, <2>2, ReadEffect
  <2>4. job' \in [Threads -> Jobs]
    BY <1>1, <1>4, <2>3, ReadEffect
  <2> QED BY <1>4, <2>4, ReadEffect DEF Shape
<1>5. ASSUME NEW t \in Threads, Transition(t) PROVE Shape'
  <2>1. job'[t] \in Jobs
    <3> DEFINE j == job[t]
    <3>1. /\ j.session \in Sessions /\ j.from \in SecurityState /\ j.to \in SecurityState
          /\ job'[t] = [pc |-> "link", kind |-> "process", session |-> j.session,
                        from |-> j.from, to |-> j.to]
      BY <1>5, TransitionEffect
    <3> HIDE DEF j
    <3>2. [pc |-> "link", kind |-> "process", session |-> j.session,
           from |-> j.from, to |-> j.to] \in Jobs
      BY <3>1, Built DEF Call
    <3> QED BY <3>1, <3>2
  <2>2. job' \in [Threads -> Jobs]
    BY <1>1, <1>5, <2>1, TransitionEffect
  <2> QED BY <1>5, <2>2, TransitionEffect DEF Shape
<1>6. ASSUME NEW t \in Threads, GetLatestHash(t) PROVE Shape'
  <2>1. Len(hash_chain) \in Nat
    BY DEF Shape
  <2>2. job'[t] \in Jobs
    <3> DEFINE j == job[t]
               n == Len(hash_chain)
    <3>1. /\ j.kind \in Call /\ j.session \in Sessions
          /\ j.from \in SecurityState /\ j.to \in SecurityState
          /\ job'[t] = [pc |-> "extend", kind |-> j.kind, session |-> j.session,
                        from |-> j.from, to |-> j.to, prev |-> n]
      BY <1>6, LatestEffect
    <3> HIDE DEF j, n
    <3>2. n \in Nat
      BY <2>1 DEF n
    <3>3. [pc |-> "extend", kind |-> j.kind, session |-> j.session, from |-> j.from, to |-> j.to,
           prev |-> n] \in Jobs
      BY <3>1, <3>2, Built
    <3> QED BY <3>1, <3>3
  <2>3. job' \in [Threads -> Jobs]
    BY <1>1, <1>6, <2>2, LatestEffect
  <2> QED BY <1>6, <2>3, LatestEffect DEF Shape
<1>7. ASSUME NEW t \in Threads, ExtendChain(t) PROVE Shape'
  <2>1. Entry(job[t]) \in Link
    <3> DEFINE j == job[t]
    <3>1. /\ j.kind \in Call /\ j.session \in Sessions
          /\ j.from \in SecurityState /\ j.to \in SecurityState
          /\ Entry(j) = [session |-> j.session, from |-> j.from, to |-> j.to, kind |-> j.kind]
      BY <1>7, ExtendEffect
    <3> HIDE DEF j
    <3>2. [session |-> j.session, from |-> j.from, to |-> j.to, kind |-> j.kind] \in Link
      BY <3>1, Built
    <3> QED BY <3>1, <3>2 DEF j
  <2>2. hash_chain' \in Seq(Link) /\ NewHash \in Nat
    BY <1>7, <2>1, ExtendEffect, ChainGrows
  <2>3. job'[t] \in Jobs
    <3> DEFINE j == job[t]
               n == NewHash
    <3>1. /\ j.kind \in Call /\ j.session \in Sessions
          /\ j.from \in SecurityState /\ j.to \in SecurityState /\ j.prev \in Nat
          /\ job'[t] = [pc |-> "push", kind |-> j.kind, session |-> j.session, from |-> j.from,
                        to |-> j.to, prev |-> j.prev, current |-> n]
      BY <1>7, ExtendEffect
    <3> HIDE DEF j, n
    <3>2. n \in Nat
      BY <2>2 DEF n
    <3>3. [pc |-> "push", kind |-> j.kind, session |-> j.session, from |-> j.from,
           to |-> j.to, prev |-> j.prev, current |-> n] \in Jobs
      BY <3>1, <3>2, Built
    <3> QED BY <3>1, <3>3
  <2>4. job' \in [Threads -> Jobs]
    BY <1>1, <1>7, <2>3, ExtendEffect
  <2> QED BY <1>7, <2>2, <2>4, ExtendEffect DEF Shape
<1>8. ASSUME NEW t \in Threads, PushEntry(t) PROVE Shape'
  <2> DEFINE e == [entry |-> Entry(job[t]), prev |-> job[t].prev, current |-> job[t].current]
  <2>1. e \in AuditEntry
    <3> DEFINE j == job[t]
    <3>1. /\ j.kind \in Call /\ j.session \in Sessions /\ j.prev \in Nat /\ j.current \in Nat
          /\ j.from \in SecurityState /\ j.to \in SecurityState
          /\ Entry(j) = [session |-> j.session, from |-> j.from, to |-> j.to, kind |-> j.kind]
      BY <1>8, PushEffect
    <3> HIDE DEF j
    <3>2. [entry |-> [session |-> j.session, from |-> j.from, to |-> j.to, kind |-> j.kind],
           prev |-> j.prev, current |-> j.current] \in AuditEntry
      BY <3>1, Built
    <3> QED BY <3>1, <3>2 DEF j
  <2>2. audit_log' \in Seq(AuditEntry)
    BY <1>8, <2>1, PushEffect, LogGrows
  <2>3. job'[t] \in Jobs
    <3>1. Idle \in Jobs /\ job[t].session \in Sessions
      BY <1>8, PushEffect DEF Jobs
    <3>2. \A s \in Sessions : /\ [pc |-> "answer", kind |-> "process", session |-> s] \in Jobs
                             /\ [pc |-> "clear", kind |-> "reset", session |-> s] \in Jobs
      BY Built DEF Call
    <3> QED BY <1>8, <3>1, <3>2, PushEffect
  <2>4. job' \in [Threads -> Jobs]
    BY <1>1, <1>8, <2>3, PushEffect
  <2> QED BY <1>8, <2>2, <2>4, PushEffect DEF Shape
<1>9. ASSUME NEW t \in Threads, Answer(t) \/ ClearState(t) PROVE Shape'
  <2>1. Idle \in Jobs
    BY DEF Jobs
  <2>2. job' \in [Threads -> Jobs]
    BY <1>1, <1>9, <2>1, AnswerEffect, ClearEffect
  <2> QED BY <1>9, <2>2, AnswerEffect, ClearEffect DEF Shape
<1>10. ASSUME NEW s \in Sessions, ForgetSession(s) PROVE Shape'
  BY <1>10, ForgetEffect DEF Shape
<1>11. ExtendElsewhere => Shape'
  BY ElsewhereEffect, ChainGrows DEF Shape
<1>12. UNCHANGED vars => Shape'
  BY DEF Shape, vars
<1> QED
  BY <1>2, <1>3, <1>4, <1>5, <1>6, <1>7, <1>8, <1>9, <1>10, <1>11, <1>12 DEF Next, Continue

-----------------------------------------------------------------------------
(* Writes and resets.                                                      *)

LEMMA WritesRaiseStep ==
  ASSUME Shape, WritesRaise, [Next]_vars
  PROVE  WritesRaise'
<1>1. ASSUME NEW t \in Threads, job'[t].pc # "write",
             \A u \in Threads : u # t => job'[u] = job[u]
      PROVE  WritesRaise'
  BY <1>1 DEF WritesRaise
<1>2. ASSUME UNCHANGED job PROVE WritesRaise'
  BY <1>2 DEF WritesRaise
<1>3. ASSUME NEW t \in Threads, NEW s \in Sessions, NEW sig \in Signals, BeginProcess(t, s, sig)
      PROVE  WritesRaise'
  BY <1>1, <1>3, ProcessEffect DEF Begun, Has
<1>4. ASSUME NEW t \in Threads, NEW s \in Sessions, NEW a \in BOOLEAN, BeginReset(t, s, a)
      PROVE  WritesRaise'
  <2>1. PICK kind \in {"reset", "denied"}, from \in SecurityState, to \in SecurityState :
          /\ Begun(t, [pc |-> "link", kind |-> kind, session |-> s, from |-> from, to |-> to])
          /\ HasEntry(job'[t], "link", kind, s, from, to)
    BY <1>4, ResetEffect
  <2> QED BY <1>1, <2>1 DEF Begun, Has, HasEntry
<1>5. ASSUME NEW t \in Threads, ReadState(t) PROVE WritesRaise'
  <2> DEFINE s == job[t].session
             from == current_state(s)
  <2>1. job'[t].pc # "write" \/ job'[t].from < job'[t].to
    BY <1>5, ReadEffect DEF Has, HasEntry
  <2> QED BY <1>5, <2>1, ReadEffect DEF WritesRaise
<1>6. ASSUME NEW t \in Threads, Transition(t) PROVE WritesRaise'
  BY <1>1, <1>6, TransitionEffect DEF Has, HasEntry
<1>7. ASSUME NEW t \in Threads, GetLatestHash(t) PROVE WritesRaise'
  BY <1>1, <1>7, LatestEffect DEF Has, HasEntry
<1>8. ASSUME NEW t \in Threads, ExtendChain(t) PROVE WritesRaise'
  BY <1>1, <1>8, ExtendEffect DEF Has, HasEntry
<1>9. ASSUME NEW t \in Threads, PushEntry(t) PROVE WritesRaise'
  BY <1>1, <1>9, PushEffect DEF Has
<1>10. ASSUME NEW t \in Threads, Answer(t) \/ ClearState(t) PROVE WritesRaise'
  BY <1>1, <1>10, AnswerEffect, ClearEffect
<1>11. ASSUME NEW s \in Sessions, ForgetSession(s) PROVE WritesRaise'
  BY <1>2, <1>11, ForgetEffect
<1>12. ExtendElsewhere => WritesRaise'
  BY <1>2, ElsewhereEffect
<1> QED
  BY <1>2, <1>3, <1>4, <1>5, <1>6, <1>7, <1>8, <1>9, <1>10, <1>11, <1>12 DEF Next, Continue, vars

\* The last entry of the log is the one that was pushed.
LEMMA PushLogs ==
  ASSUME Shape, NEW t \in Threads, PushEntry(t)
  PROVE  LET n == Len(audit_log) + 1
             j == job[t] IN
         /\ n \in Nat /\ Len(audit_log') = n /\ n \notin DOMAIN audit_log
         /\ DOMAIN audit_log' = DOMAIN audit_log \cup {n}
         /\ \A i \in DOMAIN audit_log : i \in Nat /\ i < n /\ audit_log'[i] = audit_log[i]
         /\ audit_log'[n].entry = Entry(j)
         /\ audit_log'[n].prev = j.prev /\ audit_log'[n].current = j.current
         /\ Entry(j).session = j.session /\ Entry(j).kind = j.kind /\ Entry(j).to = j.to
<1> DEFINE e == [entry |-> Entry(job[t]), prev |-> job[t].prev, current |-> job[t].current]
<1>1. e \in AuditEntry
  <2> DEFINE j == job[t]
  <2>1. /\ j.kind \in Call /\ j.session \in Sessions /\ j.prev \in Nat /\ j.current \in Nat
        /\ j.from \in SecurityState /\ j.to \in SecurityState
        /\ Entry(j) = [session |-> j.session, from |-> j.from, to |-> j.to, kind |-> j.kind]
    BY PushEffect
  <2> HIDE DEF j
  <2>2. [entry |-> [session |-> j.session, from |-> j.from, to |-> j.to, kind |-> j.kind],
         prev |-> j.prev, current |-> j.current] \in AuditEntry
    BY <2>1, Built
  <2> QED BY <2>1, <2>2 DEF j
<1>2. audit_log' = Append(audit_log, e)
  BY PushEffect
<1>3. e.entry = Entry(job[t]) /\ e.prev = job[t].prev /\ e.current = job[t].current
  OBVIOUS
<1>4. /\ Entry(job[t]).session = job[t].session /\ Entry(job[t]).kind = job[t].kind
      /\ Entry(job[t]).to = job[t].to
  BY DEF Entry
<1> HIDE DEF e
<1> QED BY <1>1, <1>2, <1>3, <1>4, LogGrows

\* The log is not shortened, nor an entry of it changed.
LEMMA LogKept ==
  ASSUME Shape, [Next]_vars
  PROVE  \A i \in DOMAIN audit_log : i \in DOMAIN audit_log' /\ audit_log'[i] = audit_log[i]
<1>1. CASE UNCHANGED audit_log
  BY <1>1
<1>2. ASSUME NEW t \in Threads, PushEntry(t)
      PROVE  \A i \in DOMAIN audit_log : i \in DOMAIN audit_log' /\ audit_log'[i] = audit_log[i]
  BY <1>2, PushLogs
<1> QED
  BY <1>1, <1>2
     DEF Next, Continue, ReadState, Transition, Answer, ClearState, GetLatestHash, ExtendChain,
         BeginProcess, BeginReset, ForgetSession, ExtendElsewhere, vars

LEMMA ClearingStep ==
  ASSUME Shape, ClearingIsLogged, [Next]_vars
  PROVE  ClearingIsLogged'
<1> DEFINE Shown(s) == \E i \in DOMAIN audit_log :
                         audit_log[i].entry.session = s /\ audit_log[i].entry.kind = "reset"
           Shown1(s) == \E i \in DOMAIN audit_log' :
                          audit_log'[i].entry.session = s /\ audit_log'[i].entry.kind = "reset"
<1>1. \A s : Shown(s) => Shown1(s)
  BY LogKept
<1>2. ASSUME NEW t \in Threads, job'[t].pc # "clear" \/ Shown1(job'[t].session),
             \A u \in Threads : u # t => job'[u] = job[u]
      PROVE  ClearingIsLogged'
  BY <1>1, <1>2 DEF ClearingIsLogged
<1>3. ASSUME UNCHANGED job PROVE ClearingIsLogged'
  BY <1>1, <1>3 DEF ClearingIsLogged
<1>4. ASSUME NEW t \in Threads, NEW s \in Sessions, NEW sig \in Signals, BeginProcess(t, s, sig)
      PROVE  ClearingIsLogged'
  BY <1>2, <1>4, ProcessEffect DEF Begun, Has
<1>5. ASSUME NEW t \in Threads, NEW s \in Sessions, NEW a \in BOOLEAN, BeginReset(t, s, a)
      PROVE  ClearingIsLogged'
  <2>1. PICK kind \in {"reset", "denied"}, from \in SecurityState, to \in SecurityState :
          /\ Begun(t, [pc |-> "link", kind |-> kind, session |-> s, from |-> from, to |-> to])
          /\ HasEntry(job'[t], "link", kind, s, from, to)
    BY <1>5, ResetEffect
  <2> QED BY <1>2, <2>1 DEF Begun, Has, HasEntry
<1>6. ASSUME NEW t \in Threads, PushEntry(t) PROVE ClearingIsLogged'
  <2> DEFINE j == job[t]
  <2>1. Shown1(j.session) \/ j.kind # "reset"
    BY <1>6, PushLogs
  <2>2. job'[t].pc # "clear" \/ (job'[t].session = j.session /\ j.kind = "reset")
    BY <1>6, PushEffect DEF Has
  <2>3. \A u \in Threads : u # t => job'[u] = job[u]
    BY <1>6, PushEffect
  <2> QED BY <1>2, <2>1, <2>2, <2>3
<1>7. ASSUME NEW t \in Threads, ReadState(t) PROVE ClearingIsLogged'
  BY <1>2, <1>7, ReadEffect DEF Has, HasEntry
<1>8. ASSUME NEW t \in Threads, Transition(t) PROVE ClearingIsLogged'
  BY <1>2, <1>8, TransitionEffect DEF Has, HasEntry
<1>9. ASSUME NEW t \in Threads, GetLatestHash(t) PROVE ClearingIsLogged'
  BY <1>2, <1>9, LatestEffect DEF Has, HasEntry
<1>10. ASSUME NEW t \in Threads, ExtendChain(t) PROVE ClearingIsLogged'
  BY <1>2, <1>10, ExtendEffect DEF Has, HasEntry
<1>11. ASSUME NEW t \in Threads, Answer(t) \/ ClearState(t) PROVE ClearingIsLogged'
  BY <1>2, <1>11, AnswerEffect, ClearEffect
<1>12. ASSUME NEW s \in Sessions, ForgetSession(s) PROVE ClearingIsLogged'
  BY <1>3, <1>12, ForgetEffect
<1>13. ExtendElsewhere => ClearingIsLogged'
  BY <1>3, ElsewhereEffect
<1> QED
  BY <1>3, <1>4, <1>5, <1>6, <1>7, <1>8, <1>9, <1>10, <1>11, <1>12, <1>13
     DEF Next, Continue, vars

-----------------------------------------------------------------------------
(* Raised states and the log.                                              *)

LEMMA RaisedKept ==
  ASSUME Shape, RaisedIsAudited, [Next]_vars,
         \A u \in Threads : Auditing(u) =>
           Auditing(u)' /\ job'[u].session = job[u].session /\ job'[u].to = job[u].to,
         \A s \in DOMAIN session_states' : session_states'[s].current > 1 =>
           s \in DOMAIN session_states /\ session_states[s].current = session_states'[s].current
  PROVE  RaisedIsAudited'
<1> SUFFICES ASSUME NEW s \in DOMAIN session_states', session_states'[s].current > 1
             PROVE  \/ \E i \in DOMAIN audit_log' :
                         /\ audit_log'[i].entry.session = s
                         /\ audit_log'[i].entry.to = session_states'[s].current
                    \/ \E u \in Threads :
                         Auditing(u)' /\ job'[u].session = s
                           /\ job'[u].to = session_states'[s].current
  BY DEF RaisedIsAudited
<1>1. s \in DOMAIN session_states /\ session_states[s].current = session_states'[s].current
  OBVIOUS
<1>2. \/ \E i \in DOMAIN audit_log :
           audit_log[i].entry.session = s /\ audit_log[i].entry.to = session_states[s].current
      \/ \E u \in Threads :
           Auditing(u) /\ job[u].session = s /\ job[u].to = session_states[s].current
  BY <1>1 DEF RaisedIsAudited
<1> QED BY <1>1, <1>2, LogKept

LEMMA RaisedStep ==
  ASSUME Shape, RaisedIsAudited, [Next]_vars
  PROVE  RaisedIsAudited'
<1>1. ASSUME NEW t \in Threads, ~Auditing(t), \A u \in Threads : u # t => job'[u] = job[u],
             \A s \in DOMAIN session_states' : session_states'[s].current > 1 =>
               /\ s \in DOMAIN session_states
               /\ session_states[s].current = session_states'[s].current
      PROVE  RaisedIsAudited'
  BY <1>1, RaisedKept DEF Auditing
<1>2. ASSUME UNCHANGED session_states
      PROVE  \A s \in DOMAIN session_states' : session_states'[s].current > 1 =>
               /\ s \in DOMAIN session_states
               /\ session_states[s].current = session_states'[s].current
  BY <1>2
<1>3. ASSUME NEW t \in Threads, NEW s \in Sessions, NEW sig \in Signals, BeginProcess(t, s, sig)
      PROVE  RaisedIsAudited'
  <2>1. /\ Begun(t, [pc |-> "read", kind |-> "process", session |-> s, signal |-> sig])
        /\ \A q \in DOMAIN session_states' : session_states'[q].current = current_state(q)
    BY <1>3, ProcessEffect
  <2>2. ~Auditing(t) /\ \A u \in Threads : u # t => job'[u] = job[u]
    BY <2>1 DEF Begun, Auditing, Idle
  <2>3. \A q \in DOMAIN session_states' : session_states'[q].current > 1 =>
          q \in DOMAIN session_states /\ session_states[q].current = session_states'[q].current
    BY <2>1 DEF current_state
  <2> QED BY <1>1, <2>2, <2>3
<1>4. ASSUME NEW t \in Threads, NEW s \in Sessions, NEW a \in BOOLEAN, BeginReset(t, s, a)
      PROVE  RaisedIsAudited'
  <2>1. PICK kind \in {"reset", "denied"}, from \in SecurityState, to \in SecurityState :
          /\ Begun(t, [pc |-> "link", kind |-> kind, session |-> s, from |-> from, to |-> to])
          /\ UNCHANGED <<session_states, hash_chain, audit_log>>
    BY <1>4, ResetEffect
  <2>2. ~Auditing(t) /\ \A u \in Threads : u # t => job'[u] = job[u]
    BY <2>1 DEF Begun, Auditing, Idle
  <2> QED BY <1>1, <1>2, <2>1, <2>2
<1>5. ASSUME NEW t \in Threads, ReadState(t) PROVE RaisedIsAudited'
  <2>1. ~Auditing(t) /\ UNCHANGED session_states /\ \A u \in Threads : u # t => job'[u] = job[u]
    BY <1>5, ReadEffect DEF Auditing
  <2> QED BY <1>1, <1>2, <2>1
<1>6. ASSUME NEW t \in Threads, Transition(t) PROVE RaisedIsAudited'
  <2> DEFINE j == job[t]
  <2>1. /\ ~Auditing(t) /\ Auditing(t)' /\ job'[t].session = j.session /\ job'[t].to = j.to
        /\ \A u \in Threads : u # t => job'[u] = job[u]
        /\ DOMAIN session_states' = DOMAIN session_states
        /\ \A s \in DOMAIN session_states :
             session_states'[s].current = IF s = j.session THEN j.to ELSE session_states[s].current
        /\ UNCHANGED audit_log
    BY <1>6, TransitionEffect DEF Auditing, HasEntry, Has
  <2> SUFFICES ASSUME NEW s \in DOMAIN session_states, session_states'[s].current > 1
               PROVE  \/ \E i \in DOMAIN audit_log :
                           /\ audit_log[i].entry.session = s
                           /\ audit_log[i].entry.to = session_states'[s].current
                      \/ \E u \in Threads :
                           Auditing(u)' /\ job'[u].session = s
                             /\ job'[u].to = session_states'[s].current
    BY <2>1 DEF RaisedIsAudited
  <2>2. CASE s = j.session
    BY <2>1, <2>2
  <2>3. CASE s # j.session
    <3>1. session_states'[s].current = session_states[s].current
      BY <2>1, <2>3
    <3>2. \/ \E i \in DOMAIN audit_log :
               audit_log[i].entry.session = s /\ audit_log[i].entry.to = session_states[s].current
          \/ \E u \in Threads :
               Auditing(u) /\ job[u].session = s /\ job[u].to = session_states[s].current
      BY <3>1 DEF RaisedIsAudited
    <3>3. \A u \in Threads : Auditing(u) => Auditing(u)' /\ job'[u] = job[u]
      BY <2>1 DEF Auditing
    <3> QED BY <3>1, <3>2, <3>3
  <2> QED BY <2>2, <2>3
<1>7. ASSUME NEW t \in Threads, GetLatestHash(t) \/ ExtendChain(t) PROVE RaisedIsAudited'
  <2>1. /\ Auditing(t)' /\ job'[t].session = job[t].session /\ job'[t].to = job[t].to
        /\ UNCHANGED session_states /\ \A u \in Threads : u # t => job'[u] = job[u]
    BY <1>7, LatestEffect, ExtendEffect DEF Auditing, HasEntry, Has
  <2>2. \A u \in Threads : Auditing(u) =>
          Auditing(u)' /\ job'[u].session = job[u].session /\ job'[u].to = job[u].to
    BY <2>1 DEF Auditing
  <2> QED BY <1>2, <2>1, <2>2, RaisedKept
<1>8. ASSUME NEW t \in Threads, PushEntry(t) PROVE RaisedIsAudited'
  <2> DEFINE j == job[t]
             n == Len(audit_log) + 1
  <2>1. /\ n \in DOMAIN audit_log' /\ audit_log'[n].entry.session = j.session
        /\ audit_log'[n].entry.to = j.to
        /\ \A i \in DOMAIN audit_log : i \in DOMAIN audit_log' /\ audit_log'[i] = audit_log[i]
    BY <1>8, PushLogs
  <2>2. UNCHANGED session_states /\ \A u \in Threads : u # t => job'[u] = job[u]
    BY <1>8, PushEffect
  <2> SUFFICES ASSUME NEW s \in DOMAIN session_states, session_states[s].current > 1
               PROVE  \/ \E i \in DOMAIN audit_log' :
                           /\ audit_log'[i].entry.session = s
                           /\ audit_log'[i].entry.to = session_states[s].current
                      \/ \E u \in Threads :
                           Auditing(u)' /\ job'[u].session = s
                             /\ job'[u].to = session_states[s].current
    BY <2>2 DEF RaisedIsAudited
  <2>3. CASE \E i \in DOMAIN audit_log :
               audit_log[i].entry.session = s /\ audit_log[i].entry.to = session_states[s].current
    BY <2>1, <2>3
  <2>4. ASSUME NEW u \in Threads, Auditing(u), job[u].session = s,
               job[u].to = session_states[s].current
        PROVE  \/ \E i \in DOMAIN audit_log' :
                    /\ audit_log'[i].entry.session = s
                    /\ audit_log'[i].entry.to = session_states[s].current
               \/ \E v \in Threads :
                    Auditing(v)' /\ job'[v].session = s /\ job'[v].to = session_states[s].current
    BY <2>1, <2>2, <2>4 DEF Auditing
  <2> QED BY <2>3, <2>4 DEF RaisedIsAudited
<1>9. ASSUME NEW t \in Threads, Answer(t) PROVE RaisedIsAudited'
  <2>1. ~Auditing(t) /\ UNCHANGED session_states /\ \A u \in Threads : u # t => job'[u] = job[u]
    BY <1>9, AnswerEffect DEF Auditing
  <2> QED BY <1>1, <1>2, <2>1
<1>10. ASSUME NEW t \in Threads, ClearState(t) PROVE RaisedIsAudited'
  <2>1. ~Auditing(t) /\ \A u \in Threads : u # t => job'[u] = job[u]
    BY <1>10, ClearEffect DEF Auditing
  <2>2. New.current = 1
    BY DEF New
  <2>3. \A s \in DOMAIN session_states' : session_states'[s].current > 1 =>
          s \in DOMAIN session_states /\ session_states[s].current = session_states'[s].current
    BY <1>10, <2>2, ClearEffect
  <2> QED BY <1>1, <2>1, <2>3
<1>11. ASSUME NEW s \in Sessions, ForgetSession(s) PROVE RaisedIsAudited'
  <2>1. \A u \in Threads : Auditing(u) =>
          Auditing(u)' /\ job'[u].session = job[u].session /\ job'[u].to = job[u].to
    BY <1>11, ForgetEffect DEF Auditing
  <2>2. \A q \in DOMAIN session_states' :
          q \in DOMAIN session_states /\ session_states[q].current = session_states'[q].current
    BY <1>11, ForgetEffect
  <2> QED BY <2>1, <2>2, RaisedKept
<1>12. ASSUME UNCHANGED <<session_states, audit_log, job>> PROVE RaisedIsAudited'
  BY <1>12 DEF RaisedIsAudited, Auditing
<1>13. ExtendElsewhere => RaisedIsAudited'
  BY <1>12, ElsewhereEffect
<1> QED
  BY <1>3, <1>4, <1>5, <1>6, <1>7, <1>8, <1>9, <1>10, <1>11, <1>12, <1>13
     DEF Next, Continue, vars

-----------------------------------------------------------------------------
(* The log and the chain.                                                  *)

\* The chain is not shortened, nor a link of it changed.
LEMMA ChainKept ==
  ASSUME Shape, [Next]_vars
  PROVE  /\ Len(hash_chain) <= Len(hash_chain')
         /\ \A n \in DOMAIN hash_chain : n \in DOMAIN hash_chain' /\ hash_chain'[n] = hash_chain[n]
<1> DEFINE P == /\ Len(hash_chain) <= Len(hash_chain')
                /\ \A n \in DOMAIN hash_chain :
                     n \in DOMAIN hash_chain' /\ hash_chain'[n] = hash_chain[n]
<1>1. CASE UNCHANGED hash_chain
  <2>1. Len(hash_chain) \in Nat
    BY DEF Shape
  <2> QED BY <1>1, <2>1
<1>2. ASSUME NEW e \in Link, hash_chain' = Append(hash_chain, e) PROVE P
  BY <1>2, ChainGrows
<1>3. ASSUME NEW t \in Threads, ExtendChain(t) PROVE P
  <2> DEFINE j == job[t]
  <2>1. /\ j.kind \in Call /\ j.session \in Sessions /\ hash_chain' = Append(hash_chain, Entry(j))
        /\ j.from \in SecurityState /\ j.to \in SecurityState
        /\ Entry(j) = [session |-> j.session, from |-> j.from, to |-> j.to, kind |-> j.kind]
    BY <1>3, ExtendEffect
  <2> HIDE DEF j
  <2>2. [session |-> j.session, from |-> j.from, to |-> j.to, kind |-> j.kind] \in Link
    BY <2>1, Built
  <2> QED BY <1>2, <2>1, <2>2
<1>4. ExtendElsewhere => P
  BY <1>2, ElsewhereEffect
<1> QED
  BY <1>1, <1>3, <1>4
     DEF Next, Continue, ReadState, Transition, Answer, ClearState, GetLatestHash, PushEntry,
         BeginProcess, BeginReset, ForgetSession, vars

\* The new link is the entry of the thread, and no earlier one.
LEMMA ExtendLinks ==
  ASSUME Shape, NEW t \in Threads, ExtendChain(t)
  PROVE  LET n == Len(hash_chain) + 1 IN
         /\ n \in Nat /\ n \notin DOMAIN hash_chain
         /\ n \in DOMAIN hash_chain' /\ hash_chain'[n] = Entry(job[t])
         /\ job'[t].current = n /\ Entry(job'[t]) = Entry(job[t])
<1> DEFINE j == job[t]
<1>1. /\ j.kind \in Call /\ j.session \in Sessions /\ hash_chain' = Append(hash_chain, Entry(j))
      /\ j.from \in SecurityState /\ j.to \in SecurityState
      /\ Entry(j) = [session |-> j.session, from |-> j.from, to |-> j.to, kind |-> j.kind]
      /\ HasEntry(job'[t], "push", j.kind, j.session, j.from, j.to)
      /\ job'[t].current = NewHash
  BY ExtendEffect
<1>2. Entry(job'[t]) = Entry(j)
  BY <1>1 DEF Entry, HasEntry, Has
<1> HIDE DEF j
<1>3. [session |-> j.session, from |-> j.from, to |-> j.to, kind |-> j.kind] \in Link
  BY <1>1, Built
<1>4. Entry(j) \in Link
  BY <1>1, <1>3
<1>5. /\ NewHash \in Nat /\ NewHash = Len(hash_chain) + 1
      /\ NewHash \in DOMAIN hash_chain' /\ hash_chain'[NewHash] = Entry(j)
      /\ Len(hash_chain) \in Nat /\ \A n \in DOMAIN hash_chain : n <= Len(hash_chain)
  BY <1>1, <1>4, ChainGrows
<1>6. Len(hash_chain) + 1 \notin DOMAIN hash_chain
  BY <1>5
<1> QED BY <1>1, <1>2, <1>5, <1>6 DEF j

LEMMA OnChainStep ==
  ASSUME Shape, OnChain, LinksPending, [Next]_vars
  PROVE  OnChain'
<1>1. CASE UNCHANGED audit_log
  BY <1>1, ChainKept DEF OnChain
<1>2. ASSUME NEW t \in Threads, PushEntry(t) PROVE OnChain'
  <2> DEFINE j == job[t]
             n == Len(audit_log) + 1
  <2>1. /\ DOMAIN audit_log' = DOMAIN audit_log \cup {n} /\ n \notin DOMAIN audit_log
        /\ \A i \in DOMAIN audit_log : audit_log'[i] = audit_log[i]
        /\ audit_log'[n].entry = Entry(j)
        /\ audit_log'[n].prev = j.prev /\ audit_log'[n].current = j.current
    BY <1>2, PushLogs
  <2>2. /\ j.current \in DOMAIN hash_chain /\ hash_chain[j.current] = Entry(j)
        /\ j.prev < j.current
        /\ \A i \in DOMAIN audit_log : audit_log[i].current # j.current
    BY <1>2, PushEffect DEF LinksPending, Pushing
  <2>3. UNCHANGED hash_chain
    BY <1>2, PushEffect
  <2> HIDE DEF j, n
  <2> QED BY <2>1, <2>2, <2>3 DEF OnChain
<1> QED
  BY <1>1, <1>2
     DEF Next, Continue, ReadState, Transition, Answer, ClearState, GetLatestHash, ExtendChain,
         BeginProcess, BeginReset, ForgetSession, ExtendElsewhere, vars

LEMMA LinksPendingStep ==
  ASSUME Shape, OnChain, LinksPending, [Next]_vars
  PROVE  LinksPending'
<1>1. ASSUME NEW t \in Threads, job'[t].pc \notin {"extend", "push"}, UNCHANGED audit_log,
             \A u \in Threads : u # t => job'[u] = job[u]
      PROVE  LinksPending'
  <2>1. \A u \in Threads : job'[u].pc \in {"extend", "push"} =>
          u # t /\ job'[u] = job[u] /\ Entry(job'[u]) = Entry(job[u])
    BY <1>1
  <2>2. \A u \in Threads : job'[u].pc = "extend" => job'[u].prev <= Len(hash_chain')
    <3> SUFFICES ASSUME NEW u \in Threads, job'[u].pc = "extend"
                 PROVE  job'[u].prev <= Len(hash_chain')
      OBVIOUS
    <3>1. job[u].pc = "extend" /\ job'[u] = job[u]
      BY <2>1
    <3>2. job[u].prev \in Nat /\ Len(hash_chain) \in Nat
      BY <3>1, JobFields DEF Shape
    <3>3. job[u].prev <= Len(hash_chain)
      BY <3>1 DEF LinksPending
    <3>4. Len(hash_chain') \in Nat
      BY ShapeStep DEF Shape
    <3> QED BY <3>1, <3>2, <3>3, <3>4, ChainKept
  <2> QED BY <1>1, <2>1, <2>2, ChainKept DEF LinksPending, Pushing
<1>2. ASSUME UNCHANGED <<audit_log, job>> PROVE LinksPending'
  <2>1. \A u \in Threads : job[u].pc = "extend" => job[u].prev <= Len(hash_chain')
    <3> SUFFICES ASSUME NEW u \in Threads, job[u].pc = "extend"
                 PROVE  job[u].prev <= Len(hash_chain')
      OBVIOUS
    <3>2. job[u].prev \in Nat /\ Len(hash_chain) \in Nat
      BY JobFields DEF Shape
    <3>3. job[u].prev <= Len(hash_chain)
      BY DEF LinksPending
    <3>4. Len(hash_chain') \in Nat
      BY ShapeStep DEF Shape
    <3> QED BY <3>2, <3>3, <3>4, ChainKept
  <2> QED BY <1>2, <2>1, ChainKept DEF LinksPending, Pushing, Entry
<1>3. ASSUME NEW t \in Threads, NEW s \in Sessions, NEW sig \in Signals, BeginProcess(t, s, sig)
      PROVE  LinksPending'
  BY <1>1, <1>3, ProcessEffect DEF Begun, Has
<1>4. ASSUME NEW t \in Threads, NEW s \in Sessions, NEW a \in BOOLEAN, BeginReset(t, s, a)
      PROVE  LinksPending'
  <2>1. PICK kind \in {"reset", "denied"}, from \in SecurityState, to \in SecurityState :
          /\ Begun(t, [pc |-> "link", kind |-> kind, session |-> s, from |-> from, to |-> to])
          /\ HasEntry(job'[t], "link", kind, s, from, to)
          /\ UNCHANGED <<session_states, hash_chain, audit_log>>
    BY <1>4, ResetEffect
  <2> QED BY <1>1, <2>1 DEF Begun, Has, HasEntry
<1>5. ASSUME NEW t \in Threads, ReadState(t) PROVE LinksPending'
  BY <1>1, <1>5, ReadEffect DEF Has, HasEntry
<1>6. ASSUME NEW t \in Threads, Transition(t) PROVE LinksPending'
  BY <1>1, <1>6, TransitionEffect DEF Has, HasEntry
<1>7. ASSUME NEW t \in Threads, GetLatestHash(t) PROVE LinksPending'
  <2>1. /\ job'[t].pc = "extend" /\ job'[t].prev = Len(hash_chain)
        /\ UNCHANGED <<hash_chain, audit_log>>
        /\ \A u \in Threads : u # t => job'[u] = job[u]
    BY <1>7, LatestEffect DEF HasEntry, Has
  <2>2. \A u \in Threads : job'[u].pc = "push" => job'[u] = job[u] /\ Entry(job'[u]) = Entry(job[u])
    BY <2>1
  <2>3. Len(hash_chain) \in Nat
    BY DEF Shape
  <2>4. \A u \in Threads : job'[u].pc = "extend" => job'[u].prev <= Len(hash_chain')
    BY <2>1, <2>3 DEF LinksPending
  <2> QED BY <2>1, <2>2, <2>4 DEF LinksPending, Pushing
<1>8. ASSUME NEW t \in Threads, ExtendChain(t) PROVE LinksPending'
  <2> DEFINE n == Len(hash_chain) + 1
  <2>1. /\ n \in Nat /\ n \notin DOMAIN hash_chain
        /\ n \in DOMAIN hash_chain' /\ hash_chain'[n] = Entry(job'[t])
        /\ job'[t].current = n
    BY <1>8, ExtendLinks
  <2>2. /\ job[t].pc = "extend" /\ job'[t].pc = "push" /\ job'[t].prev = job[t].prev
        /\ job[t].prev \in Nat /\ UNCHANGED audit_log
        /\ \A u \in Threads : u # t => job'[u] = job[u]
    BY <1>8, ExtendEffect DEF HasEntry, Has
  <2>3. job'[t].prev < n
    <3>1. Len(hash_chain) \in Nat /\ job[t].prev <= Len(hash_chain)
      BY <2>2 DEF Shape, LinksPending
    <3> QED BY <2>2, <3>1
  <2>4. \A i \in DOMAIN audit_log : audit_log[i].current # n
    BY <2>1 DEF OnChain
  <2>5. \A u \in Threads : u # t => Entry(job'[u]) = Entry(job[u])
    BY <2>2
  <2>6. \A u \in Threads : job'[u].pc = "extend" => job'[u].prev <= Len(hash_chain')
    <3> SUFFICES ASSUME NEW u \in Threads, job'[u].pc = "extend"
                 PROVE  job'[u].prev <= Len(hash_chain')
      OBVIOUS
    <3>1. job[u].pc = "extend" /\ job'[u] = job[u]
      BY <2>2
    <3>2. job[u].prev \in Nat /\ Len(hash_chain) \in Nat
      BY <3>1, JobFields DEF Shape
    <3>3. job[u].prev <= Len(hash_chain)
      BY <3>1 DEF LinksPending
    <3>4. Len(hash_chain') \in Nat
      BY ShapeStep DEF Shape
    <3> QED BY <3>1, <3>2, <3>3, <3>4, ChainKept
  <2> HIDE DEF n
  <2>7. \A u \in Threads : u # t /\ job'[u].pc = "push" =>
          /\ job'[u].current \in DOMAIN hash_chain /\ job'[u].current # n
          /\ job'[u].current \in DOMAIN hash_chain'
          /\ hash_chain'[job'[u].current] = Entry(job'[u])
          /\ job'[u].prev < job'[u].current
          /\ \A i \in DOMAIN audit_log : audit_log[i].current # job'[u].current
    BY <2>1, <2>2, <2>5, ChainKept DEF LinksPending, Pushing
  <2>8. \A u, v \in Threads : job'[u].pc = "push" /\ job'[v].pc = "push"
                                /\ job'[u].current = job'[v].current => u = v
    <3>1. \A u, v \in Threads : u # t /\ v # t /\ job'[u].pc = "push" /\ job'[v].pc = "push"
                                  /\ job'[u].current = job'[v].current => u = v
      BY <2>2 DEF LinksPending, Pushing
    <3> QED BY <2>1, <2>7, <3>1
  <2>9. \A u \in Threads : job'[u].pc = "push" =>
          /\ job'[u].current \in DOMAIN hash_chain'
          /\ hash_chain'[job'[u].current] = Entry(job'[u])
          /\ job'[u].prev < job'[u].current
          /\ \A i \in DOMAIN audit_log : audit_log[i].current # job'[u].current
    BY <2>1, <2>3, <2>4, <2>7
  <2> QED BY <2>2, <2>6, <2>8, <2>9 DEF LinksPending, Pushing
<1>9. ASSUME NEW t \in Threads, PushEntry(t) PROVE LinksPending'
  <2> DEFINE j == job[t]
             n == Len(audit_log) + 1
  <2>1. /\ DOMAIN audit_log' = DOMAIN audit_log \cup {n} /\ audit_log'[n].current = j.current
        /\ \A i \in DOMAIN audit_log : audit_log'[i] = audit_log[i]
    BY <1>9, PushLogs
  <2>2. /\ job[t].pc = "push" /\ job'[t].pc \notin {"push", "extend"} /\ UNCHANGED hash_chain
        /\ \A u \in Threads : u # t => job'[u] = job[u]
    BY <1>9, PushEffect DEF Has
  <2>3. \A u \in Threads : job'[u].pc \in {"extend", "push"} =>
          u # t /\ job'[u] = job[u] /\ Entry(job'[u]) = Entry(job[u])
    BY <2>2
  <2>4. \A u \in Threads : job'[u].pc = "push" => job'[u].current # j.current
    BY <2>2, <2>3 DEF LinksPending, Pushing
  <2>5. \A u \in Threads : job'[u].pc = "push" =>
          /\ job'[u].current \in DOMAIN hash_chain'
          /\ hash_chain'[job'[u].current] = Entry(job'[u])
          /\ job'[u].prev < job'[u].current
          /\ \A i \in DOMAIN audit_log' : audit_log'[i].current # job'[u].current
    BY <2>1, <2>2, <2>3, <2>4 DEF LinksPending, Pushing
  <2> HIDE DEF j, n
  <2>6. \A u \in Threads : job'[u].pc = "extend" => job'[u].prev <= Len(hash_chain')
    BY <2>2, <2>3 DEF LinksPending
  <2>7. \A u, v \in Threads : job'[u].pc = "push" /\ job'[v].pc = "push"
                                /\ job'[u].current = job'[v].current => u = v
    BY <2>3 DEF LinksPending, Pushing
  <2> QED BY <2>5, <2>6, <2>7 DEF LinksPending, Pushing
<1>10. ASSUME NEW t \in Threads, Answer(t) \/ ClearState(t) PROVE LinksPending'
  BY <1>1, <1>10, AnswerEffect, ClearEffect
<1>11. ASSUME NEW s \in Sessions, ForgetSession(s) PROVE LinksPending'
  BY <1>2, <1>11, ForgetEffect
<1>12. ExtendElsewhere => LinksPending'
  BY <1>2, ElsewhereEffect
<1> QED
  BY <1>2, <1>3, <1>4, <1>5, <1>6, <1>7, <1>8, <1>9, <1>10, <1>11, <1>12
     DEF Next, Continue, vars

-----------------------------------------------------------------------------
(* One call after the other.                                               *)

LEMMA OneBusyStep ==
  ASSUME Shape, OneBusy, [Next]_vars
  PROVE  OneBusy'
<1>1. ASSUME NEW t \in Threads, job[t] # Idle, UNCHANGED overlapped,
             \A u \in Threads : u # t => job'[u] = job[u]
      PROVE  OneBusy'
  BY <1>1 DEF OneBusy
<1>2. ASSUME NEW t \in Threads, ~overlapped' => \A u \in Threads : job[u] = Idle,
             \A u \in Threads : u # t => job'[u] = job[u]
      PROVE  OneBusy'
  BY <1>2 DEF OneBusy
<1>3. ASSUME UNCHANGED <<job, overlapped>> PROVE OneBusy'
  BY <1>3 DEF OneBusy
<1>4. ASSUME NEW t \in Threads, NEW s \in Sessions, NEW sig \in Signals, BeginProcess(t, s, sig)
      PROVE  OneBusy'
  BY <1>2, <1>4, ProcessEffect DEF Begun
<1>5. ASSUME NEW t \in Threads, NEW s \in Sessions, NEW a \in BOOLEAN, BeginReset(t, s, a)
      PROVE  OneBusy'
  <2>1. PICK kind \in {"reset", "denied"}, from \in SecurityState, to \in SecurityState :
          Begun(t, [pc |-> "link", kind |-> kind, session |-> s, from |-> from, to |-> to])
    BY <1>5, ResetEffect
  <2> QED BY <1>2, <2>1 DEF Begun
<1>6. ASSUME NEW t \in Threads, Continue(t) PROVE OneBusy'
  <2>1. job[t] # Idle /\ UNCHANGED overlapped
    BY <1>6 DEF Continue, ReadState, Transition, Answer, ClearState, GetLatestHash, ExtendChain,
                PushEntry, Idle
  <2>2. \A u \in Threads : u # t => job'[u] = job[u]
    BY <1>6, ReadEffect, TransitionEffect, AnswerEffect, ClearEffect, LatestEffect, ExtendEffect,
       PushEffect DEF Continue
  <2> QED BY <1>1, <2>1, <2>2
<1> QED BY <1>3, <1>4, <1>5, <1>6 DEF Next, ForgetSession, ExtendElsewhere, vars

\* While a thread is at work and no calls have overlapped, the others rest.
LEMMA OthersRest ==
  ASSUME OneBusy, ~overlapped, NEW t \in Threads, job[t].pc # "idle"
  PROVE  \A u \in Threads : u # t => job[u] = Idle /\ job[u].pc = "idle" /\ ~Auditing(u)
  BY DEF OneBusy, Idle, Auditing

LEMMA UndisturbedStep ==
  ASSUME Shape, OneBusy, Undisturbed, [Next]_vars
  PROVE  Undisturbed'
<1> SUFFICES ASSUME ~overlapped' PROVE Undisturbed'
  BY DEF Undisturbed
<1>1. ~overlapped
  BY DEF Next, Continue, ReadState, Transition, Answer, ClearState, GetLatestHash, ExtendChain,
         PushEntry, BeginProcess, BeginReset, Begin, ForgetSession, ExtendElsewhere, vars
<1> DEFINE Fine(u) ==
             /\ job'[u].pc = "write" /\ job'[u].session \in DOMAIN session_states' =>
                  session_states'[job'[u].session].current = job'[u].from
             /\ Auditing(u)' /\ job'[u].kind # "reset"
                  /\ job'[u].session \in DOMAIN session_states' =>
                  session_states'[job'[u].session].current = job'[u].to
<1>2. ASSUME NEW u \in Threads, job'[u].pc \in {"idle", "read", "answer", "clear"} PROVE Fine(u)
  BY <1>2 DEF Auditing
<1>3. ASSUME NEW t \in Threads, job[t].pc # "idle" \/ \A u \in Threads : job[u] = Idle,
             \A u \in Threads : u # t => job'[u] = job[u], Fine(t)
      PROVE  Undisturbed'
  <2>1. ASSUME NEW u \in Threads, u # t PROVE Fine(u)
    <3>1. job[u].pc = "idle"
      BY <1>1, <1>3, <2>1, OthersRest DEF Idle
    <3> QED BY <1>2, <1>3, <2>1, <3>1
  <2> QED BY <1>3, <2>1 DEF Undisturbed
<1>4. ASSUME NEW t \in Threads, NEW s \in Sessions, NEW sig \in Signals, BeginProcess(t, s, sig)
      PROVE  Undisturbed'
  <2>1. /\ Begun(t, [pc |-> "read", kind |-> "process", session |-> s, signal |-> sig])
        /\ Has(job'[t], "read", "process", s)
    BY <1>4, ProcessEffect
  <2>2. Fine(t)
    BY <1>2, <2>1 DEF Has
  <2> QED BY <1>3, <2>1, <2>2 DEF Begun
<1>5. ASSUME NEW t \in Threads, NEW s \in Sessions, NEW a \in BOOLEAN, BeginReset(t, s, a)
      PROVE  Undisturbed'
  <2>1. PICK kind \in {"reset", "denied"}, from \in SecurityState, to \in SecurityState :
          /\ Begun(t, [pc |-> "link", kind |-> kind, session |-> s, from |-> from, to |-> to])
          /\ HasEntry(job'[t], "link", kind, s, from, to)
          /\ kind = "denied" => to = current_state(s)
          /\ UNCHANGED <<session_states, hash_chain, audit_log>>
    BY <1>5, ResetEffect
  <2>2. Fine(t)
    BY <2>1 DEF HasEntry, Has, current_state
  <2> QED BY <1>3, <2>1, <2>2 DEF Begun
<1>6. ASSUME NEW t \in Threads, ReadState(t) PROVE Undisturbed'
  <2>1. /\ job[t].pc = "read" /\ UNCHANGED session_states
        /\ \A u \in Threads : u # t => job'[u] = job[u]
        /\ \/ job'[t].pc = "idle"
           \/ \E to : HasEntry(job'[t], "write", "process", job[t].session,
                               current_state(job[t].session), to)
           \/ Has(job'[t], "answer", "process", job[t].session)
    BY <1>6, ReadEffect
  <2>2. Fine(t)
    BY <2>1 DEF HasEntry, Has, current_state, Auditing
  <2> QED BY <1>3, <2>1, <2>2
<1>7. ASSUME NEW t \in Threads, Transition(t) PROVE Undisturbed'
  <2>1. /\ job[t].pc = "write" /\ DOMAIN session_states' = DOMAIN session_states
        /\ \A u \in Threads : u # t => job'[u] = job[u]
        /\ HasEntry(job'[t], "link", "process", job[t].session, job[t].from, job[t].to)
        /\ \A s \in DOMAIN session_states :
             session_states'[s].current =
               IF s = job[t].session THEN job[t].to ELSE session_states[s].current
    BY <1>7, TransitionEffect
  <2>2. Fine(t)
    BY <2>1 DEF HasEntry, Has
  <2> QED BY <1>3, <2>1, <2>2
<1>8. ASSUME NEW t \in Threads, GetLatestHash(t) \/ ExtendChain(t) PROVE Undisturbed'
  <2>1. /\ job[t].pc \in {"link", "extend"} /\ job'[t].pc \in {"extend", "push"}
        /\ job'[t].session = job[t].session /\ job'[t].kind = job[t].kind
        /\ job'[t].to = job[t].to /\ UNCHANGED session_states
        /\ \A u \in Threads : u # t => job'[u] = job[u]
    BY <1>8, LatestEffect, ExtendEffect DEF HasEntry, Has
  <2>2. Fine(t)
    BY <1>1, <2>1 DEF Undisturbed, Auditing
  <2> QED BY <1>3, <2>1, <2>2
<1>9. ASSUME NEW t \in Threads, PushEntry(t) \/ Answer(t) \/ ClearState(t) PROVE Undisturbed'
  <2>1. /\ job[t].pc # "idle" /\ job'[t].pc \in {"idle", "clear", "answer"}
        /\ \A u \in Threads : u # t => job'[u] = job[u]
    BY <1>9, PushEffect, AnswerEffect, ClearEffect DEF Has
  <2> QED BY <1>2, <1>3, <2>1
<1>10. ASSUME NEW s \in Sessions, ForgetSession(s) PROVE Undisturbed'
  BY <1>1, <1>10, ForgetEffect DEF Undisturbed, Auditing
<1>11. ASSUME UNCHANGED <<session_states, job>> PROVE Undisturbed'
  BY <1>1, <1>11 DEF Undisturbed, Auditing
<1>12. ExtendElsewhere => Undisturbed'
  BY <1>11, ElsewhereEffect
<1> QED
  BY <1>4, <1>5, <1>6, <1>7, <1>8, <1>9, <1>10, <1>11, <1>12 DEF Next, Continue, vars

\* What covers the state of a session goes on covering it.
LEMMA CoveredKept ==
  ASSUME Shape, NEW s, Covered(s), UNCHANGED audit_log,
         session_states'[s].current = session_states[s].current
  PROVE  Covered(s)'
  BY DEF Covered

LEMMA CoveredByPush ==
  ASSUME Shape, NEW t \in Threads, PushEntry(t), NEW s,
         \/ job[t].session # s /\ Covered(s)
         \/ job[t].session = s /\ job[t].to = session_states[s].current
  PROVE  Covered(s)'
<1> DEFINE j == job[t]
           n == Len(audit_log) + 1
<1>1. /\ n \in Nat /\ Len(audit_log') = n /\ n \notin DOMAIN audit_log
      /\ DOMAIN audit_log' = DOMAIN audit_log \cup {n}
      /\ \A i \in DOMAIN audit_log : i \in Nat /\ i < n /\ audit_log'[i] = audit_log[i]
      /\ audit_log'[n].entry.session = j.session /\ audit_log'[n].entry.to = j.to
  BY PushLogs
<1>2. UNCHANGED session_states
  BY PushEffect
<1>3. DOMAIN audit_log = 1..Len(audit_log) /\ Len(audit_log) \in Nat
  BY DEF Shape
<1>4. CASE j.session # s /\ Covered(s)
  <2>1. PICK i \in DOMAIN audit_log :
          /\ audit_log[i].entry.session = s
          /\ audit_log[i].entry.to = session_states[s].current
          /\ \A k \in (i + 1)..Len(audit_log) : audit_log[k].entry.session # s
    BY <1>4 DEF Covered
  <2>2. \A k \in (i + 1)..Len(audit_log') : audit_log'[k].entry.session # s
    <3> SUFFICES ASSUME NEW k \in (i + 1)..n PROVE audit_log'[k].entry.session # s
      BY <1>1
    <3>1. CASE k = n
      BY <1>1, <1>4, <3>1
    <3>2. CASE k # n
      <4>1. k \in (i + 1)..Len(audit_log) /\ k \in DOMAIN audit_log
        BY <1>1, <1>3, <3>2
      <4> QED BY <1>1, <2>1, <4>1
    <3> QED BY <3>1, <3>2
  <2>3. i \in DOMAIN audit_log' /\ audit_log'[i] = audit_log[i]
    BY <1>1
  <2> QED BY <1>2, <2>1, <2>2, <2>3 DEF Covered
<1>5. CASE j.session = s /\ j.to = session_states[s].current
  <2>1. \A k \in (n + 1)..n : FALSE
    BY <1>1
  <2> QED BY <1>1, <1>2, <1>5, <2>1 DEF Covered
<1> QED BY <1>4, <1>5

LEMMA AccountedStep ==
  ASSUME Shape, OneBusy, Undisturbed, Accounted, [Next]_vars
  PROVE  Accounted'
<1> SUFFICES ASSUME ~overlapped' PROVE Accounted'
  BY DEF Accounted
<1>1. ~overlapped
  BY DEF Next, Continue, ReadState, Transition, Answer, ClearState, GetLatestHash, ExtendChain,
         PushEntry, BeginProcess, BeginReset, Begin, ForgetSession, ExtendElsewhere, vars
<1> DEFINE Pending(u) == job[u].pc = "clear" \/ (Auditing(u) /\ job[u].kind # "reset")
           Raised(s) == s \in DOMAIN session_states /\ session_states[s].current > 1
           Raised1(s) == s \in DOMAIN session_states' /\ session_states'[s].current > 1
           Accounts(s) == Covered(s)' \/ \E u \in Threads : Pending(u)' /\ job'[u].session = s
<1>2. ASSUME \A s : Raised1(s) => Accounts(s) PROVE Accounted'
  BY <1>2 DEF Accounted
\* As long as nobody is about to clear a state or to log one, the log has it.
<1>3. ASSUME \A u \in Threads : ~Pending(u), NEW s, Raised(s) PROVE Covered(s)
  BY <1>1, <1>3 DEF Accounted
\* Only the thread at work can be.
<1>4. ASSUME NEW t \in Threads, job[t].pc # "idle", NEW s, Raised(s),
             ~Pending(t) \/ job[t].session # s
      PROVE  Covered(s)
  <2>1. \A u \in Threads : u # t => ~Pending(u)
    BY <1>1, <1>4, OthersRest
  <2> QED BY <1>1, <1>4, <2>1 DEF Accounted
<1>5. ASSUME NEW t \in Threads, \A u \in Threads : job[u] = Idle, UNCHANGED audit_log,
             \A q \in DOMAIN session_states' : session_states'[q].current = current_state(q)
      PROVE  Accounted'
  <2>1. \A u \in Threads : ~Pending(u)
    BY <1>5 DEF Auditing, Idle
  <2>2. ASSUME NEW s, Raised1(s) PROVE Covered(s)'
    <3>1. Raised(s) /\ session_states'[s].current = session_states[s].current
      BY <1>5, <2>2 DEF current_state
    <3>2. Covered(s)
      BY <1>3, <2>1, <3>1
    <3> QED BY <1>5, <3>1, <3>2, CoveredKept
  <2> QED BY <1>2, <2>2
<1>6. ASSUME NEW t \in Threads, NEW s \in Sessions, NEW sig \in Signals, BeginProcess(t, s, sig)
      PROVE  Accounted'
  <2>1. /\ Begun(t, [pc |-> "read", kind |-> "process", session |-> s, signal |-> sig])
        /\ \A q \in DOMAIN session_states' : session_states'[q].current = current_state(q)
        /\ UNCHANGED audit_log
    BY <1>6, ProcessEffect
  <2> QED BY <1>5, <2>1 DEF Begun
<1>7. ASSUME NEW t \in Threads, NEW s \in Sessions, NEW a \in BOOLEAN, BeginReset(t, s, a)
      PROVE  Accounted'
  <2>1. PICK kind \in {"reset", "denied"}, from \in SecurityState, to \in SecurityState :
          /\ Begun(t, [pc |-> "link", kind |-> kind, session |-> s, from |-> from, to |-> to])
          /\ UNCHANGED <<session_states, hash_chain, audit_log>>
    BY <1>7, ResetEffect
  <2>2. \A q \in DOMAIN session_states' : session_states'[q].current = current_state(q)
    BY <2>1 DEF current_state
  <2> QED BY <1>5, <2>1, <2>2 DEF Begun
<1>8. ASSUME NEW t \in Threads, ReadState(t) \/ Answer(t) PROVE Accounted'
  <2>1. job[t].pc \in {"read", "answer"} /\ UNCHANGED <<session_states, audit_log>>
    BY <1>8, ReadEffect, AnswerEffect
  <2>2. ASSUME NEW s, Raised1(s) PROVE Covered(s)'
    <3>1. Raised(s) /\ ~Pending(t) /\ job[t].pc # "idle"
      BY <2>1, <2>2 DEF Auditing
    <3>2. Covered(s)
      BY <1>4, <3>1
    <3> QED BY <2>1, <3>2, CoveredKept
  <2> QED BY <1>2, <2>2
<1>9. ASSUME NEW t \in Threads, Transition(t) PROVE Accounted'
  <2>1. /\ job[t].pc = "write" /\ DOMAIN session_states' = DOMAIN session_states
        /\ HasEntry(job'[t], "link", "process", job[t].session, job[t].from, job[t].to)
        /\ \A s \in DOMAIN session_states :
             session_states'[s].current =
               IF s = job[t].session THEN job[t].to ELSE session_states[s].current
        /\ UNCHANGED audit_log
    BY <1>9, TransitionEffect
  <2>2. ASSUME NEW s, Raised1(s) PROVE Accounts(s)
    <3>1. CASE s = job[t].session
      <4>1. Pending(t)' /\ job'[t].session = s
        BY <2>1, <3>1 DEF HasEntry, Has, Auditing
      <4> QED BY <4>1
    <3>2. CASE s # job[t].session
      <4>1. Raised(s) /\ session_states'[s].current = session_states[s].current
        BY <2>1, <2>2, <3>2
      <4>2. Covered(s)
        BY <1>4, <2>1, <3>2, <4>1
      <4> QED BY <2>1, <4>1, <4>2, CoveredKept
    <3> QED BY <3>1, <3>2
  <2> QED BY <1>2, <2>2
<1>10. ASSUME NEW t \in Threads, GetLatestHash(t) \/ ExtendChain(t) PROVE Accounted'
  <2>1. /\ job[t].pc \in {"link", "extend"} /\ job'[t].pc \in {"extend", "push"}
        /\ job'[t].session = job[t].session /\ job'[t].kind = job[t].kind
        /\ UNCHANGED <<session_states, audit_log>>
    BY <1>10, LatestEffect, ExtendEffect DEF HasEntry, Has
  <2>2. ASSUME NEW s, Raised1(s) PROVE Accounts(s)
    <3>1. Raised(s)
      BY <2>1, <2>2
    <3>2. CASE Pending(t) /\ job[t].session = s
      <4>1. Pending(t)' /\ job'[t].session = s
        BY <2>1, <3>2 DEF Auditing
      <4> QED BY <4>1
    <3>3. CASE ~Pending(t) \/ job[t].session # s
      <4>1. Covered(s)
        BY <1>4, <2>1, <3>1, <3>3
      <4> QED BY <2>1, <4>1, CoveredKept
    <3> QED BY <3>2, <3>3
  <2> QED BY <1>2, <2>2
<1>11. ASSUME NEW t \in Threads, PushEntry(t) PROVE Accounted'
  <2>1. /\ job[t].pc = "push" /\ UNCHANGED session_states
        /\ job[t].kind = "reset" => job'[t].pc = "clear" /\ job'[t].session = job[t].session
    BY <1>11, PushEffect DEF Has
  <2>2. ASSUME NEW s, Raised1(s) PROVE Accounts(s)
    <3>1. Raised(s)
      BY <2>1, <2>2
    <3>2. CASE job[t].session # s
      <4>1. Covered(s)
        BY <1>4, <2>1, <3>1, <3>2
      <4> QED BY <1>11, <3>2, <4>1, CoveredByPush
    <3>3. CASE job[t].session = s /\ job[t].kind = "reset"
      <4>1. Pending(t)' /\ job'[t].session = s
        BY <2>1, <3>3
      <4> QED BY <4>1
    <3>4. CASE job[t].session = s /\ job[t].kind # "reset"
      <4>1. job[t].to = session_states[s].current
        BY <1>1, <2>1, <3>1, <3>4 DEF Undisturbed, Auditing
      <4> QED BY <1>11, <3>4, <4>1, CoveredByPush
    <3> QED BY <3>2, <3>3, <3>4
  <2> QED BY <1>2, <2>2
<1>12. ASSUME NEW t \in Threads, ClearState(t) PROVE Accounted'
  <2>1. /\ job[t].pc = "clear" /\ DOMAIN session_states' = DOMAIN session_states
        /\ \A q \in DOMAIN session_states :
             session_states'[q] = IF q = job[t].session THEN New ELSE session_states[q]
        /\ UNCHANGED audit_log
    BY <1>12, ClearEffect
  <2>2. New.current = 1
    BY DEF New
  <2>3. ASSUME NEW s, Raised1(s) PROVE Covered(s)'
    <3>1. /\ Raised(s) /\ session_states'[s].current = session_states[s].current
          /\ s # job[t].session
      BY <2>1, <2>2, <2>3
    <3>2. Covered(s)
      BY <1>4, <2>1, <3>1
    <3> QED BY <2>1, <3>1, <3>2, CoveredKept
  <2> QED BY <1>2, <2>3
<1>13. ASSUME NEW q \in Sessions, ForgetSession(q) PROVE Accounted'
  <2>1. /\ DOMAIN session_states' \subseteq DOMAIN session_states
        /\ \A s \in DOMAIN session_states' : session_states'[s] = session_states[s]
        /\ UNCHANGED <<audit_log, job>>
    BY <1>13, ForgetEffect
  <2>2. ASSUME NEW s, Raised1(s) PROVE Accounts(s)
    <3>1. Raised(s) /\ session_states'[s].current = session_states[s].current
      BY <2>1, <2>2
    <3>2. Covered(s) \/ \E u \in Threads : Pending(u) /\ job[u].session = s
      BY <1>1, <3>1 DEF Accounted
    <3>3. CASE Covered(s)
      BY <2>1, <3>1, <3>3, CoveredKept
    <3>4. CASE \E u \in Threads : Pending(u) /\ job[u].session = s
      BY <2>1, <3>4 DEF Auditing
    <3> QED BY <3>2, <3>3, <3>4
  <2> QED BY <1>2, <2>2
<1>14. ASSUME UNCHANGED <<session_states, audit_log, job>> PROVE Accounted'
  BY <1>1, <1>14 DEF Accounted, Covered, Auditing
<1>15. ExtendElsewhere => Accounted'
  BY <1>14, ElsewhereEffect
<1> QED
  BY <1>6, <1>7, <1>8, <1>9, <1>10, <1>11, <1>12, <1>13, <1>14, <1>15
     DEF Next, Continue, vars

-----------------------------------------------------------------------------
(* The invariant, and what follows from it.                                *)

LEMMA InitIInv ==
  ASSUME Init
  PROVE  IInv
<1>1. Shape
  <2>1. Idle \in Jobs /\ Foreign \in Link
    BY DEF Jobs, Link
  <2>2. job \in [Threads -> Jobs]
    BY <2>1 DEF Init
  <2>3. hash_chain \in Seq(Link) /\ audit_log \in Seq(AuditEntry)
    <3>1. hash_chain = <<Foreign>> /\ audit_log = <<>>
      BY DEF Init
    <3> QED BY <2>1, <3>1
  <2>4. calls \in 0..MaxCalls /\ overlapped \in BOOLEAN
    <3>1. calls = 0 /\ overlapped = FALSE
      BY DEF Init
    <3>2. 0 \in 0..MaxCalls
      BY CallsAssumption
    <3> QED BY <3>1, <3>2
  <2>5. /\ DOMAIN session_states \subseteq Sessions
        /\ session_states \in [DOMAIN session_states -> SessionState]
    BY DEF Init
  <2> QED BY <2>2, <2>3, <2>4, <2>5 DEF Shape
<1>2. \A t \in Threads : job[t] = Idle /\ job[t].pc = "idle" /\ ~Auditing(t)
  BY DEF Init, Idle, Auditing
<1>3. DOMAIN session_states = {} /\ DOMAIN audit_log = {}
  BY DEF Init
<1> QED
  BY <1>1, <1>2, <1>3
     DEF IInv, WritesRaise, RaisedIsAudited, ClearingIsLogged, OnChain, LinksPending, Pushing,
         OneBusy, Undisturbed, Accounted

LEMMA StepIInv ==
  ASSUME IInv, [Next]_vars
  PROVE  IInv'
  BY ShapeStep, WritesRaiseStep, RaisedStep, ClearingStep, OnChainStep, LinksPendingStep,
     OneBusyStep, UndisturbedStep, AccountedStep DEF IInv

\* In every behaviour of arbiter.rs the inductive invariant holds.
THEOREM Invariance == Spec => []IInv
<1>1. Init => IInv
  BY InitIInv
<1>2. IInv /\ [Next]_vars => IInv'
  BY StepIInv
<1> QED BY <1>1, <1>2, PTL DEF Spec

\* The shape of the session map, of the calls and of the log.
THEOREM TypeCorrect == Spec => []TypeOK
<1>1. IInv => TypeOK
  <2> SUFFICES ASSUME IInv PROVE TypeOK
    OBVIOUS
  <2>1. Shape
    BY DEF IInv
  <2>2. \A s \in DOMAIN session_states : session_states[s] \in SessionState
    BY <2>1 DEF Shape
  <2>3. \A t \in Threads :
          /\ job[t].pc \in {"idle", "read", "write", "link", "extend", "push", "answer", "clear"}
          /\ job[t].pc # "idle" => job[t].session \in Sessions
          /\ job[t].pc \in {"write", "link", "extend", "push"} =>
               job[t].from \in SecurityState /\ job[t].to \in SecurityState
    BY <2>1, JobFields
  <2>4. \A i \in DOMAIN audit_log :
          audit_log[i] \in AuditEntry /\ audit_log[i].current \in DOMAIN hash_chain
    BY <2>1 DEF IInv, OnChain, Shape
  <2> QED BY <2>1, <2>2, <2>3, <2>4 DEF TypeOK, Shape
<1> QED BY <1>1, Invariance, PTL

\* A raised session is shown in the audit log, or its entry is on its way there.
THEOREM RaisedIsAuditedCorrect == Spec => []RaisedIsAudited
<1>1. IInv => RaisedIsAudited
  BY DEF IInv
<1> QED BY <1>1, Invariance, PTL

\* As long as no calls overlapped, the last entry of a session accounts for its
\* state whenever nobody is at work.
THEOREM LastEntryCoversCorrect == Spec => []LastEntryCoversState
<1>1. IInv => LastEntryCoversState
  <2> SUFFICES ASSUME IInv, ~overlapped, \A t \in Threads : job[t] = Idle,
                      NEW s \in DOMAIN session_states, session_states[s].current > 1
               PROVE  Covered(s)
    BY DEF LastEntryCoversState, Covered
  <2>1. \A t \in Threads : job[t].pc # "clear" /\ ~Auditing(t)
    BY DEF Idle, Auditing
  <2> QED BY <2>1 DEF IInv, Accounted
<1> QED BY <1>1, Invariance, PTL

\* Whatever overlaps: what the log keeps of a link is what the chain hashes, no
\* link is kept twice, and the hash kept as the one before is that of an earlier
\* link. (That it is the link right before is what fails.)
THEOREM LogIsOnChain == Spec => []OnChain
<1>1. IInv => OnChain
  BY DEF IInv
<1> QED BY <1>1, Invariance, PTL

\* A session that stays is lowered only where a state is cleared, and otherwise
\* only by a write that found another state than it had read.
LEMMA LoweredHow ==
  ASSUME IInv, [Next]_vars, NEW s \in DOMAIN session_states, s \in DOMAIN session_states',
         session_states'[s].current < session_states[s].current
  PROVE  \/ \E t \in Threads : ClearState(t) /\ job[t].session = s /\ session_states'[s] = New
         \/ \E t \in Threads : /\ Transition(t) /\ job[t].session = s
                               /\ session_states'[s].current = job[t].to
<1> DEFINE P == \/ \E t \in Threads :
                     ClearState(t) /\ job[t].session = s /\ session_states'[s] = New
                \/ \E t \in Threads : /\ Transition(t) /\ job[t].session = s
                                      /\ session_states'[s].current = job[t].to
<1>0. Shape
  BY DEF IInv
<1>1. session_states[s].current \in SecurityState
  BY <1>0 DEF Shape, SessionState
<1>2. session_states'[s].current # session_states[s].current
  BY <1>1 DEF SecurityState
<1>3. ASSUME NEW t \in Threads, Transition(t) PROVE P
  BY <1>0, <1>2, <1>3, TransitionEffect
<1>4. ASSUME NEW t \in Threads, ClearState(t) PROVE P
  BY <1>0, <1>2, <1>4, ClearEffect
<1>5. ASSUME NEW t \in Threads, NEW q \in Sessions, NEW sig \in Signals, BeginProcess(t, q, sig)
      PROVE  P
  <2>1. session_states'[s].current = current_state(s)
    BY <1>0, <1>5, ProcessEffect
  <2> QED BY <1>2, <2>1 DEF current_state
<1>6. ASSUME NEW q \in Sessions, ForgetSession(q) PROVE P
  BY <1>0, <1>2, <1>6, ForgetEffect
<1> QED
  BY <1>2, <1>3, <1>4, <1>5, <1>6
     DEF Next, Continue, ReadState, Answer, GetLatestHash, ExtendChain, PushEntry,
         BeginReset, ExtendElsewhere, vars

\* A session is brought back to S1 only by a reset the log already shows, and
\* while calls follow each other nothing but a reset lowers it.
THEOREM LoweredAfterAuditCorrect == Spec => LoweredAfterAudit
<1>1. ASSUME IInv, [Next]_vars
      PROVE  \A s \in DOMAIN session_states \cap DOMAIN session_states' :
               session_states[s].current > 1 /\ session_states'[s].current = 1 =>
                 \E i \in DOMAIN audit_log :
                   audit_log[i].entry.session = s /\ audit_log[i].entry.kind = "reset"
  <2> SUFFICES ASSUME NEW s \in DOMAIN session_states \cap DOMAIN session_states',
                      session_states[s].current > 1, session_states'[s].current = 1
               PROVE  \E i \in DOMAIN audit_log :
                        audit_log[i].entry.session = s /\ audit_log[i].entry.kind = "reset"
    OBVIOUS
  <2>1. session_states'[s].current < session_states[s].current
    BY <1>1 DEF IInv, Shape, SessionState, SecurityState
  <2>2. CASE \E t \in Threads : ClearState(t) /\ job[t].session = s
    BY <1>1, <2>2 DEF IInv, ClearingIsLogged, ClearState
  <2>3. ASSUME NEW t \in Threads, Transition(t), session_states'[s].current = job[t].to
        PROVE  FALSE
    <3>1. job[t].from \in SecurityState /\ job[t].to \in SecurityState /\ job[t].pc = "write"
      BY <1>1, <2>3, TransitionEffect DEF IInv
    <3>2. job[t].from < job[t].to
      BY <1>1, <3>1 DEF IInv, WritesRaise
    <3> QED BY <2>3, <3>1, <3>2 DEF SecurityState
  <2> QED BY <1>1, <2>1, <2>2, <2>3, LoweredHow
<1>2. ASSUME IInv, [Next]_vars
      PROVE  ~overlapped => LoweredByReset
  <2> SUFFICES ASSUME ~overlapped, NEW s \in DOMAIN session_states \cap DOMAIN session_states',
                      session_states'[s].current < session_states[s].current
               PROVE  session_states'[s] = New /\ \E t \in Threads : job[t].pc = "clear"
    BY DEF LoweredByReset
  <2>1. CASE \E t \in Threads : ClearState(t) /\ session_states'[s] = New
    BY <2>1 DEF ClearState
  <2>2. ASSUME NEW t \in Threads, Transition(t), job[t].session = s,
               session_states'[s].current = job[t].to
        PROVE  FALSE
    <3>1. job[t].from \in SecurityState /\ job[t].to \in SecurityState /\ job[t].pc = "write"
      BY <1>2, <2>2, TransitionEffect DEF IInv
    <3>2. job[t].from < job[t].to /\ session_states[s].current = job[t].from
      BY <1>2, <2>2, <3>1 DEF IInv, WritesRaise, Undisturbed
    <3> QED BY <2>2, <3>1, <3>2 DEF SecurityState
  <2> QED BY <1>2, <2>1, <2>2, LoweredHow
<1>3. Spec => ResetIsAuditedFirst
  BY <1>1, Invariance, PTL DEF Spec, ResetIsAuditedFirst
<1>4. Spec => MonotonicInTurn
  BY <1>2, Invariance, PTL DEF Spec, MonotonicInTurn
<1> QED BY <1>3, <1>4 DEF LoweredAfterAudit

-----------------------------------------------------------------------------
(* The table.                                                              *)

\* A signal meets every threshold that a laxer one meets.
LEMMA MeetsTightens ==
  ASSUME NEW sig \in ModifiedSignal, NEW stricter \in ModifiedSignal, NEW threshold \in Nat,
         stricter.modifier <= sig.modifier, stricter.confidence >= sig.confidence,
         Meets(sig, threshold)
  PROVE  Meets(stricter, threshold)
<1>1. /\ sig.modifier \in Nat /\ stricter.modifier \in Nat
      /\ sig.confidence \in Nat /\ stricter.confidence \in Nat
  BY DEF ModifiedSignal
<1>2. \A a, b, c \in Nat : a <= b => c * a <= c * b
  BY SMT
<1>3. threshold * stricter.modifier <= threshold * sig.modifier
  BY <1>1, <1>2
<1>4. sig.confidence * 100 <= stricter.confidence * 100
  BY <1>1
<1>5. \A a, b, c, d \in Int : a >= b /\ b >= c /\ c >= d => a >= d
  OBVIOUS
<1>6. /\ threshold * stricter.modifier \in Int /\ threshold * sig.modifier \in Int
      /\ sig.confidence * 100 \in Int /\ stricter.confidence * 100 \in Int
  BY <1>1
<1> QED BY <1>3, <1>4, <1>5, <1>6 DEF Meets

LEMMA WarrantedTightens ==
  ASSUME NEW sig \in ModifiedSignal, NEW stricter \in ModifiedSignal,
         stricter.severity = sig.severity, stricter.modifier <= sig.modifier,
         stricter.confidence >= sig.confidence
  PROVE  Warranted(stricter) >= Warranted(sig)
<1>1. sig.modifier = 0 => stricter.modifier = 0
  BY DEF ModifiedSignal
<1>2. /\ Meets(sig, Critical) => Meets(stricter, Critical)
      /\ Meets(sig, High) => Meets(stricter, High)
      /\ Meets(sig, Medium) => Meets(stricter, Medium)
  BY MeetsTightens, ThresholdsAssumption
<1> QED BY <1>1, <1>2 DEF Warranted

\* For every grading of the thresholds and whatever state a session comes to, a
\* lower modifier or a higher confidence never leads to a lower state.
THEOREM ModifierOnlyTightensCorrect == Spec => []ModifierOnlyTightens
<1>1. \A current \in SecurityState : Tightens[current]
  <2> SUFFICES ASSUME NEW current \in SecurityState, NEW sig \in Graded, NEW stricter \in Graded,
                      stricter.severity = sig.severity, stricter.modifier <= sig.modifier,
                      stricter.confidence >= sig.confidence
               PROVE  determine_new_state(current, stricter) >= determine_new_state(current, sig)
    BY DEF Tightens
  <2>1. Warranted(stricter) >= Warranted(sig)
    BY WarrantedTightens, SignalsAssumption
  <2>2. Warranted(stricter) \in SecurityState /\ Warranted(sig) \in SecurityState
    BY DEF Warranted, SecurityState
  <2> QED BY <2>1, <2>2 DEF determine_new_state, SecurityState
<1>2. IInv => ModifierOnlyTightens
  BY <1>1, StateType DEF ModifierOnlyTightens, IInv
<1> QED BY <1>2, Invariance, PTL

=============================================================================
