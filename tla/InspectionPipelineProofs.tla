---------------------- MODULE InspectionPipelineProofs ----------------------
(***************************************************************************)
(* Proofs about InspectionPipeline: that an approval accounts for every    *)
(* layer however the turns of a session interleave, and what holds of a    *)
(* session while its calls follow one another.                             *)
(***************************************************************************)
EXTENDS InspectionPipeline, TLAPS

-----------------------------------------------------------------------------
(* The inductive invariant.                                                *)

Refusal == {"Quarantined", "HardLocked", "ConstitutionalBlock", "HaapGated"}

Results == {"none", "Approved", "Restricted"} \cup Refusal

AtLayer == {"inspect", "decide", "write", "answer"}

Between == {"advise", "watch", "govmem", "drs", "gate"}

Ending == {"clear", "remove", "forget", "unwatch"}

Turn ==
  [pc : {"idle", "ingest"} \cup AtLayer \cup Between \cup Ending,
   kind : {"none", "inbound", "outbound", "end", "reset"},
   session : Sessions \cup {"none"}, layer : 0..5, modifier : 0..100, signal : ModifiedSignal,
   state : SecurityState, result : Results, peak : SecurityState, cut : BOOLEAN]

\* Where a call of its kind can be.
Placed(tr) ==
  /\ tr.pc # "idle" => tr.session \in Sessions
  /\ tr.pc \in AtLayer => /\ tr.kind \in {"inbound", "outbound"} /\ tr.layer \in 1..5
                          /\ tr.kind = "outbound" => tr.layer # 5
  /\ tr.pc \in (Between \ {"watch"}) \cup {"ingest"} => tr.kind = "inbound"
  /\ tr.pc = "advise" => tr.layer = 1
  /\ tr.pc = "watch" => \/ tr.kind = "inbound" /\ tr.layer = 3
                        \/ tr.kind = "outbound" /\ tr.layer = 2
  /\ tr.pc = "govmem" => tr.layer = 3
  /\ tr.pc \in {"drs", "gate"} => tr.layer = 4
  /\ tr.pc \in Ending => tr.kind \in {"end", "reset"}
  /\ tr.pc = "clear" => tr.kind = "reset"
  /\ tr.pc = "forget" => tr.kind = "end"
  /\ tr.pc \notin {"idle", "ingest"} => tr.result = "none"
  /\ tr.pc = "ingest" => (tr.result = "none" /\ tr.layer = 4) \/ tr.result \in Refusal
  /\ tr.pc = "idle" /\ tr.kind \in {"inbound", "outbound"} => tr.result # "none"
  /\ tr.pc = "write" => ~is_clean(tr.signal) /\ Warranted(tr.signal) > 1

Shape ==
  /\ DOMAIN session_states \subseteq Sessions
  /\ session_states \in [DOMAIN session_states -> SecurityState]
  /\ DOMAIN memories \subseteq Sessions
  /\ memories \in [DOMAIN memories -> MemoryState]
  /\ turn \in [Threads -> Turn]
  /\ \A t \in Threads : Placed(turn[t])
  /\ watched \subseteq Sessions /\ ended \subseteq Sessions /\ overlapped \subseteq Sessions
  /\ calls \in 0..MaxCalls

\* What a layer has called for is in the session's state or still in hand, and a
\* memory floor is in the state the turn is answered with.
Accounts(tr, state, entry) ==
  LET called == tr.peak > 1 IN
  /\ tr.pc \in Between \/ (tr.pc = "inspect" /\ tr.layer # 5) => (called => state > 1)
  /\ tr.pc = "decide" /\ tr.layer # 5 =>
       /\ called => state > 1 \/ (~is_clean(tr.signal) /\ Warranted(tr.signal) > 1)
       /\ entry \/ tr.signal.modifier = 0
  /\ tr.pc = "write" /\ tr.layer # 5 => entry \/ tr.signal.modifier = 0
  /\ tr.pc = "answer" /\ tr.layer # 5 => (called => state > 1 \/ tr.signal.modifier = 0)
  /\ tr.pc \in AtLayer /\ tr.layer = 5 => tr.state > 1
  /\ tr.pc = "ingest" /\ tr.result = "none" => (called => tr.state > 1)
  /\ tr.pc = "idle" /\ tr.result = "Approved" => ~called

Accounted ==
  \A t \in Threads :
    Inbound(turn[t]) /\ ~turn[t].cut =>
      Accounts(turn[t], current_state(turn[t].session), turn[t].session \in DOMAIN session_states)

\* A call of a session none of whose calls have overlapped is the only one of the
\* session: what had ended before was reset when it began.
OneBusy ==
  \A t, u \in Threads :
    /\ u # t /\ turn[t].pc # "idle" /\ turn[u].session = turn[t].session
    /\ turn[t].session \notin overlapped
    => turn[u] = Idle

\* The thresholds are such that the signal of a memory floor leads to that floor.
FloorMeets == Medium <= 82 /\ High <= 90 /\ Critical <= 98

\* Where a call that is the only one of its session stands, against the Arbiter's map and the memories.
AloneAt(tr) ==
  LET s == tr.session
      state == current_state(s) IN
  /\ s \notin ended
  /\ tr.kind = "inbound" /\ tr.pc # "advise" => s \in DOMAIN memories
  /\ tr.kind \in {"inbound", "outbound"} /\ tr.pc # "advise"
       /\ ~(tr.pc = "inspect" /\ tr.layer = 1 /\ tr.modifier # 0) => s \in DOMAIN session_states
  /\ tr.pc \in {"watch", "govmem", "drs", "gate"} \/ (tr.pc = "inspect" /\ tr.layer \in 2..4) =>
       state <= 2
  /\ tr.pc \in AtLayer /\ tr.layer # 5 => tr.state = 1
  /\ tr.pc \in {"advise", "watch", "govmem", "drs"} => tr.state = 1
  /\ tr.pc = "gate" => tr.state <= 2
  /\ tr.kind = "inbound" /\ (tr.pc \in {"drs", "gate"} \/ (tr.pc \in AtLayer /\ tr.layer = 3)) =>
       memories[s] # "Locked"
  /\ tr.pc \in AtLayer /\ tr.layer = 5 =>
       /\ tr.state = memory_floor(memories[s]) /\ tr.state > 1
       /\ tr.signal = memory_signal(memories[s])
       /\ tr.pc = "answer" /\ FloorMeets => state >= tr.state
  /\ tr.pc = "answer" /\ tr.signal.modifier = 0 => state = 4
  /\ tr.pc = "ingest" => tr.state <= state /\ tr.result # "ConstitutionalBlock"
  /\ tr.pc = "forget" => s \notin DOMAIN memories
  /\ tr.pc = "unwatch" /\ tr.kind = "end" =>
       s \notin DOMAIN memories /\ s \notin DOMAIN session_states

\* What a call that is over, and that nothing has followed, was answered.
OverAt(tr) ==
  LET s == tr.session IN
  /\ tr.result # "ConstitutionalBlock"
  /\ tr.result # "none" /\ FloorMeets => tr.state <= current_state(s)
  /\ tr.kind = "inbound" /\ tr.result \in {"Approved", "Restricted"} =>
       /\ s \in DOMAIN memories
       /\ memory_floor(memories[s]) <= IF tr.result = "Approved" THEN 1 ELSE 2

\* An end or a reset of the session is under way.
BeingEnded(s) ==
  \E t \in Threads :
    turn[t].pc # "idle" /\ turn[t].kind \in {"end", "reset"} /\ turn[t].session = s

\* A locked memory has been reported to the Arbiter, and what was ended is gone.
Settled(s) ==
  /\ s \in DOMAIN memories /\ memories[s] = "Locked" =>
       s \in DOMAIN session_states \/ BeingEnded(s)
  /\ s \in ended =>
       s \notin DOMAIN session_states /\ s \notin DOMAIN memories /\ s \notin watched

InTurn ==
  /\ \A t \in Threads :
       turn[t].session \notin overlapped =>
         IF turn[t].pc = "idle" THEN OverAt(turn[t]) ELSE AloneAt(turn[t])
  /\ \A s \in Sessions : s \notin overlapped => Settled(s)

IInv == Shape /\ Accounted /\ OneBusy /\ InTurn

-----------------------------------------------------------------------------
(* Replacing fields of a turn.                                             *)

LEMMA SetPc ==
  \A tr \in Turn, v \in {"idle", "ingest"} \cup AtLayer \cup Between \cup Ending :
    LET a == [tr EXCEPT !.pc = v] IN
    /\ a \in Turn /\ a.pc = v /\ a.kind = tr.kind /\ a.session = tr.session /\ a.layer = tr.layer
    /\ a.modifier = tr.modifier /\ a.signal = tr.signal /\ a.state = tr.state
    /\ a.result = tr.result /\ a.peak = tr.peak /\ a.cut = tr.cut
  BY DEF Turn

LEMMA SetLayer ==
  \A tr \in Turn, v \in 0..5 :
    LET a == [tr EXCEPT !.layer = v] IN
    /\ a \in Turn /\ a.pc = tr.pc /\ a.kind = tr.kind /\ a.session = tr.session /\ a.layer = v
    /\ a.modifier = tr.modifier /\ a.signal = tr.signal /\ a.state = tr.state
    /\ a.result = tr.result /\ a.peak = tr.peak /\ a.cut = tr.cut
  BY DEF Turn

LEMMA SetModifier ==
  \A tr \in Turn, v \in 0..100 :
    LET a == [tr EXCEPT !.modifier = v] IN
    /\ a \in Turn /\ a.pc = tr.pc /\ a.kind = tr.kind /\ a.session = tr.session
    /\ a.layer = tr.layer /\ a.modifier = v /\ a.signal = tr.signal /\ a.state = tr.state
    /\ a.result = tr.result /\ a.peak = tr.peak /\ a.cut = tr.cut
  BY DEF Turn

LEMMA SetSignal ==
  \A tr \in Turn, v \in ModifiedSignal :
    LET a == [tr EXCEPT !.signal = v] IN
    /\ a \in Turn /\ a.pc = tr.pc /\ a.kind = tr.kind /\ a.session = tr.session
    /\ a.layer = tr.layer /\ a.modifier = tr.modifier /\ a.signal = v /\ a.state = tr.state
    /\ a.result = tr.result /\ a.peak = tr.peak /\ a.cut = tr.cut
  BY DEF Turn

LEMMA SetState ==
  \A tr \in Turn, v \in SecurityState :
    LET a == [tr EXCEPT !.state = v] IN
    /\ a \in Turn /\ a.pc = tr.pc /\ a.kind = tr.kind /\ a.session = tr.session
    /\ a.layer = tr.layer /\ a.modifier = tr.modifier /\ a.signal = tr.signal /\ a.state = v
    /\ a.result = tr.result /\ a.peak = tr.peak /\ a.cut = tr.cut
  BY DEF Turn

LEMMA SetResult ==
  \A tr \in Turn, v \in Results :
    LET a == [tr EXCEPT !.result = v] IN
    /\ a \in Turn /\ a.pc = tr.pc /\ a.kind = tr.kind /\ a.session = tr.session
    /\ a.layer = tr.layer /\ a.modifier = tr.modifier /\ a.signal = tr.signal
    /\ a.state = tr.state /\ a.result = v /\ a.peak = tr.peak /\ a.cut = tr.cut
  BY DEF Turn

LEMMA SetPeak ==
  \A tr \in Turn, v \in SecurityState :
    LET a == [tr EXCEPT !.peak = v] IN
    /\ a \in Turn /\ a.pc = tr.pc /\ a.kind = tr.kind /\ a.session = tr.session
    /\ a.layer = tr.layer /\ a.modifier = tr.modifier /\ a.signal = tr.signal
    /\ a.state = tr.state /\ a.result = tr.result /\ a.peak = v /\ a.cut = tr.cut
  BY DEF Turn

LEMMA SetCut ==
  \A tr \in Turn, v \in BOOLEAN :
    LET a == [tr EXCEPT !.cut = v] IN
    /\ a \in Turn /\ a.pc = tr.pc /\ a.kind = tr.kind /\ a.session = tr.session
    /\ a.layer = tr.layer /\ a.modifier = tr.modifier /\ a.signal = tr.signal
    /\ a.state = tr.state /\ a.result = tr.result /\ a.peak = tr.peak /\ a.cut = v
  BY DEF Turn

LEMMA QuietSignal == Quiet \in ModifiedSignal /\ is_clean(Quiet)
  BY DEF Quiet, ModifiedSignal, Severity, is_clean

\* The call is over.
LEMMA DoneFields ==
  ASSUME NEW tr \in Turn, NEW result \in Results
  PROVE  LET a == Done(tr, result) IN
         /\ a \in Turn /\ a.pc = "idle" /\ a.kind = tr.kind /\ a.session = tr.session
         /\ a.state = tr.state /\ a.result = result /\ a.peak = tr.peak /\ a.cut = tr.cut
<1>1. \A x, p, r, q : [x EXCEPT !.pc = p, !.result = r, !.signal = q]
                        = [[[x EXCEPT !.pc = p] EXCEPT !.result = r] EXCEPT !.signal = q]
  OBVIOUS
<1> DEFINE b == [tr EXCEPT !.pc = "idle"]
           c == [b EXCEPT !.result = result]
           d == [c EXCEPT !.signal = Quiet]
<1>2. Done(tr, result) = d
  BY <1>1 DEF Done
<1>3. /\ b \in Turn /\ b.pc = "idle" /\ b.kind = tr.kind /\ b.session = tr.session
      /\ b.state = tr.state /\ b.peak = tr.peak /\ b.cut = tr.cut
  BY SetPc
<1> HIDE DEF b
<1>4. /\ c \in Turn /\ c.pc = b.pc /\ c.kind = b.kind /\ c.session = b.session
      /\ c.state = b.state /\ c.peak = b.peak /\ c.cut = b.cut /\ c.result = result
  BY <1>3, SetResult
<1> HIDE DEF c
<1>5. /\ d \in Turn /\ d.pc = c.pc /\ d.kind = c.kind /\ d.session = c.session
      /\ d.state = c.state /\ d.peak = c.peak /\ d.cut = c.cut /\ d.result = c.result
  BY <1>4, SetSignal, QuietSignal
<1> HIDE DEF d
<1> QED BY <1>2, <1>3, <1>4, <1>5

LEMMA LayerNames ==
  ASSUME NEW kind
  PROVE  /\ kind # "outbound" =>
              /\ Len(Layers(kind)) = 5 /\ Layers(kind)[1] = "sentinel"
              /\ Layers(kind)[2] = "corridor" /\ Layers(kind)[3] = "overwatch"
              /\ Layers(kind)[4] = "oim" /\ Layers(kind)[5] = "memory"
         /\ kind = "outbound" =>
              /\ Len(Layers(kind)) = 4 /\ Layers(kind)[1] = "corridor"
              /\ Layers(kind)[2] = "overwatch" /\ Layers(kind)[3] = "oim"
              /\ Layers(kind)[4] = "sentinel"
  BY DEF Layers

\* A refusal ends an outbound turn, and an inbound one after the ingestion.
LEMMA RefusedFields ==
  ASSUME NEW tr \in Turn, NEW result \in Results
  PROVE  LET a == Refused(tr, result) IN
         /\ a \in Turn /\ a.kind = tr.kind /\ a.session = tr.session /\ a.layer \in 0..5
         /\ a.state = tr.state /\ a.result = result /\ a.peak = tr.peak /\ a.cut = tr.cut
         /\ a.pc = IF Inbound(tr) THEN "ingest" ELSE "idle"
<1>1. \A x, p, r, q : [x EXCEPT !.pc = p, !.result = r, !.signal = q]
                        = [[[x EXCEPT !.pc = p] EXCEPT !.result = r] EXCEPT !.signal = q]
  OBVIOUS
<1>2. CASE Inbound(tr)
  <2> DEFINE b == [tr EXCEPT !.pc = "ingest"]
             c == [b EXCEPT !.result = result]
             d == [c EXCEPT !.signal = Quiet]
  <2>2. Refused(tr, result) = d
    BY <1>1, <1>2 DEF Refused
  <2>3. /\ b \in Turn /\ b.pc = "ingest" /\ b.kind = tr.kind /\ b.session = tr.session
        /\ b.state = tr.state /\ b.peak = tr.peak /\ b.cut = tr.cut
    BY SetPc
  <2> HIDE DEF b
  <2>4. /\ c \in Turn /\ c.pc = b.pc /\ c.kind = b.kind /\ c.session = b.session
        /\ c.state = b.state /\ c.peak = b.peak /\ c.cut = b.cut /\ c.result = result
    BY <2>3, SetResult
  <2> HIDE DEF c
  <2>5. /\ d \in Turn /\ d.pc = c.pc /\ d.kind = c.kind /\ d.session = c.session
        /\ d.state = c.state /\ d.peak = c.peak /\ d.cut = c.cut /\ d.result = c.result
    BY <2>4, SetSignal, QuietSignal
  <2>6. d.layer \in 0..5
    BY <2>5 DEF Turn
  <2> HIDE DEF d
  <2> QED BY <1>2, <2>2, <2>3, <2>4, <2>5, <2>6
<1>3. CASE ~Inbound(tr)
  <2>1. Refused(tr, result) = Done(tr, result)
    BY <1>3 DEF Refused
  <2>2. Done(tr, result) \in Turn
    BY DoneFields
  <2>3. Done(tr, result).layer \in 0..5
    BY <2>2 DEF Turn
  <2> QED BY <1>3, <2>1, <2>3, DoneFields
<1> QED BY <1>2, <1>3

\* Where a turn goes from a layer that lets it pass.
NextPc(tr) ==
  CASE tr.kind = "inbound" /\ tr.layer = 2 -> "watch"
    [] tr.kind = "inbound" /\ tr.layer = 3 -> "drs"
    [] tr.kind = "outbound" /\ tr.layer = 1 -> "watch"
    [] OTHER -> "inspect"

LEMMA OnwardFields ==
  ASSUME NEW tr \in Turn, tr.kind \in {"inbound", "outbound"}, tr.layer \in 1..3
  PROVE  LET a == Onward(tr) IN
         /\ a \in Turn /\ a.kind = tr.kind /\ a.session = tr.session /\ a.layer = tr.layer + 1
         /\ a.modifier = tr.modifier
         /\ a.state = tr.state /\ a.result = tr.result /\ a.peak = tr.peak /\ a.cut = tr.cut
         /\ a.pc = NextPc(tr)
<1> DEFINE next == IF tr.layer < Len(Layers(tr.kind)) THEN Layers(tr.kind)[tr.layer + 1] ELSE "none"
           pc == NextPc(tr)
           n == tr.layer + 1
<1>1. n \in 0..5
  OBVIOUS
<1>2. next = Layers(tr.kind)[n]
  BY LayerNames
<1>3. (CASE next = "overwatch" -> "watch"
         [] Inbound(tr) /\ next = "oim" -> "drs"
         [] OTHER -> "inspect") = pc
  <2>1. CASE tr.kind = "outbound" /\ tr.layer = 1
    BY <1>2, <2>1, LayerNames DEF Inbound, NextPc
  <2>2. CASE tr.kind = "outbound" /\ tr.layer = 2
    BY <1>2, <2>2, LayerNames DEF Inbound, NextPc
  <2>3. CASE tr.kind = "outbound" /\ tr.layer = 3
    BY <1>2, <2>3, LayerNames DEF Inbound, NextPc
  <2>4. CASE tr.kind = "inbound" /\ tr.layer = 1
    BY <1>2, <2>4, LayerNames DEF Inbound, NextPc
  <2>5. CASE tr.kind = "inbound" /\ tr.layer = 2
    BY <1>2, <2>5, LayerNames DEF Inbound, NextPc
  <2>6. CASE tr.kind = "inbound" /\ tr.layer = 3
    BY <1>2, <2>6, LayerNames DEF Inbound, NextPc
  <2> QED BY <2>1, <2>2, <2>3, <2>4, <2>5, <2>6
<1>4. \A x, l, q, p : [x EXCEPT !.layer = l, !.signal = q, !.pc = p]
                        = [[[x EXCEPT !.layer = l] EXCEPT !.signal = q] EXCEPT !.pc = p]
  OBVIOUS
<1> HIDE DEF next
<1> DEFINE b == [tr EXCEPT !.layer = n]
           c == [b EXCEPT !.signal = Quiet]
           d == [c EXCEPT !.pc = pc]
<1>5. Onward(tr) = d
  <2>1. Onward(tr) = [tr EXCEPT !.layer = n, !.signal = Quiet,
                                !.pc = CASE next = "overwatch" -> "watch"
                                         [] Inbound(tr) /\ next = "oim" -> "drs"
                                         [] OTHER -> "inspect"]
    BY DEF Onward, next
  <2>2. Onward(tr) = [tr EXCEPT !.layer = n, !.signal = Quiet, !.pc = pc]
    BY <1>3, <2>1
  <2> QED BY <1>4, <2>2
<1>6. pc \in {"watch", "drs", "inspect"}
  BY DEF NextPc
<1> HIDE DEF pc, n
<1>7. /\ b \in Turn /\ b.kind = tr.kind /\ b.session = tr.session /\ b.layer = n
      /\ b.modifier = tr.modifier /\ b.state = tr.state /\ b.result = tr.result
      /\ b.peak = tr.peak /\ b.cut = tr.cut
  BY <1>1, SetLayer
<1> HIDE DEF b
<1>8. /\ c \in Turn /\ c.kind = b.kind /\ c.session = b.session /\ c.layer = b.layer
      /\ c.modifier = b.modifier /\ c.state = b.state /\ c.result = b.result
      /\ c.peak = b.peak /\ c.cut = b.cut
  BY <1>7, SetSignal, QuietSignal
<1> HIDE DEF c
<1>9. /\ d \in Turn /\ d.kind = c.kind /\ d.session = c.session /\ d.layer = c.layer
      /\ d.modifier = c.modifier /\ d.state = c.state /\ d.result = c.result
      /\ d.peak = c.peak /\ d.cut = c.cut /\ d.pc = pc
  BY <1>6, <1>8, SetPc DEF AtLayer, Between
<1> HIDE DEF d
<1> QED BY <1>5, <1>7, <1>8, <1>9 DEF pc, n

LEMMA EnforcementResult ==
  /\ \A state \in SecurityState : enforcement_result(state) \in Results \ {"none"}
  /\ enforcement_result(1) = "Approved" /\ enforcement_result(2) = "Restricted"
  /\ enforcement_result(3) = "Quarantined" /\ enforcement_result(4) = "HardLocked"
  BY DEF enforcement_result, SecurityState, Results, Refusal

\* Where the answer to its signal takes a turn.
Outcome(a, tr, state) ==
  /\ a \in Turn /\ a.kind = tr.kind /\ a.session = tr.session
  /\ a.peak = tr.peak /\ a.cut = tr.cut
  /\ \/ /\ tr.kind = "inbound" /\ tr.layer = 5
        /\ a.pc = "idle" /\ a.state = tr.state /\ a.result = enforcement_result(tr.state)
     \/ /\ tr.kind = "inbound" /\ tr.layer = 4
        /\ a.pc = "ingest" /\ a.state = state /\ a.result = tr.result /\ a.layer = 4
     \/ /\ tr.kind = "outbound" /\ (tr.layer = 4 \/ state \in {3, 4})
        /\ a.pc = "idle" /\ a.state = state /\ a.result = enforcement_result(state)
     \/ /\ tr.kind = "inbound" /\ tr.layer \in 1..3 /\ state \in {3, 4}
        /\ a.pc = "ingest" /\ a.state = state /\ a.result = enforcement_result(state)
     \/ /\ tr.layer \in 1..3 /\ state \notin {3, 4}
        /\ a.layer = tr.layer + 1 /\ a.state = tr.state /\ a.result = tr.result
        /\ a.modifier = tr.modifier
        /\ a.pc = NextPc(tr)

LEMMA AnsweredOutcome ==
  ASSUME NEW tr \in Turn, tr.kind \in {"inbound", "outbound"}, tr.layer \in 1..5,
         tr.kind = "outbound" => tr.layer # 5, NEW state \in SecurityState
  PROVE  Outcome(Answered(tr, state), tr, state)
<1> DEFINE layer == Layers(tr.kind)[tr.layer]
           b == [tr EXCEPT !.state = state]
<1>1. /\ b \in Turn /\ b.pc = tr.pc /\ b.kind = tr.kind /\ b.session = tr.session
      /\ b.layer = tr.layer /\ b.state = state /\ b.result = tr.result
      /\ b.peak = tr.peak /\ b.cut = tr.cut
  BY SetState
<1>2. enforcement_result(state) \in Results /\ enforcement_result(tr.state) \in Results
  BY EnforcementResult DEF Turn
<1>3. CASE tr.kind = "inbound" /\ tr.layer = 5
  <2>1. layer = "memory"
    BY <1>3, LayerNames
  <2>2. Answered(tr, state) = Done(tr, enforcement_result(tr.state))
    BY <2>1 DEF Answered
  <2> QED BY <1>2, <1>3, <2>2, DoneFields DEF Outcome
<1>4. CASE tr.kind = "inbound" /\ tr.layer = 4
  <2>1. layer = "oim" /\ Inbound(tr)
    BY <1>4, LayerNames DEF Inbound
  <2>2. Answered(tr, state) = [tr EXCEPT !.pc = "ingest", !.state = state, !.signal = Quiet]
    BY <2>1 DEF Answered
  <2>3. \A x, p, r, q : [x EXCEPT !.pc = p, !.state = r, !.signal = q]
                          = [[[x EXCEPT !.pc = p] EXCEPT !.state = r] EXCEPT !.signal = q]
    OBVIOUS
  <2> DEFINE p == [tr EXCEPT !.pc = "ingest"]
             c == [p EXCEPT !.state = state]
             d == [c EXCEPT !.signal = Quiet]
  <2>4. Answered(tr, state) = d
    BY <2>2, <2>3
  <2>5. /\ p \in Turn /\ p.pc = "ingest" /\ p.kind = tr.kind /\ p.session = tr.session
        /\ p.layer = tr.layer /\ p.result = tr.result /\ p.peak = tr.peak /\ p.cut = tr.cut
    BY SetPc
  <2> HIDE DEF p
  <2>6. /\ c \in Turn /\ c.pc = p.pc /\ c.kind = p.kind /\ c.session = p.session
        /\ c.layer = p.layer /\ c.result = p.result /\ c.peak = p.peak /\ c.cut = p.cut
        /\ c.state = state
    BY <2>5, SetState
  <2> HIDE DEF c
  <2>7. /\ d \in Turn /\ d.pc = c.pc /\ d.kind = c.kind /\ d.session = c.session
        /\ d.layer = c.layer /\ d.result = c.result /\ d.peak = c.peak /\ d.cut = c.cut
        /\ d.state = c.state
    BY <2>6, SetSignal, QuietSignal
  <2> HIDE DEF d
  <2> QED BY <1>4, <2>4, <2>5, <2>6, <2>7 DEF Outcome
<1>5. CASE tr.kind = "outbound" /\ tr.layer = 4
  <2>1. layer = "sentinel" /\ ~Inbound(tr)
    BY <1>5, LayerNames DEF Inbound
  <2>2. Answered(tr, state) = Done(b, enforcement_result(state))
    BY <2>1 DEF Answered
  <2> HIDE DEF b
  <2> QED BY <1>1, <1>2, <1>5, <2>2, DoneFields DEF Outcome
<1>6. CASE tr.layer \in 1..3
  <2>1. /\ layer # "memory" /\ ~(layer = "oim" /\ Inbound(tr))
        /\ ~(layer = "sentinel" /\ ~Inbound(tr))
    <3>1. CASE tr.kind = "inbound" /\ tr.layer = 1
      BY <3>1, LayerNames DEF Inbound
    <3>2. CASE tr.kind = "inbound" /\ tr.layer = 2
      BY <3>2, LayerNames DEF Inbound
    <3>3. CASE tr.kind = "inbound" /\ tr.layer = 3
      BY <3>3, LayerNames DEF Inbound
    <3>4. CASE tr.kind = "outbound" /\ tr.layer = 1
      BY <3>4, LayerNames DEF Inbound
    <3>5. CASE tr.kind = "outbound" /\ tr.layer = 2
      BY <3>5, LayerNames DEF Inbound
    <3>6. CASE tr.kind = "outbound" /\ tr.layer = 3
      BY <3>6, LayerNames DEF Inbound
    <3> QED BY <1>6, <3>1, <3>2, <3>3, <3>4, <3>5, <3>6
  <2>2. Answered(tr, state) = IF check_hard_block(state)
                              THEN Refused(b, enforcement_result(state)) ELSE Onward(tr)
    BY <2>1 DEF Answered
  <2>3. CASE state \in {3, 4}
    <3>1. Answered(tr, state) = Refused(b, enforcement_result(state))
      BY <2>2, <2>3 DEF check_hard_block
    <3>2. Inbound(b) <=> tr.kind = "inbound"
      BY <1>1 DEF Inbound
    <3> HIDE DEF b
    <3> QED BY <1>1, <1>2, <1>6, <2>3, <3>1, <3>2, RefusedFields DEF Outcome
  <2>4. CASE state \notin {3, 4}
    <3>1. Answered(tr, state) = Onward(tr)
      BY <2>2, <2>4 DEF check_hard_block
    <3> QED BY <1>6, <2>4, <3>1, OnwardFields DEF Outcome
  <2> QED BY <2>3, <2>4
<1> QED BY <1>3, <1>4, <1>5, <1>6

-----------------------------------------------------------------------------
(* What a step does.                                                       *)

LEMMA IdleTurn ==
  /\ Idle \in Turn /\ Idle.pc = "idle" /\ Idle.kind = "none" /\ Idle.session = "none"
  /\ Idle.layer = 0 /\ Idle.modifier = 100 /\ Idle.signal = Quiet /\ Idle.state = 1
  /\ Idle.result = "none" /\ Idle.peak = 1 /\ Idle.cut = FALSE
  BY QuietSignal DEF Idle, Turn, Results, SecurityState

LEMMA Moved ==
  ASSUME Shape, NEW t \in Threads, NEW a \in Turn, turn' = [turn EXCEPT ![t] = a]
  PROVE  /\ turn'[t] = a /\ \A u \in Threads : u # t => turn'[u] = turn[u]
         /\ turn' \in [Threads -> Turn]
  BY DEF Shape

LEMMA StateType ==
  ASSUME Shape, NEW s
  PROVE  current_state(s) \in SecurityState
  BY DEF Shape, current_state, SecurityState

LEMMA WarrantedType ==
  ASSUME NEW sig
  PROVE  Warranted(sig) \in SecurityState
  BY DEF Warranted, SecurityState

LEMMA ModifierType ==
  \A m \in MemoryState : /\ threshold_modifier(m) \in 0..100
                         /\ threshold_modifier(m) = 0 <=> m = "Locked"
                         /\ m = "Locked" => 100 - threshold_modifier(m) > 99
  BY DEF MemoryState, threshold_modifier

\* The record with which a call begins.
Fresh(a, pc, kind, s, layer) ==
  /\ a \in Turn /\ a.pc = pc /\ a.kind = kind /\ a.session = s /\ a.layer = layer
  /\ a.signal = Quiet /\ a.state = 1 /\ a.result = "none" /\ a.peak = 1 /\ a.cut = FALSE

\* A call begins at a thread that was idle; what is left of others is forgotten.
Begun(t, s) ==
  /\ turn[t].pc = "idle"
  /\ \A u \in Threads : u # t => turn'[u] = IF turn[u].pc = "idle" THEN Idle ELSE turn[u]
  /\ turn' \in [Threads -> Turn]
  /\ s \notin overlapped' => \A u \in Threads : turn[u].pc = "idle" \/ turn[u].session # s
  /\ \A q : q # s => (q \in overlapped' <=> q \in overlapped)
  /\ turn'[t].kind \in {"inbound", "outbound"} /\ s \notin overlapped' => s \notin overlapped
  /\ calls' \in 0..MaxCalls /\ overlapped' \subseteq Sessions
  /\ ended' = ended \ {s} /\ UNCHANGED <<session_states, memories, watched>>

LEMMA BeginEffect ==
  ASSUME Shape, NEW t \in Threads, NEW kind \in {"inbound", "outbound", "end", "reset"},
         NEW s \in Sessions, NEW first, NEW pc, NEW layer,
         Fresh(first, pc, "none", "none", layer), Begin(t, kind, s, first)
  PROVE  /\ Begun(t, s) /\ Fresh(turn'[t], pc, kind, s, layer)
         /\ turn'[t].modifier = first.modifier
<1> DEFINE b == [first EXCEPT !.kind = kind]
           c == [b EXCEPT !.session = s]
<1>1. \A x, k, q : [x EXCEPT !.kind = k, !.session = q]
                     = [[x EXCEPT !.kind = k] EXCEPT !.session = q]
  OBVIOUS
<1>2. turn' = [u \in Threads |-> CASE u = t -> c [] u # t /\ turn[u].pc = "idle" -> Idle
                                   [] OTHER -> turn[u]]
  BY <1>1 DEF Begin
<1>3. /\ b \in Turn /\ b.pc = pc /\ b.layer = layer /\ b.signal = Quiet /\ b.state = 1
      /\ b.result = "none" /\ b.peak = 1 /\ b.cut = FALSE /\ b.kind = kind
      /\ b.modifier = first.modifier
  BY DEF Fresh, Turn
<1> HIDE DEF b
<1>4. /\ c \in Turn /\ c.pc = b.pc /\ c.layer = b.layer /\ c.signal = b.signal
      /\ c.state = b.state /\ c.result = b.result /\ c.peak = b.peak /\ c.cut = b.cut
      /\ c.kind = b.kind /\ c.modifier = b.modifier /\ c.session = s
  BY <1>3 DEF Turn
<1> HIDE DEF c
<1>5. Fresh(c, pc, kind, s, layer) /\ c.modifier = first.modifier
  BY <1>3, <1>4 DEF Fresh
<1>6. turn'[t] = c /\ \A u \in Threads : u # t =>
        turn'[u] = IF turn[u].pc = "idle" THEN Idle ELSE turn[u]
  BY <1>2
<1>7. turn' \in [Threads -> Turn]
  BY <1>2, <1>4, IdleTurn DEF Shape
<1>8. calls' \in 0..MaxCalls /\ overlapped' \subseteq Sessions
  <2>1. calls' = calls + 1 /\ (calls < MaxOverlapping \/ calls < MaxCalls)
    BY DEF Begin
  <2>2. overlapped' \subseteq overlapped \cup {s}
    BY DEF Begin
  <2> QED BY <2>1, <2>2, CallsAssumption DEF Shape
<1>9. turn[t].pc = "idle" /\ ended' = ended \ {s} /\ UNCHANGED <<session_states, memories, watched>>
  BY DEF Begin
<1>10. /\ s \notin overlapped' => \A u \in Threads : turn[u].pc = "idle" \/ turn[u].session # s
       /\ \A q : q # s => (q \in overlapped' <=> q \in overlapped)
       /\ kind \in {"inbound", "outbound"} /\ s \notin overlapped' => s \notin overlapped
  BY <1>9 DEF Begin, Alone
<1>11. turn'[t].kind = kind
  BY <1>5, <1>6 DEF Fresh
<1> QED BY <1>5, <1>6, <1>7, <1>8, <1>9, <1>10, <1>11 DEF Begun

LEMMA BeginTurnEffect ==
  ASSUME Shape, NEW t \in Threads, NEW kind, NEW s \in Sessions, BeginTurn(t, kind, s)
  PROVE  /\ Begun(t, s) /\ kind \in {"inbound", "outbound"}
         /\ \/ /\ Fresh(turn'[t], "inspect", kind, s, 1)
               /\ s \in DOMAIN memories /\ turn'[t].modifier = threshold_modifier(memories[s])
            \/ /\ Fresh(turn'[t], "inspect", kind, s, 1)
               /\ kind = "outbound" /\ turn'[t].modifier = 100
            \/ /\ Fresh(turn'[t], "advise", kind, s, 1) /\ kind = "inbound"
<1>0. kind \in {"inbound", "outbound"}
  BY DEF BeginTurn
<1>1. CASE s \in DOMAIN memories
  <2> DEFINE m == threshold_modifier(memories[s])
             b == [Idle EXCEPT !.pc = "inspect"]
             c == [b EXCEPT !.layer = 1]
             d == [c EXCEPT !.modifier = m]
  <2>1. \A x, p, l, n : [x EXCEPT !.pc = p, !.layer = l, !.modifier = n]
                          = [[[x EXCEPT !.pc = p] EXCEPT !.layer = l] EXCEPT !.modifier = n]
    OBVIOUS
  <2>2. m \in 0..100
    BY <1>1, ModifierType DEF Shape
  <2>3. Begin(t, kind, s, d)
    BY <1>1, <2>1 DEF BeginTurn
  <2> HIDE DEF m
  <2>4. Fresh(b, "inspect", "none", "none", 0)
    BY IdleTurn, SetPc DEF Fresh, AtLayer
  <2> HIDE DEF b
  <2>5. Fresh(c, "inspect", "none", "none", 1)
    <3>1. b \in Turn /\ 1 \in 0..5
      BY <2>4 DEF Fresh
    <3>2. /\ c \in Turn /\ c.pc = b.pc /\ c.kind = b.kind /\ c.session = b.session /\ c.layer = 1
          /\ c.modifier = b.modifier /\ c.signal = b.signal /\ c.state = b.state
          /\ c.result = b.result /\ c.peak = b.peak /\ c.cut = b.cut
      BY <3>1, SetLayer
    <3> HIDE DEF c
    <3> QED BY <2>4, <3>2 DEF Fresh
  <2> HIDE DEF c
  <2>6. Fresh(d, "inspect", "none", "none", 1) /\ d.modifier = m
    BY <2>2, <2>5, SetModifier DEF Fresh
  <2> HIDE DEF d
  <2>7. /\ Begun(t, s) /\ Fresh(turn'[t], "inspect", kind, s, 1)
        /\ turn'[t].modifier = d.modifier
    BY <1>0, <2>3, <2>6, BeginEffect
  <2> QED BY <1>0, <1>1, <2>6, <2>7 DEF m
<1>2. CASE s \notin DOMAIN memories
  <2> DEFINE pc == IF kind = "outbound" THEN "inspect" ELSE "advise"
             b == [Idle EXCEPT !.pc = pc]
             c == [b EXCEPT !.layer = 1]
  <2>1. \A x, p, l : [x EXCEPT !.pc = p, !.layer = l] = [[x EXCEPT !.pc = p] EXCEPT !.layer = l]
    OBVIOUS
  <2>2. Begin(t, kind, s, c)
    BY <1>2, <2>1 DEF BeginTurn
  <2>3. pc \in {"inspect", "advise"}
    OBVIOUS
  <2> HIDE DEF pc
  <2>4. Fresh(b, pc, "none", "none", 0) /\ b.modifier = 100
    BY <2>3, IdleTurn, SetPc DEF Fresh, AtLayer, Between
  <2> HIDE DEF b
  <2>5. Fresh(c, pc, "none", "none", 1) /\ c.modifier = 100
    <3>1. b \in Turn /\ 1 \in 0..5
      BY <2>4 DEF Fresh
    <3>2. /\ c \in Turn /\ c.pc = b.pc /\ c.kind = b.kind /\ c.session = b.session /\ c.layer = 1
          /\ c.modifier = b.modifier /\ c.signal = b.signal /\ c.state = b.state
          /\ c.result = b.result /\ c.peak = b.peak /\ c.cut = b.cut
      BY <3>1, SetLayer
    <3> HIDE DEF c
    <3> QED BY <2>4, <3>2 DEF Fresh
  <2> HIDE DEF c
  <2>6. Begun(t, s) /\ Fresh(turn'[t], pc, kind, s, 1) /\ turn'[t].modifier = 100
    BY <1>0, <2>2, <2>5, BeginEffect
  <2> QED BY <1>0, <2>6 DEF pc
<1> QED BY <1>1, <1>2

LEMMA BeginOtherEffect ==
  ASSUME Shape, NEW t \in Threads, NEW s \in Sessions, BeginEnd(t, s) \/ BeginReset(t, s)
  PROVE  Begun(t, s) /\ \/ Fresh(turn'[t], "remove", "end", s, 0)
                        \/ Fresh(turn'[t], "clear", "reset", s, 0)
<1>1. ASSUME NEW pc \in Ending, NEW kind \in {"end", "reset"},
             Begin(t, kind, s, [Idle EXCEPT !.pc = pc])
      PROVE  Begun(t, s) /\ Fresh(turn'[t], pc, kind, s, 0)
  <2> DEFINE b == [Idle EXCEPT !.pc = pc]
  <2>1. Fresh(b, pc, "none", "none", 0)
    BY IdleTurn, SetPc DEF Fresh
  <2> HIDE DEF b
  <2>2. Begin(t, kind, s, b)
    BY <1>1 DEF b
  <2> QED BY <2>1, <2>2, BeginEffect
<1> QED BY <1>1 DEF BeginEnd, BeginReset, Ending

\* Only the thread moves.
Alone1(t) ==
  /\ \A u \in Threads : u # t => turn'[u] = turn[u]
  /\ turn' \in [Threads -> Turn]

\* What a step that is not the last of a call leaves of its turn.
Keeps(a, tr) ==
  a \in Turn /\ a.kind = tr.kind /\ a.session = tr.session /\ a.cut = tr.cut

LEMMA TurnType ==
  ASSUME Shape, NEW t \in Threads
  PROVE  turn[t] \in Turn /\ Placed(turn[t]) /\ turn[t].session \in Sessions \cup {"none"}
  BY DEF Shape, Turn

LEMMA InitEffect ==
  ASSUME Shape, NEW t \in Threads, InitSessionMemory(t)
  PROVE  LET tr == turn[t]
             a == turn'[t] IN
         /\ tr.pc = "advise" /\ Alone1(t) /\ Keeps(a, tr) /\ a.pc = "inspect" /\ a.layer = tr.layer
         /\ a.modifier # 0 /\ a.signal = tr.signal /\ a.state = tr.state /\ a.result = tr.result
         /\ a.peak = tr.peak
         /\ DOMAIN memories' = DOMAIN memories \cup {tr.session}
         /\ memories' \in [DOMAIN memories' -> MemoryState]
         /\ \A s \in DOMAIN memories : memories'[s] = memories[s]
         /\ \A s \in DOMAIN memories' : s \notin DOMAIN memories => memories'[s] # "Locked"
         /\ UNCHANGED <<session_states, watched, calls, ended, overlapped>>
<1> DEFINE tr == turn[t]
<1>1. PICK advice \in advise_session_start :
        /\ memories' = IF tr.session \in DOMAIN memories THEN memories
                       ELSE With(memories, tr.session, advice.initial_state)
        /\ turn' = [turn EXCEPT ![t] = [tr EXCEPT !.pc = "inspect",
                                                  !.modifier = advice.threshold_modifier]]
  BY DEF InitSessionMemory
<1>2. PICK m \in Advised : advice = [initial_state |-> m, threshold_modifier |-> advised_modifier(m)]
  BY DEF advise_session_start
<1> DEFINE n == advised_modifier(m)
<1>3. m \in MemoryState \ {"Locked"} /\ n \in 0..100 /\ n # 0
  BY AdvisedAssumption DEF advised_modifier, MemoryState
<1> HIDE DEF n
<1>4. advice.initial_state = m /\ advice.threshold_modifier = n
  BY <1>2 DEF n
<1> DEFINE b == [tr EXCEPT !.pc = "inspect"]
           c == [b EXCEPT !.modifier = n]
<1>5. turn' = [turn EXCEPT ![t] = c]
  <2>1. \A x, p, v : [x EXCEPT !.pc = p, !.modifier = v] = [[x EXCEPT !.pc = p] EXCEPT !.modifier = v]
    OBVIOUS
  <2> QED BY <1>1, <1>4, <2>1
<1>6. tr \in Turn
  BY TurnType
<1>7. /\ b \in Turn /\ b.pc = "inspect" /\ b.kind = tr.kind /\ b.session = tr.session
      /\ b.layer = tr.layer /\ b.signal = tr.signal /\ b.state = tr.state
      /\ b.result = tr.result /\ b.peak = tr.peak /\ b.cut = tr.cut
  <2> HIDE DEF tr
  <2> QED BY <1>6, SetPc DEF AtLayer
<1> HIDE DEF b
<1>8. /\ c \in Turn /\ c.pc = b.pc /\ c.kind = b.kind /\ c.session = b.session /\ c.modifier = n
      /\ c.layer = b.layer /\ c.signal = b.signal /\ c.state = b.state
      /\ c.result = b.result /\ c.peak = b.peak /\ c.cut = b.cut
  BY <1>3, <1>7, SetModifier
<1> HIDE DEF c
<1>9. turn'[t] = c /\ Alone1(t)
  BY <1>5, <1>8, Moved DEF Alone1
<1>10. /\ DOMAIN memories' = DOMAIN memories \cup {tr.session}
       /\ memories' \in [DOMAIN memories' -> MemoryState]
       /\ \A s \in DOMAIN memories : memories'[s] = memories[s]
       /\ \A s \in DOMAIN memories' : s \notin DOMAIN memories => memories'[s] # "Locked"
  <2>1. CASE tr.session \in DOMAIN memories
    BY <1>1, <2>1 DEF Shape
  <2>2. CASE tr.session \notin DOMAIN memories
    BY <1>1, <1>3, <1>4, <2>2 DEF Shape, With
  <2> QED BY <2>1, <2>2
<1> QED BY <1>3, <1>7, <1>8, <1>9, <1>10 DEF InitSessionMemory, Keeps

\* The entry of the session is there, in the state it was in.
LEMMA OpenedEffect ==
  ASSUME Shape, NEW s \in Sessions, session_states' = Opened(s)
  PROVE  /\ DOMAIN session_states' = DOMAIN session_states \cup {s}
         /\ session_states' \in [DOMAIN session_states' -> SecurityState]
         /\ \A q : current_state(q)' = current_state(q)
<1>1. current_state(s) \in SecurityState
  BY StateType
<1>2. session_states' = [q \in DOMAIN session_states \cup {s} |->
                           IF q = s THEN current_state(s) ELSE session_states[q]]
  BY DEF Opened, With
<1>3. DOMAIN session_states' = DOMAIN session_states \cup {s}
  BY <1>2
<1>4. \A q : current_state(q)' = current_state(q)
  BY <1>2 DEF current_state
<1> QED BY <1>1, <1>2, <1>3, <1>4 DEF Shape

LEMMA InspectEffect ==
  ASSUME Shape, NEW t \in Threads, Inspect(t)
  PROVE  LET tr == turn[t]
             a == turn'[t] IN
         /\ tr.pc = "inspect" /\ tr.session \in Sessions
         /\ Alone1(t) /\ Keeps(a, tr) /\ a.pc = "decide" /\ a.layer = tr.layer
         /\ a.modifier = tr.modifier /\ a.state = tr.state /\ a.result = tr.result
         /\ a.peak = IF is_clean(a.signal) THEN tr.peak ELSE Larger(tr.peak, Warranted(a.signal))
         /\ IF tr.kind = "inbound" /\ tr.layer = 5 THEN a.signal = tr.signal
            ELSE a.signal.modifier = tr.modifier
         /\ session_states' \in [DOMAIN session_states' -> SecurityState]
         /\ DOMAIN session_states' =
              IF a.signal.modifier = 0 THEN DOMAIN session_states
              ELSE DOMAIN session_states \cup {tr.session}
         /\ \A q : current_state(q)' = current_state(q)
         /\ UNCHANGED <<memories, watched, calls, ended, overlapped>>
<1> DEFINE tr == turn[t]
<1>1. tr \in Turn /\ Placed(tr) /\ tr.pc = "inspect"
  BY TurnType DEF Inspect
<1>2. /\ tr.session \in Sessions /\ tr.kind \in {"inbound", "outbound"} /\ tr.layer \in 1..5
      /\ tr.kind = "outbound" => tr.layer # 5
  BY <1>1 DEF Placed, AtLayer
<1>3. PICK sig \in Reported(tr) :
        /\ turn' = [turn EXCEPT ![t] =
                     [tr EXCEPT !.pc = "decide", !.signal = sig,
                        !.peak = IF is_clean(sig) THEN tr.peak ELSE Larger(tr.peak, Warranted(sig))]]
        /\ session_states' = IF sig.modifier = 0 THEN session_states ELSE Opened(tr.session)
  BY DEF Inspect
<1>4. /\ sig \in ModifiedSignal
      /\ IF tr.kind = "inbound" /\ tr.layer = 5 THEN sig = tr.signal
         ELSE sig.modifier = tr.modifier
  <2>1. Layers(tr.kind)[tr.layer] = "memory" <=> tr.kind = "inbound" /\ tr.layer = 5
    <3> DEFINE k == tr.kind
               l == tr.layer
    <3>1. k \in {"inbound", "outbound"} /\ l \in 1..5 /\ (k = "outbound" => l # 5)
      BY <1>2
    <3> HIDE DEF k, l
    <3>2. Layers(k)[l] = "memory" <=> k = "inbound" /\ l = 5
      BY <3>1, LayerNames
    <3> QED BY <3>2 DEF k, l
  <2>2. tr.signal \in ModifiedSignal /\ tr.modifier \in 0..100
    BY <1>1 DEF Turn
  <2>3. CASE tr.kind = "inbound" /\ tr.layer = 5
    BY <1>3, <2>1, <2>2, <2>3 DEF Reported
  <2>4. CASE ~(tr.kind = "inbound" /\ tr.layer = 5)
    <3> DEFINE m == tr.modifier
    <3>1. PICK g \in Signals : sig = [severity |-> g.severity, confidence |-> g.confidence,
                                      modifier |-> m]
      BY <1>3, <2>1, <2>4 DEF Reported
    <3>2. m \in 0..100
      BY <2>2
    <3> HIDE DEF m
    <3>3. g \in GovernanceSignal
      BY SignalsAssumption
    <3>4. sig \in ModifiedSignal /\ sig.modifier = m
      BY <3>1, <3>2, <3>3 DEF GovernanceSignal, ModifiedSignal
    <3> QED BY <2>4, <3>4 DEF m
  <2> QED BY <2>3, <2>4
<1> DEFINE p == IF is_clean(sig) THEN tr.peak ELSE Larger(tr.peak, Warranted(sig))
           b == [tr EXCEPT !.pc = "decide"]
           c == [b EXCEPT !.signal = sig]
           d == [c EXCEPT !.peak = p]
<1>5. turn' = [turn EXCEPT ![t] = d]
  <2>1. \A x, v, w, y : [x EXCEPT !.pc = v, !.signal = w, !.peak = y]
                          = [[[x EXCEPT !.pc = v] EXCEPT !.signal = w] EXCEPT !.peak = y]
    OBVIOUS
  <2> QED BY <1>3, <2>1
<1>6. p \in SecurityState
  BY <1>1, WarrantedType DEF Turn, Larger
<1>7. /\ b \in Turn /\ b.pc = "decide" /\ b.kind = tr.kind /\ b.session = tr.session
      /\ b.layer = tr.layer /\ b.modifier = tr.modifier /\ b.state = tr.state
      /\ b.result = tr.result /\ b.cut = tr.cut
  <2> HIDE DEF tr
  <2> QED BY <1>1, SetPc DEF AtLayer
<1> HIDE DEF b
<1>8. /\ c \in Turn /\ c.pc = b.pc /\ c.kind = b.kind /\ c.session = b.session
      /\ c.layer = b.layer /\ c.modifier = b.modifier /\ c.state = b.state
      /\ c.result = b.result /\ c.cut = b.cut /\ c.signal = sig
  BY <1>4, <1>7, SetSignal
<1> HIDE DEF c, p
<1>9. /\ d \in Turn /\ d.pc = c.pc /\ d.kind = c.kind /\ d.session = c.session
      /\ d.layer = c.layer /\ d.modifier = c.modifier /\ d.state = c.state
      /\ d.result = c.result /\ d.cut = c.cut /\ d.signal = c.signal /\ d.peak = p
  BY <1>6, <1>8, SetPeak
<1> HIDE DEF d
<1>10. turn'[t] = d /\ Alone1(t)
  BY <1>5, <1>9, Moved DEF Alone1
<1>11. /\ session_states' \in [DOMAIN session_states' -> SecurityState]
       /\ DOMAIN session_states' = IF sig.modifier = 0 THEN DOMAIN session_states
                                   ELSE DOMAIN session_states \cup {tr.session}
       /\ \A q : current_state(q)' = current_state(q)
  <2>1. CASE sig.modifier = 0
    BY <1>3, <2>1 DEF Shape, current_state
  <2>2. CASE sig.modifier # 0
    BY <1>2, <1>3, <2>2, OpenedEffect
  <2> QED BY <2>1, <2>2
<1>12. d.signal = sig /\ d.peak = p /\ d.layer = tr.layer /\ d.modifier = tr.modifier
       /\ d.state = tr.state /\ d.result = tr.result /\ d.pc = "decide" /\ Keeps(d, tr)
  BY <1>7, <1>8, <1>9 DEF Keeps
<1> QED BY <1>1, <1>2, <1>4, <1>10, <1>11, <1>12 DEF Inspect, p

LEMMA DecideEffect ==
  ASSUME Shape, NEW t \in Threads, Decide(t)
  PROVE  LET tr == turn[t]
             a == turn'[t]
             from == current_state(tr.session) IN
         /\ tr.pc = "decide" /\ tr.result = "none"
         /\ tr.kind \in {"inbound", "outbound"} /\ from \in SecurityState
         /\ Alone1(t) /\ Keeps(a, tr)
         /\ \/ is_clean(tr.signal) /\ Outcome(a, tr, from)
            \/ /\ ~is_clean(tr.signal) /\ Warranted(tr.signal) > from
               /\ a.pc = "write" /\ a.layer = tr.layer /\ a.modifier = tr.modifier
               /\ a.signal = tr.signal /\ a.state = tr.state /\ a.result = tr.result
               /\ a.peak = tr.peak
            \/ /\ ~is_clean(tr.signal) /\ Warranted(tr.signal) <= from
               /\ a.pc = "answer" /\ a.layer = tr.layer /\ a.modifier = tr.modifier
               /\ a.signal = tr.signal /\ a.state = tr.state /\ a.result = tr.result
               /\ a.peak = tr.peak
         /\ UNCHANGED <<session_states, memories, watched, calls, ended, overlapped>>
<1> DEFINE tr == turn[t]
           from == current_state(tr.session)
           to == determine_new_state(from, tr.signal)
<1>1. tr \in Turn /\ Placed(tr) /\ tr.pc = "decide" /\ from \in SecurityState
  BY TurnType, StateType DEF Decide
<1>2. /\ tr.kind \in {"inbound", "outbound"} /\ tr.layer \in 1..5 /\ tr.result = "none"
      /\ tr.kind = "outbound" => tr.layer # 5
  BY <1>1 DEF Placed, AtLayer
<1> DEFINE a == CASE is_clean(tr.signal) -> Answered(tr, from)
                  [] ~is_clean(tr.signal) /\ to > from -> [tr EXCEPT !.pc = "write"]
                  [] OTHER -> [tr EXCEPT !.pc = "answer"]
<1>3. turn' = [turn EXCEPT ![t] = a]
  BY DEF Decide
<1>4. Warranted(tr.signal) \in SecurityState
  BY WarrantedType
<1>5. Outcome(Answered(tr, from), tr, from)
  <2> HIDE DEF tr, from
  <2> QED BY <1>1, <1>2, AnsweredOutcome
<1>6. \A pc \in {"write", "answer"} :
        LET b == [tr EXCEPT !.pc = pc] IN
        /\ b \in Turn /\ b.pc = pc /\ b.kind = tr.kind /\ b.session = tr.session /\ b.cut = tr.cut
        /\ b.layer = tr.layer /\ b.modifier = tr.modifier /\ b.signal = tr.signal
        /\ b.state = tr.state /\ b.result = tr.result /\ b.peak = tr.peak
  <2> HIDE DEF tr
  <2> QED BY <1>1, SetPc DEF AtLayer
<1>0. UNCHANGED <<session_states, memories, watched, calls, ended, overlapped>>
  BY DEF Decide
<1>7. to > from <=> Warranted(tr.signal) > from
  BY <1>1, <1>4 DEF determine_new_state, SecurityState
<1>8. CASE is_clean(tr.signal)
  <2>1. a = Answered(tr, from)
    BY <1>8
  <2> HIDE DEF a
  <2>2. a \in Turn /\ Keeps(a, tr) /\ Outcome(a, tr, from)
    BY <1>5, <2>1 DEF Outcome, Keeps
  <2>3. turn'[t] = a /\ Alone1(t)
    BY <1>3, <2>2, Moved DEF Alone1
  <2> HIDE DEF tr, from
  <2> QED BY <1>0, <1>1, <1>2, <1>8, <2>2, <2>3 DEF tr, from
<1>9. CASE ~is_clean(tr.signal) /\ to > from
  <2>1. a = [tr EXCEPT !.pc = "write"]
    BY <1>9
  <2> HIDE DEF a, to
  <2>2. a \in Turn
    BY <1>6, <2>1
  <2>3. turn'[t] = a /\ Alone1(t)
    BY <1>3, <2>2, Moved DEF Alone1
  <2>4. /\ Keeps(a, tr) /\ a.pc = "write" /\ a.layer = tr.layer /\ a.modifier = tr.modifier
        /\ a.signal = tr.signal /\ a.state = tr.state /\ a.result = tr.result /\ a.peak = tr.peak
    BY <1>6, <2>1 DEF Keeps
  <2> QED BY <1>0, <1>1, <1>2, <1>7, <1>9, <2>3, <2>4
<1>10. CASE ~is_clean(tr.signal) /\ ~(to > from)
  <2>1. a = [tr EXCEPT !.pc = "answer"]
    BY <1>10
  <2> HIDE DEF a, to
  <2>2. a \in Turn
    BY <1>6, <2>1
  <2>3. turn'[t] = a /\ Alone1(t)
    BY <1>3, <2>2, Moved DEF Alone1
  <2>4. Warranted(tr.signal) <= from
    BY <1>1, <1>4, <1>7, <1>10 DEF SecurityState
  <2>5. /\ Keeps(a, tr) /\ a.pc = "answer" /\ a.layer = tr.layer /\ a.modifier = tr.modifier
        /\ a.signal = tr.signal /\ a.state = tr.state /\ a.result = tr.result /\ a.peak = tr.peak
    BY <1>6, <2>1 DEF Keeps
  <2> QED BY <1>0, <1>1, <1>2, <1>10, <2>3, <2>4, <2>5
<1> QED BY <1>8, <1>9, <1>10

LEMMA WriteEffect ==
  ASSUME Shape, NEW t \in Threads, Write(t)
  PROVE  LET tr == turn[t]
             a == turn'[t] IN
         /\ tr.pc = "write" /\ ~is_clean(tr.signal) /\ Warranted(tr.signal) > 1
         /\ Alone1(t) /\ Keeps(a, tr) /\ a.pc = "answer" /\ a.layer = tr.layer
         /\ a.modifier = tr.modifier /\ a.signal = tr.signal /\ a.state = tr.state
         /\ a.result = tr.result /\ a.peak = tr.peak
         /\ DOMAIN session_states' = DOMAIN session_states
         /\ session_states' \in [DOMAIN session_states' -> SecurityState]
         /\ \A q \in DOMAIN session_states :
              session_states'[q] =
                IF q = tr.session THEN Warranted(tr.signal) ELSE session_states[q]
         /\ UNCHANGED <<memories, watched, calls, ended, overlapped>>
<1> DEFINE tr == turn[t]
           a == [tr EXCEPT !.pc = "answer"]
<1>1. /\ tr \in Turn /\ Placed(tr) /\ tr.pc = "write"
  BY TurnType DEF Write
<1>2. ~is_clean(tr.signal) /\ Warranted(tr.signal) > 1
  BY <1>1 DEF Placed
<1>3. turn' = [turn EXCEPT ![t] = a]
  BY DEF Write
<1>4. /\ a \in Turn /\ a.pc = "answer" /\ a.kind = tr.kind /\ a.session = tr.session
      /\ a.cut = tr.cut /\ a.layer = tr.layer /\ a.modifier = tr.modifier
      /\ a.signal = tr.signal /\ a.state = tr.state /\ a.result = tr.result /\ a.peak = tr.peak
  <2> HIDE DEF tr
  <2> QED BY <1>1, SetPc DEF AtLayer
<1> HIDE DEF a
<1>5. turn'[t] = a /\ Alone1(t)
  BY <1>3, <1>4, Moved DEF Alone1
<1>6. Warranted(tr.signal) \in SecurityState
  BY WarrantedType
<1>7. /\ DOMAIN session_states' = DOMAIN session_states
      /\ session_states' \in [DOMAIN session_states' -> SecurityState]
      /\ \A q \in DOMAIN session_states :
           session_states'[q] = IF q = tr.session THEN Warranted(tr.signal) ELSE session_states[q]
  BY <1>6 DEF Write, Shape
<1> QED BY <1>1, <1>2, <1>4, <1>5, <1>7 DEF Write, Keeps

LEMMA AnswerEffect ==
  ASSUME Shape, NEW t \in Threads, Answer(t)
  PROVE  LET tr == turn[t]
             a == turn'[t]
             state == IF tr.signal.modifier = 0 THEN 4 ELSE current_state(tr.session) IN
         /\ tr.pc = "answer" /\ tr.kind \in {"inbound", "outbound"} /\ tr.result = "none"
         /\ state \in SecurityState
         /\ Alone1(t) /\ Keeps(a, tr) /\ Outcome(a, tr, state)
         /\ UNCHANGED <<session_states, memories, watched, calls, ended, overlapped>>
<1> DEFINE tr == turn[t]
           state == IF tr.signal.modifier = 0 THEN 4 ELSE current_state(tr.session)
           a == Answered(tr, state)
<1>1. tr \in Turn /\ Placed(tr) /\ tr.pc = "answer"
  BY TurnType DEF Answer
<1>2. /\ tr.kind \in {"inbound", "outbound"} /\ tr.layer \in 1..5 /\ tr.result = "none"
      /\ tr.kind = "outbound" => tr.layer # 5
  BY <1>1 DEF Placed, AtLayer
<1>3. turn' = [turn EXCEPT ![t] = a]
  BY DEF Answer
<1>4. state \in SecurityState
  <2>1. current_state(tr.session) \in SecurityState /\ 4 \in SecurityState
    BY StateType DEF SecurityState
  <2> QED BY <2>1
<1>5. Outcome(a, tr, state)
  <2> HIDE DEF tr, state
  <2> QED BY <1>1, <1>2, <1>4, AnsweredOutcome
<1> HIDE DEF a, state
<1>6. a \in Turn /\ Keeps(a, tr)
  BY <1>5 DEF Outcome, Keeps
<1>7. turn'[t] = a /\ Alone1(t)
  BY <1>3, <1>6, Moved DEF Alone1
<1> QED BY <1>1, <1>2, <1>4, <1>5, <1>6, <1>7 DEF Answer, state

LEMMA WatchEffect ==
  ASSUME Shape, NEW t \in Threads, Watch(t)
  PROVE  LET tr == turn[t]
             a == turn'[t] IN
         /\ tr.pc = "watch" /\ tr.result = "none" /\ tr.session \in Sessions
         /\ Alone1(t) /\ Keeps(a, tr) /\ a.peak = tr.peak /\ a.state = tr.state
         /\ a.layer = tr.layer /\ a.result = "none" /\ a.modifier = tr.modifier
         /\ \/ tr.kind = "inbound" /\ tr.layer = 3 /\ a.pc = "govmem"
            \/ tr.kind = "outbound" /\ tr.layer = 2 /\ a.pc = "inspect"
         /\ watched' = watched \cup {tr.session}
         /\ UNCHANGED <<session_states, memories, calls, ended, overlapped>>
<1> DEFINE tr == turn[t]
           pc == IF Inbound(tr) THEN "govmem" ELSE "inspect"
           b == [tr EXCEPT !.pc = pc]
<1>1. tr \in Turn /\ Placed(tr) /\ tr.pc = "watch"
  BY TurnType DEF Watch
<1>2. /\ tr.result = "none" /\ tr.session \in Sessions
      /\ \/ tr.kind = "inbound" /\ tr.layer = 3 /\ pc = "govmem"
         \/ tr.kind = "outbound" /\ tr.layer = 2 /\ pc = "inspect"
  BY <1>1 DEF Placed, Inbound
<1>3. turn' = [turn EXCEPT ![t] = b] /\ watched' = watched \cup {tr.session}
  BY DEF Watch
<1>4. UNCHANGED <<session_states, memories, calls, ended, overlapped>>
  BY DEF Watch
<1>5. pc \in {"govmem", "inspect"}
  OBVIOUS
<1> HIDE DEF pc
<1>6. /\ b \in Turn /\ b.pc = pc /\ b.kind = tr.kind /\ b.session = tr.session
      /\ b.cut = tr.cut /\ b.layer = tr.layer /\ b.modifier = tr.modifier
      /\ b.state = tr.state /\ b.result = tr.result /\ b.peak = tr.peak
  <2> HIDE DEF tr
  <2> QED BY <1>1, <1>5, SetPc DEF AtLayer, Between
<1> HIDE DEF b
<1>7. turn'[t] = b /\ Alone1(t)
  BY <1>3, <1>6, Moved DEF Alone1
<1> QED BY <1>1, <1>2, <1>3, <1>4, <1>6, <1>7 DEF Keeps

LEMMA GovMemEffect ==
  ASSUME Shape, NEW t \in Threads, GovMem(t)
  PROVE  LET tr == turn[t]
             a == turn'[t] IN
         /\ tr.pc = "govmem" /\ tr.kind = "inbound" /\ tr.layer = 3 /\ tr.result = "none"
         /\ Alone1(t) /\ Keeps(a, tr) /\ a.peak = tr.peak /\ a.state = tr.state
         /\ \/ a.pc = "ingest" /\ a.result = "Quarantined"
            \/ /\ a.pc = "inspect" /\ a.layer = 3 /\ a.result = "none"
               /\ a.modifier = tr.modifier
               /\ tr.session \in DOMAIN memories => memories[tr.session] # "Locked"
         /\ UNCHANGED <<session_states, memories, watched, calls, ended, overlapped>>
<1> DEFINE tr == turn[t]
           r == Refused(tr, "Quarantined")
           b == [tr EXCEPT !.pc = "inspect"]
<1>1. tr \in Turn /\ Placed(tr) /\ tr.pc = "govmem" /\ tr.session \in Sessions \cup {"none"}
  BY TurnType DEF GovMem
<1>2. tr.kind = "inbound" /\ tr.layer = 3 /\ tr.result = "none"
  BY <1>1 DEF Placed, Between
<1>3. turn' = [turn EXCEPT ![t] = IF should_block(tr.session) THEN r ELSE b]
  BY DEF GovMem
<1>4. /\ r \in Turn /\ r.kind = tr.kind /\ r.session = tr.session /\ r.state = tr.state
      /\ r.result = "Quarantined" /\ r.peak = tr.peak /\ r.cut = tr.cut /\ r.pc = "ingest"
  <2>1. Inbound(tr) /\ "Quarantined" \in Results
    BY <1>2 DEF Inbound, Results, Refusal
  <2> HIDE DEF tr
  <2> QED BY <1>1, <2>1, RefusedFields
<1>5. /\ b \in Turn /\ b.pc = "inspect" /\ b.kind = tr.kind /\ b.session = tr.session
      /\ b.cut = tr.cut /\ b.layer = tr.layer /\ b.modifier = tr.modifier
      /\ b.state = tr.state /\ b.result = tr.result /\ b.peak = tr.peak
  <2> HIDE DEF tr
  <2> QED BY <1>1, SetPc DEF AtLayer
<1> HIDE DEF r, b
<1>6. CASE should_block(tr.session)
  <2>1. turn' = [turn EXCEPT ![t] = r]
    BY <1>3, <1>6
  <2>2. turn'[t] = r /\ Alone1(t)
    BY <1>4, <2>1, Moved DEF Alone1
  <2> QED BY <1>1, <1>2, <1>4, <2>2 DEF GovMem, Keeps
<1>7. CASE ~should_block(tr.session)
  <2>1. turn' = [turn EXCEPT ![t] = b]
    BY <1>3, <1>7
  <2>2. turn'[t] = b /\ Alone1(t)
    BY <1>5, <2>1, Moved DEF Alone1
  <2>3. tr.session \in DOMAIN memories => memories[tr.session] # "Locked"
    <3> SUFFICES ASSUME tr.session \in DOMAIN memories, memories[tr.session] = "Locked"
                 PROVE  FALSE
      OBVIOUS
    <3>1. 100 - threshold_modifier(memories[tr.session]) > 99
      BY ModifierType DEF MemoryState
    <3>2. threshold_modifier(memories[tr.session]) \in 0..100
      BY ModifierType DEF MemoryState
    <3> QED BY <1>7, <3>1, <3>2, BlockAssumption DEF should_block
  <2> QED BY <1>1, <1>2, <1>5, <2>2, <2>3 DEF GovMem, Keeps
<1> QED BY <1>6, <1>7

LEMMA DrsEffect ==
  ASSUME Shape, NEW t \in Threads, ReadDrs(t)
  PROVE  LET tr == turn[t]
             a == turn'[t] IN
         /\ tr.pc = "drs" /\ tr.kind = "inbound" /\ tr.layer = 4 /\ tr.result = "none"
         /\ Alone1(t) /\ Keeps(a, tr) /\ a.pc = "gate" /\ a.layer = 4 /\ a.result = "none"
         /\ a.peak = tr.peak /\ a.state = current_state(tr.session) /\ a.modifier = tr.modifier
         /\ UNCHANGED <<session_states, memories, watched, calls, ended, overlapped>>
<1> DEFINE tr == turn[t]
           state == current_state(tr.session)
           b == [tr EXCEPT !.pc = "gate"]
           c == [b EXCEPT !.state = state]
<1>1. tr \in Turn /\ Placed(tr) /\ tr.pc = "drs" /\ state \in SecurityState
  BY TurnType, StateType DEF ReadDrs
<1>2. tr.kind = "inbound" /\ tr.layer = 4 /\ tr.result = "none"
  BY <1>1 DEF Placed, Between
<1>3. turn' = [turn EXCEPT ![t] = c]
  <2>1. \A x, v, w : [x EXCEPT !.pc = v, !.state = w] = [[x EXCEPT !.pc = v] EXCEPT !.state = w]
    OBVIOUS
  <2> QED BY <2>1 DEF ReadDrs
<1>4. /\ b \in Turn /\ b.pc = "gate" /\ b.kind = tr.kind /\ b.session = tr.session
      /\ b.cut = tr.cut /\ b.layer = tr.layer /\ b.modifier = tr.modifier
      /\ b.result = tr.result /\ b.peak = tr.peak
  <2> HIDE DEF tr
  <2> QED BY <1>1, SetPc DEF Between
<1> HIDE DEF b, state
<1>5. /\ c \in Turn /\ c.pc = b.pc /\ c.kind = b.kind /\ c.session = b.session
      /\ c.cut = b.cut /\ c.layer = b.layer /\ c.modifier = b.modifier
      /\ c.result = b.result /\ c.peak = b.peak /\ c.state = state
  BY <1>1, <1>4, SetState
<1> HIDE DEF c
<1>6. turn'[t] = c /\ Alone1(t)
  BY <1>3, <1>5, Moved DEF Alone1
<1> QED BY <1>1, <1>2, <1>4, <1>5, <1>6 DEF ReadDrs, Keeps, state

\* The risk of a low state and a memory that is not locked stays below the override.
LEMMA DrsBelowOverride ==
  ASSUME Shape, NEW s, NEW state \in {1, 2}, s \in DOMAIN memories => memories[s] # "Locked"
  PROVE  session_drs(state, s) < 96
<1> DEFINE p == IF s \in DOMAIN memories THEN pressure(memories[s]) ELSE 0
<1>1. p \in 0..25
  BY DEF Shape, MemoryState, pressure
<1>2. session_drs(state, s) = LET drs == <<0, 45, 75, 100>>[state] + p IN
                              IF drs > 100 THEN 100 ELSE drs
  BY DEF session_drs
<1> HIDE DEF p
<1>3. CASE state = 1
  BY <1>1, <1>2, <1>3
<1>4. CASE state = 2
  BY <1>1, <1>2, <1>4
<1> QED BY <1>3, <1>4

LEMMA GateEffect ==
  ASSUME Shape, NEW t \in Threads, HaapGate(t)
  PROVE  LET tr == turn[t]
             a == turn'[t] IN
         /\ tr.pc = "gate" /\ tr.kind = "inbound" /\ tr.layer = 4 /\ tr.result = "none"
         /\ Alone1(t) /\ Keeps(a, tr) /\ a.peak = tr.peak /\ a.state = 1
         /\ \/ a.pc = "ingest" /\ a.result = "HaapGated"
            \/ /\ a.pc = "ingest" /\ a.result = "ConstitutionalBlock"
               /\ session_drs(tr.state, tr.session) >= 96
            \/ a.pc = "inspect" /\ a.layer = 4 /\ a.result = "none" /\ a.modifier = tr.modifier
         /\ UNCHANGED <<session_states, memories, watched, calls, ended, overlapped>>
<1> DEFINE tr == turn[t]
           drs == session_drs(tr.state, tr.session)
           passed == [tr EXCEPT !.state = 1]
           blocked == Refused(passed, "ConstitutionalBlock")
           gated == Refused(passed, "HaapGated")
           b == [passed EXCEPT !.pc = "inspect"]
<1>1. tr \in Turn /\ Placed(tr) /\ tr.pc = "gate"
  BY TurnType DEF HaapGate
<1>2. tr.kind = "inbound" /\ tr.layer = 4 /\ tr.result = "none"
  BY <1>1 DEF Placed, Between
<1>3. PICK preauthorized \in BOOLEAN :
        turn' = [turn EXCEPT ![t] =
          CASE drs >= 96 -> blocked
            [] drs \in 60..95 /\ ~preauthorized -> gated
            [] OTHER -> b]
  BY DEF HaapGate
<1>4. /\ passed \in Turn /\ passed.kind = tr.kind /\ passed.session = tr.session
      /\ passed.cut = tr.cut /\ passed.layer = tr.layer /\ passed.modifier = tr.modifier
      /\ passed.result = tr.result /\ passed.peak = tr.peak /\ passed.state = 1
  <2>1. 1 \in SecurityState
    BY DEF SecurityState
  <2> HIDE DEF tr
  <2> QED BY <1>1, <2>1, SetState
<1> HIDE DEF passed
<1>5. Inbound(passed) /\ {"ConstitutionalBlock", "HaapGated"} \subseteq Results
  BY <1>2, <1>4 DEF Inbound, Results, Refusal
<1>6. /\ blocked \in Turn /\ Keeps(blocked, tr) /\ blocked.peak = tr.peak /\ blocked.state = 1
      /\ blocked.pc = "ingest" /\ blocked.result = "ConstitutionalBlock"
  BY <1>4, <1>5, RefusedFields DEF Keeps
<1>7. /\ gated \in Turn /\ Keeps(gated, tr) /\ gated.peak = tr.peak /\ gated.state = 1
      /\ gated.pc = "ingest" /\ gated.result = "HaapGated"
  BY <1>4, <1>5, RefusedFields DEF Keeps
<1>8. /\ b \in Turn /\ Keeps(b, tr) /\ b.peak = tr.peak /\ b.state = 1
      /\ b.pc = "inspect" /\ b.layer = tr.layer /\ b.result = tr.result
      /\ b.modifier = tr.modifier
  BY <1>4, SetPc DEF Keeps, AtLayer
<1> HIDE DEF blocked, gated, b
<1> DEFINE c == CASE drs >= 96 -> blocked
                  [] drs \in 60..95 /\ ~preauthorized -> gated
                  [] OTHER -> b
<1>14. turn' = [turn EXCEPT ![t] = c]
  BY <1>3
<1>9. UNCHANGED <<session_states, memories, watched, calls, ended, overlapped>>
  BY DEF HaapGate
<1>10. ASSUME NEW a \in Turn, turn' = [turn EXCEPT ![t] = a]
       PROVE  turn'[t] = a /\ Alone1(t)
  BY <1>10, Moved DEF Alone1
<1>11. CASE drs >= 96
  <2>1. turn' = [turn EXCEPT ![t] = blocked]
    <3>1. c = blocked
      BY <1>11
    <3> QED BY <1>14, <3>1
  <2>2. turn'[t] = blocked /\ Alone1(t)
    BY <1>6, <1>10, <2>1
  <2> QED BY <1>1, <1>2, <1>6, <1>9, <1>11, <2>2
<1>12. CASE ~(drs >= 96) /\ drs \in 60..95 /\ ~preauthorized
  <2>1. turn' = [turn EXCEPT ![t] = gated]
    <3>1. c = gated
      BY <1>12
    <3> QED BY <1>14, <3>1
  <2>2. turn'[t] = gated /\ Alone1(t)
    BY <1>7, <1>10, <2>1
  <2> QED BY <1>1, <1>2, <1>7, <1>9, <2>2
<1>13. CASE ~(drs >= 96) /\ ~(drs \in 60..95 /\ ~preauthorized)
  <2>1. turn' = [turn EXCEPT ![t] = b]
    <3>1. c = b
      BY <1>13
    <3> QED BY <1>14, <3>1
  <2>2. turn'[t] = b /\ Alone1(t)
    BY <1>8, <1>10, <2>1
  <2> QED BY <1>1, <1>2, <1>8, <1>9, <2>2
<1> QED BY <1>11, <1>12, <1>13

LEMMA FloorType ==
  \A m \in MemoryState :
    /\ memory_floor(m) \in SecurityState
    /\ memory_floor(m) > 1 =>
         /\ memory_signal(m) \in ModifiedSignal /\ ~is_clean(memory_signal(m))
         /\ memory_signal(m).modifier = 100
         /\ FloorMeets => Warranted(memory_signal(m)) >= memory_floor(m)
<1>1. ASSUME NEW m \in {"Clear", "Watching"} PROVE memory_floor(m) = 1
  BY DEF memory_floor
<1>2. /\ memory_floor("Elevated") = 2
      /\ memory_signal("Elevated") = [severity |-> "High", confidence |-> 82, modifier |-> 100]
  BY DEF memory_floor, memory_signal
<1>3. /\ memory_floor("Escalated") = 3
      /\ memory_signal("Escalated") = [severity |-> "High", confidence |-> 90, modifier |-> 100]
  BY DEF memory_floor, memory_signal
<1>4. /\ memory_floor("Locked") = 4
      /\ memory_signal("Locked") = [severity |-> "Critical", confidence |-> 98, modifier |-> 100]
  BY DEF memory_floor, memory_signal
<1>5. ASSUME NEW c \in 0..100, NEW v \in {"High", "Critical"}
      PROVE  LET sig == [severity |-> v, confidence |-> c, modifier |-> 100] IN
             /\ sig \in ModifiedSignal /\ ~is_clean(sig) /\ sig.modifier = 100
             /\ sig.severity = v /\ \A th \in Nat : th <= c => Meets(sig, th)
  BY DEF ModifiedSignal, Severity, is_clean, Meets
<1>6. FloorMeets =>
        /\ Warranted([severity |-> "High", confidence |-> 82, modifier |-> 100]) >= 2
        /\ Warranted([severity |-> "High", confidence |-> 90, modifier |-> 100]) >= 3
        /\ Warranted([severity |-> "Critical", confidence |-> 98, modifier |-> 100]) >= 4
  <2> DEFINE e == [severity |-> "High", confidence |-> 82, modifier |-> 100]
             f == [severity |-> "High", confidence |-> 90, modifier |-> 100]
             g == [severity |-> "Critical", confidence |-> 98, modifier |-> 100]
  <2> SUFFICES ASSUME FloorMeets
               PROVE  Warranted(e) >= 2 /\ Warranted(f) >= 3 /\ Warranted(g) >= 4
    OBVIOUS
  <2>1. e.modifier = 100 /\ e.severity = "High" /\ Meets(e, Medium)
    BY <1>5, ThresholdsAssumption DEF FloorMeets
  <2>2. f.modifier = 100 /\ f.severity = "High" /\ Meets(f, High)
    BY <1>5, ThresholdsAssumption DEF FloorMeets
  <2>3. g.modifier = 100 /\ g.severity = "Critical" /\ Meets(g, Critical)
    BY <1>5, ThresholdsAssumption DEF FloorMeets
  <2> HIDE DEF e, f, g
  <2>4. Warranted(e) >= 2
    BY <2>1 DEF Warranted
  <2>5. Warranted(f) >= 3
    BY <2>2 DEF Warranted
  <2>6. Warranted(g) >= 4
    BY <2>3 DEF Warranted
  <2> QED BY <2>4, <2>5, <2>6
<1>7. \A m \in {"Elevated", "Escalated", "Locked"} :
        /\ memory_signal(m) \in ModifiedSignal /\ ~is_clean(memory_signal(m))
        /\ memory_signal(m).modifier = 100
  BY <1>2, <1>3, <1>4, <1>5
<1>8. FloorMeets => /\ Warranted(memory_signal("Elevated")) >= memory_floor("Elevated")
                    /\ Warranted(memory_signal("Escalated")) >= memory_floor("Escalated")
                    /\ Warranted(memory_signal("Locked")) >= memory_floor("Locked")
  BY <1>2, <1>3, <1>4, <1>6
<1>9. \A m \in MemoryState : memory_floor(m) \in SecurityState
  BY DEF memory_floor, SecurityState
<1>10. \A m \in MemoryState : memory_floor(m) > 1 => m \in {"Elevated", "Escalated", "Locked"}
  BY <1>1 DEF MemoryState
<1> QED BY <1>7, <1>8, <1>9, <1>10

LEMMA IngestEffect ==
  ASSUME Shape, NEW t \in Threads, Ingest(t)
  PROVE  LET tr == turn[t]
             a == turn'[t]
             s == tr.session
             told == IF tr.result = "none" THEN enforcement_result(tr.state) ELSE tr.result IN
         /\ tr.pc = "ingest" /\ tr.kind = "inbound" /\ s \in Sessions
         /\ Alone1(t) /\ Keeps(a, tr)
         /\ \/ /\ s \notin DOMAIN memories /\ memories' = memories
               /\ a.pc = "idle" /\ a.state = tr.state /\ a.peak = tr.peak /\ a.result = told
            \/ /\ s \in DOMAIN memories /\ memories' \in [DOMAIN memories -> MemoryState]
               /\ \A q \in DOMAIN memories : q # s => memories'[q] = memories[q]
               /\ a.peak = Larger(tr.peak, memory_floor(memories'[s]))
               /\ \/ /\ tr.result = "none" /\ memory_floor(memories'[s]) > tr.state
                     /\ a.pc = "inspect" /\ a.layer = 5 /\ a.result = "none"
                     /\ a.state = memory_floor(memories'[s])
                     /\ a.signal = memory_signal(memories'[s])
                  \/ /\ tr.result = "none" => memory_floor(memories'[s]) <= tr.state
                     /\ a.pc = "idle" /\ a.state = tr.state /\ a.result = told
         /\ UNCHANGED <<session_states, watched, calls, ended, overlapped>>
<1> DEFINE tr == turn[t]
           s == tr.session
           told == IF tr.result = "none" THEN enforcement_result(tr.state) ELSE tr.result
           over == Done(tr, told)
<1>1. tr \in Turn /\ Placed(tr) /\ tr.pc = "ingest"
  BY TurnType DEF Ingest
<1>2. /\ tr.kind = "inbound" /\ s \in Sessions /\ (tr.result = "none" => tr.layer = 4)
      /\ tr.state \in SecurityState /\ tr.peak \in SecurityState /\ tr.result \in Results
  BY <1>1 DEF Placed, Turn, Refusal
<1>3. UNCHANGED <<session_states, watched, calls, ended, overlapped>>
  BY DEF Ingest
<1>4. told \in Results
  BY <1>2, EnforcementResult
<1>5. /\ over \in Turn /\ over.pc = "idle" /\ over.kind = tr.kind /\ over.session = tr.session
      /\ over.state = tr.state /\ over.result = told /\ over.peak = tr.peak /\ over.cut = tr.cut
  <2> HIDE DEF tr, told
  <2> QED BY <1>1, <1>4, DoneFields
<1>6. CASE s \notin DOMAIN memories
  <2>1. turn' = [turn EXCEPT ![t] = over] /\ memories' = memories
    BY <1>6 DEF Ingest
  <2> HIDE DEF over
  <2>2. turn'[t] = over /\ Alone1(t)
    BY <1>5, <2>1, Moved DEF Alone1
  <2>3. Keeps(over, tr)
    BY <1>5 DEF Keeps
  <2> QED BY <1>1, <1>2, <1>3, <1>5, <1>6, <2>1, <2>2, <2>3
<1>7. CASE s \in DOMAIN memories
  <2>1. PICK m \in Ingested(memories[s]) :
          /\ memories' = [memories EXCEPT ![s] = m]
          /\ turn' = [turn EXCEPT ![t] =
                        IF tr.result = "none" /\ apply_memory_floor(m, tr.state) > tr.state
                        THEN [tr EXCEPT !.pc = "inspect", !.layer = tr.layer + 1,
                                        !.state = apply_memory_floor(m, tr.state),
                                        !.signal = memory_signal(m),
                                        !.peak = Larger(tr.peak, memory_floor(m))]
                        ELSE [IF tr.result = "none"
                              THEN Done(tr, enforcement_result(apply_memory_floor(m, tr.state)))
                              ELSE Done(tr, tr.result)
                                EXCEPT !.peak = Larger(@, memory_floor(m))]]
    BY <1>7 DEF Ingest
  <2>2. m \in MemoryState /\ memories[s] \in MemoryState
    BY <1>7 DEF Ingested, MemoryState, Shape
  <2>3. /\ memories' \in [DOMAIN memories -> MemoryState] /\ memories'[s] = m
        /\ \A q \in DOMAIN memories : q # s => memories'[q] = memories[q]
    BY <1>7, <2>1, <2>2 DEF Shape
  <2> DEFINE floor == memory_floor(m)
             floored == apply_memory_floor(m, tr.state)
             p == Larger(tr.peak, floor)
             sig == memory_signal(m)
  <2>4. /\ floor \in SecurityState
        /\ floor > 1 => sig \in ModifiedSignal
    BY <2>2, FloorType
  <2>5. /\ p \in SecurityState
        /\ floored = IF floor > tr.state THEN floor ELSE tr.state
    BY <1>2, <2>4 DEF Larger, apply_memory_floor, SecurityState
  <2>6. CASE tr.result = "none" /\ floor > tr.state
    <3> DEFINE b == [tr EXCEPT !.pc = "inspect"]
               c == [b EXCEPT !.layer = 5]
               d == [c EXCEPT !.state = floor]
               e == [d EXCEPT !.signal = sig]
               f == [e EXCEPT !.peak = p]
    <3>1. turn' = [turn EXCEPT ![t] = f]
      <4>1. \A x, u, v, w, y, z :
              [x EXCEPT !.pc = u, !.layer = v, !.state = w, !.signal = y, !.peak = z]
                = [[[[[x EXCEPT !.pc = u] EXCEPT !.layer = v] EXCEPT !.state = w]
                     EXCEPT !.signal = y] EXCEPT !.peak = z]
        OBVIOUS
      <4>2. tr.layer + 1 = 5 /\ floored = floor /\ floored > tr.state
        BY <1>2, <2>5, <2>6
      <4>3. turn' = [turn EXCEPT ![t] = [tr EXCEPT !.pc = "inspect", !.layer = 5, !.state = floor,
                                                   !.signal = sig, !.peak = p]]
        BY <2>1, <2>6, <4>2
      <4> QED BY <4>1, <4>3
    <3>2. sig \in ModifiedSignal
      BY <1>2, <2>4, <2>6 DEF SecurityState
    <3> HIDE DEF floor, floored, p, sig
    <3>3. /\ b \in Turn /\ b.pc = "inspect" /\ b.kind = tr.kind /\ b.session = tr.session
          /\ b.result = tr.result /\ b.cut = tr.cut
      <4> HIDE DEF tr
      <4> QED BY <1>1, SetPc DEF AtLayer
    <3> HIDE DEF b
    <3>4. /\ c \in Turn /\ c.pc = b.pc /\ c.kind = b.kind /\ c.session = b.session
          /\ c.result = b.result /\ c.cut = b.cut /\ c.layer = 5
      <4>1. b \in Turn /\ 5 \in 0..5
        BY <3>3
      <4> QED BY <4>1, SetLayer
    <3> HIDE DEF c
    <3>5. /\ d \in Turn /\ d.pc = c.pc /\ d.kind = c.kind /\ d.session = c.session
          /\ d.result = c.result /\ d.cut = c.cut /\ d.layer = c.layer /\ d.state = floor
      BY <2>4, <3>4, SetState
    <3> HIDE DEF d
    <3>6. /\ e \in Turn /\ e.pc = d.pc /\ e.kind = d.kind /\ e.session = d.session
          /\ e.result = d.result /\ e.cut = d.cut /\ e.layer = d.layer /\ e.state = d.state
          /\ e.signal = sig
      BY <3>2, <3>5, SetSignal
    <3> HIDE DEF e
    <3>7. /\ f \in Turn /\ f.pc = e.pc /\ f.kind = e.kind /\ f.session = e.session
          /\ f.result = e.result /\ f.cut = e.cut /\ f.layer = e.layer /\ f.state = e.state
          /\ f.signal = e.signal /\ f.peak = p
      BY <2>5, <3>6, SetPeak
    <3> HIDE DEF f
    <3>8. turn'[t] = f /\ Alone1(t)
      BY <3>1, <3>7, Moved DEF Alone1
    <3>9. /\ Keeps(f, tr) /\ f.pc = "inspect" /\ f.layer = 5 /\ f.result = "none"
          /\ f.state = floor /\ f.signal = sig /\ f.peak = p
      BY <2>6, <3>3, <3>4, <3>5, <3>6, <3>7 DEF Keeps
    <3>10. floor = memory_floor(memories'[s]) /\ sig = memory_signal(memories'[s])
           /\ p = Larger(tr.peak, memory_floor(memories'[s]))
      BY <2>3 DEF floor, sig, p
    <3> HIDE DEF s, tr
    <3> QED BY <1>1, <1>2, <1>3, <1>7, <2>3, <2>6, <3>8, <3>9, <3>10 DEF s, tr
  <2>7. CASE ~(tr.result = "none" /\ floor > tr.state)
    <3> DEFINE b == [over EXCEPT !.peak = p]
    <3>1. tr.result = "none" => floored = tr.state /\ floor <= tr.state
      BY <1>2, <2>4, <2>5, <2>7 DEF SecurityState
    <3>2. ~(tr.result = "none" /\ floored > tr.state)
      BY <1>2, <3>1 DEF SecurityState
    <3>3. (IF tr.result = "none" THEN Done(tr, enforcement_result(floored))
           ELSE Done(tr, tr.result)) = over
      BY <3>1
    <3>4. turn' = [turn EXCEPT ![t] = b]
      <4>1. turn' = [turn EXCEPT ![t] = [IF tr.result = "none" THEN Done(tr, enforcement_result(floored))
                                         ELSE Done(tr, tr.result)
                                           EXCEPT !.peak = Larger(@, floor)]]
        BY <2>1, <3>2
      <4>2. turn' = [turn EXCEPT ![t] = [over EXCEPT !.peak = Larger(over.peak, floor)]]
        BY <3>3, <4>1
      <4>3. over.peak = tr.peak
        BY <1>5
      <4> QED BY <4>2, <4>3
    <3> HIDE DEF floor, floored, p, over
    <3>5. /\ b \in Turn /\ b.pc = over.pc /\ b.kind = over.kind /\ b.session = over.session
          /\ b.state = over.state /\ b.result = over.result /\ b.cut = over.cut /\ b.peak = p
      BY <1>5, <2>5, SetPeak
    <3> HIDE DEF b
    <3>6. turn'[t] = b /\ Alone1(t)
      BY <3>4, <3>5, Moved DEF Alone1
    <3>7. Keeps(b, tr) /\ b.pc = "idle" /\ b.state = tr.state /\ b.result = told
      BY <1>5, <3>5 DEF Keeps
    <3>8. floor = memory_floor(memories'[s]) /\ p = Larger(tr.peak, memory_floor(memories'[s]))
      BY <2>3 DEF floor, p
    <3> HIDE DEF s, told
    <3> QED BY <1>1, <1>2, <1>3, <1>7, <2>3, <3>1, <3>5, <3>6, <3>7, <3>8 DEF s, told
  <2> QED BY <2>6, <2>7
<1> QED BY <1>6, <1>7

\* The turns of the session that are under way are cut, and are as they were otherwise.
CutBy(t) ==
  /\ turn' \in [Threads -> Turn]
  /\ \A u \in Threads : u # t =>
       LET tr == turn[u]
           a  == turn'[u] IN
       /\ a.pc = tr.pc /\ a.kind = tr.kind /\ a.session = tr.session /\ a.layer = tr.layer
       /\ a.modifier = tr.modifier /\ a.signal = tr.signal /\ a.state = tr.state
       /\ a.result = tr.result /\ a.peak = tr.peak
       /\ a.cut <=> (tr.cut \/ (tr.session = turn[t].session /\ tr.pc # "idle"))
       /\ tr = Idle => a = Idle

LEMMA CuttingEffect ==
  ASSUME Shape, NEW t \in Threads, NEW next \in Turn, turn' = Cutting(t, next)
  PROVE  turn'[t] = next /\ CutBy(t)
<1> DEFINE hit(u) == turn[u].cut \/ (turn[u].session = turn[t].session /\ turn[u].pc # "idle")
<1>1. turn' = [u \in Threads |-> IF u = t THEN next ELSE [turn[u] EXCEPT !.cut = hit(u)]]
  BY DEF Cutting
<1>2. ASSUME NEW u \in Threads
      PROVE  hit(u) \in BOOLEAN /\ turn[u] \in Turn
  BY TurnType DEF Turn
<1> HIDE DEF hit
<1>3. ASSUME NEW u \in Threads
      PROVE  LET tr == turn[u]
                 a  == [tr EXCEPT !.cut = hit(u)] IN
             /\ a \in Turn /\ a.pc = tr.pc /\ a.kind = tr.kind /\ a.session = tr.session
             /\ a.layer = tr.layer /\ a.modifier = tr.modifier /\ a.signal = tr.signal
             /\ a.state = tr.state /\ a.result = tr.result /\ a.peak = tr.peak /\ a.cut = hit(u)
  <2> DEFINE tr == turn[u]
             n == hit(u)
  <2>1. tr \in Turn /\ n \in BOOLEAN
    BY <1>2
  <2> HIDE DEF tr, n
  <2>2. LET a == [tr EXCEPT !.cut = n] IN
        /\ a \in Turn /\ a.pc = tr.pc /\ a.kind = tr.kind /\ a.session = tr.session
        /\ a.layer = tr.layer /\ a.modifier = tr.modifier /\ a.signal = tr.signal
        /\ a.state = tr.state /\ a.result = tr.result /\ a.peak = tr.peak /\ a.cut = n
    BY <2>1, SetCut
  <2> QED BY <2>2 DEF tr, n
<1>4. turn' \in [Threads -> Turn] /\ turn'[t] = next
  BY <1>1, <1>3
<1>5. ASSUME NEW u \in Threads, u # t
      PROVE  turn'[u] = [turn[u] EXCEPT !.cut = hit(u)]
  BY <1>1, <1>5
<1>6. ASSUME NEW u \in Threads, u # t, turn[u] = Idle
      PROVE  turn'[u] = Idle
  <2>1. hit(u) = FALSE
    BY <1>6, IdleTurn DEF hit
  <2>2. \A x \in Turn : [x EXCEPT !.cut = x.cut] = x
    BY DEF Turn
  <2>3. [Idle EXCEPT !.cut = FALSE] = Idle
    BY <2>2, IdleTurn
  <2> QED BY <1>5, <1>6, <2>1, <2>3
<1>7. ASSUME NEW u \in Threads, u # t
      PROVE  LET tr == turn[u]
                 a  == turn'[u] IN
             /\ a.pc = tr.pc /\ a.kind = tr.kind /\ a.session = tr.session /\ a.layer = tr.layer
             /\ a.modifier = tr.modifier /\ a.signal = tr.signal /\ a.state = tr.state
             /\ a.result = tr.result /\ a.peak = tr.peak
             /\ a.cut <=> (tr.cut \/ (tr.session = turn[t].session /\ tr.pc # "idle"))
             /\ tr = Idle => a = Idle
  <2>1. turn'[u].cut = hit(u)
    BY <1>3, <1>5, <1>7
  <2>2. turn'[u].cut <=> (turn[u].cut \/ (turn[u].session = turn[t].session /\ turn[u].pc # "idle"))
    BY <2>1 DEF hit
  <2> QED BY <1>3, <1>5, <1>6, <1>7, <2>2
<1> QED BY <1>4, <1>7 DEF CutBy

LEMMA ClearEffect ==
  ASSUME Shape, NEW t \in Threads, ClearState(t)
  PROVE  LET tr == turn[t]
             a == turn'[t] IN
         /\ tr.pc = "clear" /\ tr.kind \in {"end", "reset"} /\ tr.session \in Sessions
         /\ CutBy(t) /\ Keeps(a, tr) /\ a.pc = "unwatch" /\ a.result = "none"
         /\ DOMAIN session_states' = DOMAIN session_states
         /\ session_states' \in [DOMAIN session_states' -> SecurityState]
         /\ \A q : q # tr.session => current_state(q)' = current_state(q)
         /\ UNCHANGED <<memories, watched, calls, ended, overlapped>>
<1> DEFINE tr == turn[t]
           b == [tr EXCEPT !.pc = "unwatch"]
<1>1. tr \in Turn /\ Placed(tr) /\ tr.pc = "clear"
  BY TurnType DEF ClearState
<1>2. tr.kind \in {"end", "reset"} /\ tr.session \in Sessions /\ tr.result = "none"
  BY <1>1 DEF Placed, Ending
<1>3. turn' = Cutting(t, b)
  BY DEF ClearState
<1>4. /\ b \in Turn /\ b.pc = "unwatch" /\ b.kind = tr.kind /\ b.session = tr.session
      /\ b.cut = tr.cut /\ b.result = tr.result
  <2> HIDE DEF tr
  <2> QED BY <1>1, SetPc DEF Ending
<1> HIDE DEF b
<1>5. turn'[t] = b /\ CutBy(t)
  BY <1>3, <1>4, CuttingEffect
<1>6. /\ DOMAIN session_states' = DOMAIN session_states
      /\ session_states' \in [DOMAIN session_states' -> SecurityState]
      /\ \A q : q # tr.session => current_state(q)' = current_state(q)
  BY DEF ClearState, Shape, SecurityState, current_state
<1>7. UNCHANGED <<memories, watched, calls, ended, overlapped>>
  BY DEF ClearState
<1> QED BY <1>1, <1>2, <1>4, <1>5, <1>6, <1>7 DEF Keeps

LEMMA RemoveEffect ==
  ASSUME Shape, NEW t \in Threads, RemoveMemory(t)
  PROVE  LET tr == turn[t]
             a == turn'[t] IN
         /\ tr.pc = "remove" /\ tr.kind \in {"end", "reset"} /\ tr.session \in Sessions
         /\ CutBy(t) /\ Keeps(a, tr) /\ a.result = "none"
         /\ (a.pc = "forget" /\ tr.kind = "end") \/ a.pc = "idle"
         /\ DOMAIN memories' = DOMAIN memories \ {tr.session}
         /\ \A q \in DOMAIN memories' : memories'[q] = memories[q]
         /\ memories' \in [DOMAIN memories' -> MemoryState]
         /\ UNCHANGED <<session_states, watched, calls, ended, overlapped>>
<1> DEFINE tr == turn[t]
           b == [tr EXCEPT !.pc = "forget"]
           c == Done(tr, "none")
           next == IF tr.kind = "end" THEN b ELSE c
<1>1. tr \in Turn /\ Placed(tr) /\ tr.pc = "remove"
  BY TurnType DEF RemoveMemory
<1>2. tr.kind \in {"end", "reset"} /\ tr.session \in Sessions /\ tr.result = "none"
  BY <1>1 DEF Placed, Ending
<1>3. turn' = Cutting(t, next)
  BY DEF RemoveMemory
<1>4. /\ b \in Turn /\ b.pc = "forget" /\ b.kind = tr.kind /\ b.session = tr.session
      /\ b.cut = tr.cut /\ b.result = tr.result
  <2> HIDE DEF tr
  <2> QED BY <1>1, SetPc DEF Ending
<1>5. /\ c \in Turn /\ c.pc = "idle" /\ c.kind = tr.kind /\ c.session = tr.session
      /\ c.cut = tr.cut /\ c.result = "none"
  <2>1. "none" \in Results
    BY DEF Results
  <2> HIDE DEF tr
  <2> QED BY <1>1, <2>1, DoneFields
<1> HIDE DEF b, c
<1>6. /\ next \in Turn /\ next.kind = tr.kind /\ next.session = tr.session
      /\ next.cut = tr.cut /\ next.result = "none"
      /\ (next.pc = "forget" /\ tr.kind = "end") \/ next.pc = "idle"
  BY <1>2, <1>4, <1>5
<1> HIDE DEF next
<1>7. turn'[t] = next /\ CutBy(t)
  BY <1>3, <1>6, CuttingEffect
<1>8. /\ DOMAIN memories' = DOMAIN memories \ {tr.session}
      /\ \A q \in DOMAIN memories' : memories'[q] = memories[q]
      /\ memories' \in [DOMAIN memories' -> MemoryState]
  BY DEF RemoveMemory, Shape, Without
<1>9. UNCHANGED <<session_states, watched, calls, ended, overlapped>>
  BY DEF RemoveMemory
<1> QED BY <1>1, <1>2, <1>6, <1>7, <1>8, <1>9 DEF Keeps

LEMMA ForgetEffect ==
  ASSUME Shape, NEW t \in Threads, ForgetSession(t)
  PROVE  LET tr == turn[t]
             a == turn'[t] IN
         /\ tr.pc = "forget" /\ tr.kind = "end" /\ tr.session \in Sessions
         /\ CutBy(t) /\ Keeps(a, tr) /\ a.result = "none" /\ a.pc = "unwatch"
         /\ DOMAIN session_states' = DOMAIN session_states \ {tr.session}
         /\ session_states' \in [DOMAIN session_states' -> SecurityState]
         /\ \A q : q # tr.session => current_state(q)' = current_state(q)
         /\ UNCHANGED <<memories, watched, calls, ended, overlapped>>
<1> DEFINE tr == turn[t]
           b == [tr EXCEPT !.pc = "unwatch"]
<1>1. tr \in Turn /\ Placed(tr) /\ tr.pc = "forget"
  BY TurnType DEF ForgetSession
<1>2. tr.kind = "end" /\ tr.session \in Sessions /\ tr.result = "none"
  BY <1>1 DEF Placed, Ending
<1>3. turn' = Cutting(t, b)
  BY DEF ForgetSession
<1>4. /\ b \in Turn /\ b.pc = "unwatch" /\ b.kind = tr.kind /\ b.session = tr.session
      /\ b.cut = tr.cut /\ b.result = tr.result
  <2> HIDE DEF tr
  <2> QED BY <1>1, SetPc DEF Ending
<1> HIDE DEF b
<1>5. turn'[t] = b /\ CutBy(t)
  BY <1>3, <1>4, CuttingEffect
<1>6. /\ DOMAIN session_states' = DOMAIN session_states \ {tr.session}
      /\ session_states' \in [DOMAIN session_states' -> SecurityState]
      /\ \A q : q # tr.session => current_state(q)' = current_state(q)
  BY DEF ForgetSession, Shape, Forgotten, Without, current_state
<1>7. UNCHANGED <<memories, watched, calls, ended, overlapped>>
  BY DEF ForgetSession
<1> QED BY <1>1, <1>2, <1>4, <1>5, <1>6, <1>7 DEF Keeps

LEMMA ResetOverWatchEffect ==
  ASSUME Shape, NEW t \in Threads, ResetOverWatch(t)
  PROVE  LET tr == turn[t]
             a == turn'[t] IN
         /\ tr.pc = "unwatch" /\ tr.kind \in {"end", "reset"} /\ tr.session \in Sessions
         /\ Alone1(t) /\ Keeps(a, tr) /\ a.result = "none"
         /\ \/ tr.kind = "end" /\ a.pc = "idle" /\ ended' = ended \cup {tr.session}
            \/ tr.kind = "reset" /\ a.pc = "remove" /\ ended' = ended
         /\ watched' = watched \ {tr.session}
         /\ UNCHANGED <<session_states, memories, calls, overlapped>>
<1> DEFINE tr == turn[t]
           b == [tr EXCEPT !.pc = "remove"]
           c == Done(tr, "none")
<1>1. tr \in Turn /\ Placed(tr) /\ tr.pc = "unwatch"
  BY TurnType DEF ResetOverWatch
<1>2. tr.kind \in {"end", "reset"} /\ tr.session \in Sessions /\ tr.result = "none"
  BY <1>1 DEF Placed, Ending
<1>3. /\ watched' = watched \ {tr.session}
      /\ UNCHANGED <<session_states, memories, calls, overlapped>>
  BY DEF ResetOverWatch
<1>4. CASE tr.kind = "end"
  <2>1. turn' = [turn EXCEPT ![t] = c] /\ ended' = ended \cup {tr.session}
    BY <1>4 DEF ResetOverWatch
  <2>2. /\ c \in Turn /\ c.pc = "idle" /\ c.kind = tr.kind /\ c.session = tr.session
        /\ c.cut = tr.cut /\ c.result = "none"
    <3>1. "none" \in Results
      BY DEF Results
    <3> HIDE DEF tr
    <3> QED BY <1>1, <3>1, DoneFields
  <2> HIDE DEF c
  <2>3. turn'[t] = c /\ Alone1(t)
    BY <2>1, <2>2, Moved DEF Alone1
  <2> QED BY <1>1, <1>2, <1>3, <1>4, <2>1, <2>2, <2>3 DEF Keeps
<1>5. CASE tr.kind = "reset"
  <2>1. turn' = [turn EXCEPT ![t] = b] /\ ended' = ended
    BY <1>5 DEF ResetOverWatch
  <2>2. /\ b \in Turn /\ b.pc = "remove" /\ b.kind = tr.kind /\ b.session = tr.session
        /\ b.cut = tr.cut /\ b.result = tr.result
    <3> HIDE DEF tr
    <3> QED BY <1>1, SetPc DEF Ending
  <2> HIDE DEF b
  <2>3. turn'[t] = b /\ Alone1(t)
    BY <2>1, <2>2, Moved DEF Alone1
  <2> QED BY <1>1, <1>2, <1>3, <1>5, <2>1, <2>2, <2>3 DEF Keeps
<1> QED BY <1>2, <1>4, <1>5

-----------------------------------------------------------------------------
(* Shapes are kept.                                                        *)

LEMMA OneMovedShape ==
  ASSUME Shape, NEW t \in Threads, Alone1(t), Placed(turn'[t]),
         DOMAIN session_states' \subseteq Sessions,
         session_states' \in [DOMAIN session_states' -> SecurityState],
         DOMAIN memories' \subseteq Sessions, memories' \in [DOMAIN memories' -> MemoryState],
         watched' \subseteq Sessions, ended' \subseteq Sessions, UNCHANGED <<calls, overlapped>>
  PROVE  Shape'
<1>1. \A u \in Threads : Placed(turn'[u])
  BY DEF Shape, Alone1
<1> QED BY <1>1 DEF Shape, Alone1

LEMMA CutShape ==
  ASSUME Shape, NEW t \in Threads, CutBy(t), Placed(turn'[t]),
         DOMAIN session_states' \subseteq Sessions,
         session_states' \in [DOMAIN session_states' -> SecurityState],
         DOMAIN memories' \subseteq Sessions, memories' \in [DOMAIN memories' -> MemoryState],
         UNCHANGED <<watched, calls, ended, overlapped>>
  PROVE  Shape'
<1>1. ASSUME NEW u \in Threads, u # t
      PROVE  Placed(turn'[u])
  <2>1. Placed(turn[u])
    BY DEF Shape
  <2>2. LET tr == turn[u]
            a  == turn'[u] IN
        /\ a.pc = tr.pc /\ a.kind = tr.kind /\ a.session = tr.session /\ a.layer = tr.layer
        /\ a.signal = tr.signal /\ a.result = tr.result
    BY <1>1 DEF CutBy
  <2> QED BY <2>1, <2>2 DEF Placed
<1>2. \A u \in Threads : Placed(turn'[u])
  BY <1>1
<1> QED BY <1>2 DEF Shape, CutBy

\* A turn that has been answered is where a call of its kind can be.
LEMMA OutcomePlaced ==
  ASSUME NEW tr \in Turn, NEW a, NEW state \in SecurityState, Placed(tr), tr.pc \in AtLayer,
         Outcome(a, tr, state)
  PROVE  Placed(a)
<1>1. /\ tr.session \in Sessions /\ tr.kind \in {"inbound", "outbound"} /\ tr.layer \in 1..5
      /\ tr.kind = "outbound" => tr.layer # 5
      /\ tr.result = "none" /\ tr.state \in SecurityState
  BY DEF Placed, AtLayer, Turn
<1>2. a \in Turn /\ a.kind = tr.kind /\ a.session = tr.session
  BY DEF Outcome
<1>3. enforcement_result(state) # "none" /\ enforcement_result(tr.state) # "none"
      /\ (state \in {3, 4} => enforcement_result(state) \in Refusal)
  BY <1>1, EnforcementResult DEF Refusal
<1>4. CASE a.pc = "idle" /\ a.result \in {enforcement_result(state), enforcement_result(tr.state)}
  BY <1>1, <1>2, <1>3, <1>4 DEF Placed, AtLayer, Between, Ending
<1>5. CASE tr.kind = "inbound" /\ tr.layer = 4 /\ a.pc = "ingest" /\ a.result = tr.result /\ a.layer = 4
  BY <1>1, <1>2, <1>5 DEF Placed, AtLayer, Between, Ending
<1>6. CASE /\ tr.kind = "inbound" /\ a.pc = "ingest" /\ state \in {3, 4}
           /\ a.result = enforcement_result(state)
  BY <1>1, <1>2, <1>3, <1>6 DEF Placed, AtLayer, Between, Ending
<1>7. CASE /\ tr.layer \in 1..3 /\ a.layer = tr.layer + 1 /\ a.result = tr.result
           /\ a.pc = NextPc(tr)
  <2>1. CASE a.pc = "watch"
    <3>1. (tr.kind = "inbound" /\ tr.layer = 2) \/ (tr.kind = "outbound" /\ tr.layer = 1)
      BY <1>7, <2>1 DEF NextPc
    <3> QED BY <1>1, <1>2, <1>7, <2>1, <3>1 DEF Placed, AtLayer, Between, Ending
  <2>2. CASE a.pc = "drs"
    <3>1. tr.kind = "inbound" /\ tr.layer = 3
      BY <1>7, <2>2 DEF NextPc
    <3> QED BY <1>1, <1>2, <1>7, <2>2, <3>1 DEF Placed, AtLayer, Between, Ending
  <2>3. CASE a.pc = "inspect"
    <3>1. a.layer \in 1..5 /\ a.layer # 5
      BY <1>7
    <3> QED BY <1>1, <1>2, <1>7, <2>3, <3>1 DEF Placed, AtLayer, Between, Ending
  <2> QED BY <1>7, <2>1, <2>2, <2>3 DEF NextPc
<1> QED BY <1>4, <1>5, <1>6, <1>7 DEF Outcome

LEMMA BegunShape ==
  ASSUME Shape, NEW t \in Threads, NEW s \in Sessions, Begun(t, s), Placed(turn'[t])
  PROVE  Shape'
<1>1. Placed(Idle)
  BY IdleTurn DEF Placed, AtLayer, Between, Ending
<1>2. \A u \in Threads : Placed(turn'[u])
  BY <1>1 DEF Begun, Shape
<1> QED BY <1>2 DEF Begun, Shape

LEMMA ShapeStep ==
  ASSUME Shape, [Next]_vars
  PROVE  Shape'
<1>1. ASSUME NEW t \in Threads, NEW kind, NEW s \in Sessions, BeginTurn(t, kind, s)
      PROVE  Shape'
  <2>1. /\ Begun(t, s) /\ kind \in {"inbound", "outbound"}
        /\ \/ Fresh(turn'[t], "inspect", kind, s, 1)
           \/ Fresh(turn'[t], "advise", kind, s, 1) /\ kind = "inbound"
    BY <1>1, BeginTurnEffect
  <2>2. Placed(turn'[t])
    BY <2>1 DEF Fresh, Placed, AtLayer, Between, Ending
  <2> QED BY <2>1, <2>2, BegunShape
<1>2. ASSUME NEW t \in Threads, NEW s \in Sessions, BeginEnd(t, s) \/ BeginReset(t, s)
      PROVE  Shape'
  <2>1. Begun(t, s) /\ \/ Fresh(turn'[t], "remove", "end", s, 0)
                       \/ Fresh(turn'[t], "clear", "reset", s, 0)
    BY <1>2, BeginOtherEffect
  <2>2. Placed(turn'[t])
    BY <2>1 DEF Fresh, Placed, AtLayer, Between, Ending
  <2> QED BY <2>1, <2>2, BegunShape
<1>3. ASSUME NEW t \in Threads, InitSessionMemory(t)
      PROVE  Shape'
  <2> DEFINE tr == turn[t]
             a == turn'[t]
  <2>1. tr \in Turn /\ Placed(tr)
    BY TurnType
  <2>2. /\ Alone1(t) /\ tr.pc = "advise" /\ Keeps(a, tr) /\ a.pc = "inspect" /\ a.layer = tr.layer
        /\ a.result = tr.result /\ DOMAIN memories' = DOMAIN memories \cup {tr.session}
        /\ memories' \in [DOMAIN memories' -> MemoryState]
        /\ UNCHANGED <<session_states, watched, calls, ended, overlapped>>
    BY <1>3, InitEffect
  <2>3. Placed(a)
    BY <2>1, <2>2 DEF Keeps, Placed, AtLayer, Between, Ending
  <2>4. /\ DOMAIN session_states' \subseteq Sessions /\ DOMAIN memories' \subseteq Sessions
        /\ session_states' \in [DOMAIN session_states' -> SecurityState]
        /\ memories' \in [DOMAIN memories' -> MemoryState]
    BY <2>1, <2>2 DEF Shape, Placed
  <2> QED BY <2>2, <2>3, <2>4, OneMovedShape DEF Shape
<1>4. ASSUME NEW t \in Threads, Inspect(t)
      PROVE  Shape'
  <2> DEFINE tr == turn[t]
             a == turn'[t]
  <2>1. tr \in Turn /\ Placed(tr)
    BY TurnType
  <2>2. /\ Alone1(t) /\ tr.pc = "inspect" /\ tr.session \in Sessions /\ Keeps(a, tr) /\ a.pc = "decide"
        /\ a.layer = tr.layer /\ a.result = tr.result
        /\ session_states' \in [DOMAIN session_states' -> SecurityState]
        /\ DOMAIN session_states' \subseteq DOMAIN session_states \cup {tr.session}
        /\ UNCHANGED <<memories, watched, calls, ended, overlapped>>
    BY <1>4, InspectEffect
  <2>3. Placed(a)
    BY <2>1, <2>2 DEF Keeps, Placed, AtLayer, Between, Ending
  <2>4. /\ DOMAIN session_states' \subseteq Sessions /\ DOMAIN memories' \subseteq Sessions
        /\ session_states' \in [DOMAIN session_states' -> SecurityState]
        /\ memories' \in [DOMAIN memories' -> MemoryState]
    BY <2>1, <2>2 DEF Shape
  <2> QED BY <2>2, <2>3, <2>4, OneMovedShape DEF Shape
<1>5. ASSUME NEW t \in Threads, Decide(t)
      PROVE  Shape'
  <2> DEFINE tr == turn[t]
             a == turn'[t]
  <2>1. tr \in Turn /\ Placed(tr)
    BY TurnType
  <2> DEFINE state == current_state(tr.session)
  <2>2. /\ tr.pc \in AtLayer /\ state \in SecurityState /\ Keeps(a, tr) /\ Alone1(t)
        /\ \/ Outcome(a, tr, state)
           \/ /\ ~is_clean(tr.signal) /\ Warranted(tr.signal) > 1 /\ a.pc \in {"write", "answer"}
              /\ a.signal = tr.signal /\ a.layer = tr.layer /\ a.result = tr.result
           \/ a.pc = "answer" /\ a.layer = tr.layer /\ a.result = tr.result
        /\ UNCHANGED <<session_states, memories, watched, calls, ended, overlapped>>
    <3>1. Warranted(tr.signal) \in SecurityState
      BY WarrantedType
    <3> QED BY <1>5, <3>1, DecideEffect DEF AtLayer, SecurityState
  <2>3. Placed(a)
    <3>1. CASE Outcome(a, tr, state)
      <4> HIDE DEF tr, a, state
      <4> QED BY <2>1, <2>2, <3>1, OutcomePlaced
    <3>2. CASE ~Outcome(a, tr, state)
      BY <2>1, <2>2, <3>2 DEF Keeps, Placed, AtLayer, Between, Ending
    <3> QED BY <3>1, <3>2
  <2>4. /\ DOMAIN session_states' \subseteq Sessions /\ DOMAIN memories' \subseteq Sessions
        /\ session_states' \in [DOMAIN session_states' -> SecurityState]
        /\ memories' \in [DOMAIN memories' -> MemoryState]
    BY <2>2 DEF Shape
  <2> QED BY <2>2, <2>3, <2>4, OneMovedShape DEF Shape
<1>6. ASSUME NEW t \in Threads, Write(t)
      PROVE  Shape'
  <2> DEFINE tr == turn[t]
             a == turn'[t]
  <2>1. tr \in Turn /\ Placed(tr)
    BY TurnType
  <2>2. /\ Alone1(t) /\ tr.pc = "write" /\ Keeps(a, tr) /\ a.pc = "answer" /\ a.layer = tr.layer
        /\ a.result = tr.result
        /\ session_states' \in [DOMAIN session_states' -> SecurityState]
        /\ DOMAIN session_states' = DOMAIN session_states
        /\ UNCHANGED <<memories, watched, calls, ended, overlapped>>
    BY <1>6, WriteEffect
  <2>3. Placed(a)
    BY <2>1, <2>2 DEF Keeps, Placed, AtLayer, Between, Ending
  <2>4. /\ DOMAIN session_states' \subseteq Sessions /\ DOMAIN memories' \subseteq Sessions
        /\ session_states' \in [DOMAIN session_states' -> SecurityState]
        /\ memories' \in [DOMAIN memories' -> MemoryState]
    BY <2>1, <2>2 DEF Shape
  <2> QED BY <2>2, <2>3, <2>4, OneMovedShape DEF Shape
<1>7. ASSUME NEW t \in Threads, Answer(t)
      PROVE  Shape'
  <2> DEFINE tr == turn[t]
             a == turn'[t]
  <2>1. tr \in Turn /\ Placed(tr)
    BY TurnType
  <2> DEFINE state == IF tr.signal.modifier = 0 THEN 4 ELSE current_state(tr.session)
  <2>2. /\ tr.pc \in AtLayer /\ state \in SecurityState /\ Alone1(t) /\ Outcome(a, tr, state)
        /\ UNCHANGED <<session_states, memories, watched, calls, ended, overlapped>>
    BY <1>7, AnswerEffect DEF AtLayer
  <2>3. Placed(a)
    <3> HIDE DEF tr, a, state
    <3> QED BY <2>1, <2>2, OutcomePlaced
  <2>4. /\ DOMAIN session_states' \subseteq Sessions /\ DOMAIN memories' \subseteq Sessions
        /\ session_states' \in [DOMAIN session_states' -> SecurityState]
        /\ memories' \in [DOMAIN memories' -> MemoryState]
    BY <2>2 DEF Shape
  <2> QED BY <2>2, <2>3, <2>4, OneMovedShape DEF Shape
<1>8. ASSUME NEW t \in Threads, GovMem(t)
      PROVE  Shape'
  <2> DEFINE tr == turn[t]
             a == turn'[t]
  <2>1. tr \in Turn /\ Placed(tr)
    BY TurnType
  <2>2. /\ Alone1(t) /\ tr.pc = "govmem" /\ tr.kind = "inbound" /\ Keeps(a, tr)
        /\ \/ a.pc = "ingest" /\ a.result = "Quarantined"
           \/ a.pc = "inspect" /\ a.layer = 3 /\ a.result = "none"
        /\ UNCHANGED <<session_states, memories, watched, calls, ended, overlapped>>
    BY <1>8, GovMemEffect
  <2>3. Placed(a)
    BY <2>1, <2>2 DEF Keeps, Placed, AtLayer, Between, Ending, Refusal
  <2>4. /\ DOMAIN session_states' \subseteq Sessions /\ DOMAIN memories' \subseteq Sessions
        /\ session_states' \in [DOMAIN session_states' -> SecurityState]
        /\ memories' \in [DOMAIN memories' -> MemoryState]
    BY <2>1, <2>2 DEF Shape
  <2> QED BY <2>2, <2>3, <2>4, OneMovedShape DEF Shape
<1>9. ASSUME NEW t \in Threads, ReadDrs(t)
      PROVE  Shape'
  <2> DEFINE tr == turn[t]
             a == turn'[t]
  <2>1. tr \in Turn /\ Placed(tr)
    BY TurnType
  <2>2. /\ Alone1(t) /\ tr.pc = "drs" /\ tr.kind = "inbound" /\ Keeps(a, tr)
        /\ a.pc = "gate" /\ a.layer = 4 /\ a.result = "none"
        /\ UNCHANGED <<session_states, memories, watched, calls, ended, overlapped>>
    BY <1>9, DrsEffect
  <2>3. Placed(a)
    BY <2>1, <2>2 DEF Keeps, Placed, AtLayer, Between, Ending
  <2>4. /\ DOMAIN session_states' \subseteq Sessions /\ DOMAIN memories' \subseteq Sessions
        /\ session_states' \in [DOMAIN session_states' -> SecurityState]
        /\ memories' \in [DOMAIN memories' -> MemoryState]
    BY <2>1, <2>2 DEF Shape
  <2> QED BY <2>2, <2>3, <2>4, OneMovedShape DEF Shape
<1>10. ASSUME NEW t \in Threads, HaapGate(t)
      PROVE  Shape'
  <2> DEFINE tr == turn[t]
             a == turn'[t]
  <2>1. tr \in Turn /\ Placed(tr)
    BY TurnType
  <2>2. /\ Alone1(t) /\ tr.pc = "gate" /\ tr.kind = "inbound" /\ Keeps(a, tr)
        /\ \/ a.pc = "ingest" /\ a.result \in {"HaapGated", "ConstitutionalBlock"}
           \/ a.pc = "inspect" /\ a.layer = 4 /\ a.result = "none"
        /\ UNCHANGED <<session_states, memories, watched, calls, ended, overlapped>>
    BY <1>10, GateEffect
  <2>3. Placed(a)
    BY <2>1, <2>2 DEF Keeps, Placed, AtLayer, Between, Ending, Refusal
  <2>4. /\ DOMAIN session_states' \subseteq Sessions /\ DOMAIN memories' \subseteq Sessions
        /\ session_states' \in [DOMAIN session_states' -> SecurityState]
        /\ memories' \in [DOMAIN memories' -> MemoryState]
    BY <2>1, <2>2 DEF Shape
  <2> QED BY <2>2, <2>3, <2>4, OneMovedShape DEF Shape
<1>11. ASSUME NEW t \in Threads, Ingest(t)
      PROVE  Shape'
  <2> DEFINE tr == turn[t]
             a == turn'[t]
  <2>1. tr \in Turn /\ Placed(tr)
    BY TurnType
  <2>2. /\ Alone1(t) /\ tr.pc = "ingest" /\ tr.kind = "inbound" /\ Keeps(a, tr)
        /\ \/ /\ a.pc = "idle"
              /\ a.result = IF tr.result = "none" THEN enforcement_result(tr.state) ELSE tr.result
           \/ a.pc = "inspect" /\ a.layer = 5 /\ a.result = "none"
        /\ memories' = memories \/ memories' \in [DOMAIN memories -> MemoryState]
        /\ UNCHANGED <<session_states, watched, calls, ended, overlapped>>
    BY <1>11, IngestEffect
  <2>5. tr.state \in SecurityState /\ (tr.result = "none" => enforcement_result(tr.state) # "none")
    BY <2>1, EnforcementResult DEF Turn
  <2>3. Placed(a)
    BY <2>1, <2>2, <2>5 DEF Keeps, Placed, AtLayer, Between, Ending
  <2>4. /\ DOMAIN session_states' \subseteq Sessions /\ DOMAIN memories' \subseteq Sessions
        /\ session_states' \in [DOMAIN session_states' -> SecurityState]
        /\ memories' \in [DOMAIN memories' -> MemoryState]
    BY <2>1, <2>2 DEF Shape
  <2> QED BY <2>2, <2>3, <2>4, OneMovedShape DEF Shape
<1>12. ASSUME NEW t \in Threads, ClearState(t)
      PROVE  Shape'
  <2> DEFINE tr == turn[t]
             a == turn'[t]
  <2>1. tr \in Turn /\ Placed(tr)
    BY TurnType
  <2>2. /\ CutBy(t) /\ tr.pc = "clear" /\ tr.kind \in {"end", "reset"} /\ Keeps(a, tr)
        /\ a.pc = "unwatch" /\ a.result = "none"
        /\ DOMAIN session_states' = DOMAIN session_states
        /\ session_states' \in [DOMAIN session_states' -> SecurityState]
        /\ UNCHANGED <<memories, watched, calls, ended, overlapped>>
    BY <1>12, ClearEffect
  <2>3. Placed(a)
    BY <2>1, <2>2 DEF Keeps, Placed, AtLayer, Between, Ending
  <2>4. /\ DOMAIN session_states' \subseteq Sessions /\ DOMAIN memories' \subseteq Sessions
        /\ session_states' \in [DOMAIN session_states' -> SecurityState]
        /\ memories' \in [DOMAIN memories' -> MemoryState]
    BY <2>1, <2>2 DEF Shape
  <2> QED BY <2>2, <2>3, <2>4, CutShape DEF Shape
<1>13. ASSUME NEW t \in Threads, RemoveMemory(t)
      PROVE  Shape'
  <2> DEFINE tr == turn[t]
             a == turn'[t]
  <2>1. tr \in Turn /\ Placed(tr)
    BY TurnType
  <2>2. /\ CutBy(t) /\ tr.pc = "remove" /\ tr.kind \in {"end", "reset"} /\ Keeps(a, tr) /\ a.result = "none"
        /\ (a.pc = "forget" /\ tr.kind = "end") \/ a.pc = "idle"
        /\ DOMAIN memories' = DOMAIN memories \ {tr.session}
        /\ memories' \in [DOMAIN memories' -> MemoryState]
        /\ UNCHANGED <<session_states, watched, calls, ended, overlapped>>
    BY <1>13, RemoveEffect
  <2>3. Placed(a)
    BY <2>1, <2>2 DEF Keeps, Placed, AtLayer, Between, Ending
  <2>4. /\ DOMAIN session_states' \subseteq Sessions /\ DOMAIN memories' \subseteq Sessions
        /\ session_states' \in [DOMAIN session_states' -> SecurityState]
        /\ memories' \in [DOMAIN memories' -> MemoryState]
    BY <2>1, <2>2 DEF Shape
  <2> QED BY <2>2, <2>3, <2>4, CutShape DEF Shape
<1>14. ASSUME NEW t \in Threads, ForgetSession(t)
      PROVE  Shape'
  <2> DEFINE tr == turn[t]
             a == turn'[t]
  <2>1. tr \in Turn /\ Placed(tr)
    BY TurnType
  <2>2. /\ CutBy(t) /\ tr.pc = "forget" /\ tr.kind = "end"
        /\ Keeps(a, tr) /\ a.pc = "unwatch" /\ a.result = "none"
        /\ DOMAIN session_states' = DOMAIN session_states \ {tr.session}
        /\ session_states' \in [DOMAIN session_states' -> SecurityState]
        /\ UNCHANGED <<memories, watched, calls, ended, overlapped>>
    BY <1>14, ForgetEffect
  <2>3. Placed(a)
    BY <2>1, <2>2 DEF Keeps, Placed, AtLayer, Between, Ending
  <2>4. /\ DOMAIN session_states' \subseteq Sessions /\ DOMAIN memories' \subseteq Sessions
        /\ session_states' \in [DOMAIN session_states' -> SecurityState]
        /\ memories' \in [DOMAIN memories' -> MemoryState]
    BY <2>1, <2>2 DEF Shape
  <2> QED BY <2>2, <2>3, <2>4, CutShape DEF Shape
<1>15. ASSUME NEW t \in Threads, Watch(t)
       PROVE  Shape'
  <2> DEFINE tr == turn[t]
             a == turn'[t]
  <2>1. tr \in Turn /\ Placed(tr)
    BY TurnType
  <2>2. /\ Alone1(t) /\ tr.pc = "watch" /\ Keeps(a, tr) /\ a.layer = tr.layer /\ a.result = "none"
        /\ \/ tr.kind = "inbound" /\ tr.layer = 3 /\ a.pc = "govmem"
           \/ tr.kind = "outbound" /\ tr.layer = 2 /\ a.pc = "inspect"
        /\ watched' = watched \cup {tr.session} /\ tr.session \in Sessions
        /\ UNCHANGED <<session_states, memories, calls, ended, overlapped>>
    BY <1>15, WatchEffect
  <2>3. Placed(a)
    BY <2>1, <2>2 DEF Keeps, Placed, AtLayer, Between, Ending
  <2>4. /\ DOMAIN session_states' \subseteq Sessions /\ DOMAIN memories' \subseteq Sessions
        /\ session_states' \in [DOMAIN session_states' -> SecurityState]
        /\ memories' \in [DOMAIN memories' -> MemoryState]
        /\ watched' \subseteq Sessions /\ ended' \subseteq Sessions
    BY <2>2 DEF Shape
  <2> QED BY <2>2, <2>3, <2>4, OneMovedShape
<1>16. ASSUME NEW t \in Threads, ResetOverWatch(t)
       PROVE  Shape'
  <2> DEFINE tr == turn[t]
             a == turn'[t]
  <2>1. tr \in Turn /\ Placed(tr)
    BY TurnType
  <2>2. /\ Alone1(t) /\ tr.pc = "unwatch" /\ tr.kind \in {"end", "reset"} /\ tr.session \in Sessions
        /\ Keeps(a, tr) /\ a.result = "none" /\ a.pc \in {"idle", "remove"}
        /\ ended' \subseteq ended \cup {tr.session} /\ watched' = watched \ {tr.session}
        /\ UNCHANGED <<session_states, memories, calls, overlapped>>
    BY <1>16, ResetOverWatchEffect
  <2>3. Placed(a)
    BY <2>1, <2>2 DEF Keeps, Placed, AtLayer, Between, Ending
  <2>4. /\ DOMAIN session_states' \subseteq Sessions /\ DOMAIN memories' \subseteq Sessions
        /\ session_states' \in [DOMAIN session_states' -> SecurityState]
        /\ memories' \in [DOMAIN memories' -> MemoryState]
        /\ watched' \subseteq Sessions /\ ended' \subseteq Sessions
    BY <2>2 DEF Shape
  <2> QED BY <2>2, <2>3, <2>4, OneMovedShape
<1>17. CASE UNCHANGED vars
  BY <1>17 DEF vars, Shape
<1> QED BY <1>1, <1>2, <1>3, <1>4, <1>5, <1>6, <1>7, <1>8, <1>9, <1>10, <1>11, <1>12, <1>13,
           <1>14, <1>15, <1>16, <1>17 DEF Next, Continue

-----------------------------------------------------------------------------
(* A step reaches its own session only.                                    *)

\* The other threads are where they were; a turn of theirs may have been cut.
Rests(t) ==
  \A u \in Threads : u # t =>
    LET tr == turn[u]
        a  == turn'[u] IN
    /\ a.pc = tr.pc /\ a.kind = tr.kind /\ a.session = tr.session /\ a.layer = tr.layer
    /\ a.modifier = tr.modifier /\ a.signal = tr.signal /\ a.state = tr.state
    /\ a.result = tr.result
    /\ tr = Idle => a = Idle

\* The state of a session after a step.
After(s) == IF s \in DOMAIN session_states' THEN session_states'[s] ELSE 1

LEMMA AfterStep == \A s : current_state(s)' = After(s)
  BY DEF current_state, After

\* What the states of the sessions are after a step that leaves them alone.
LEMMA SameStates ==
  ASSUME session_states' = session_states
  PROVE  \A s : After(s) = current_state(s)
  BY DEF After, current_state

\* Of any other session the maps are as they were.
SameAt(q) ==
  /\ After(q) = current_state(q)
  /\ q \in DOMAIN session_states' <=> q \in DOMAIN session_states
  /\ q \in DOMAIN memories' <=> q \in DOMAIN memories
  /\ q \in DOMAIN memories => memories'[q] = memories[q]
  /\ q \in watched' <=> q \in watched
  /\ q \in ended' <=> q \in ended

Apart(t) ==
  /\ turn[t].pc # "idle" /\ turn[t].session \in Sessions /\ overlapped' = overlapped
  /\ turn'[t].session = turn[t].session /\ turn'[t].kind = turn[t].kind
  /\ Rests(t)
  /\ \A q : q # turn[t].session => SameAt(q)

LEMMA StepsApart ==
  ASSUME Shape, NEW t \in Threads, Continue(t)
  PROVE  Apart(t)
<1>1. Alone1(t) \/ CutBy(t) => Rests(t)
  BY DEF Alone1, CutBy, Rests
<1>2. turn[t].pc # "idle" => turn[t].session \in Sessions
  <2>1. Placed(turn[t])
    BY TurnType
  <2> QED BY <2>1 DEF Placed
<1>3. session_states' = session_states => \A q : After(q) = current_state(q)
  BY SameStates
<1>4. CASE InitSessionMemory(t)
  <2>1. \A q : q # turn[t].session =>
          /\ q \in DOMAIN memories' <=> q \in DOMAIN memories
          /\ q \in DOMAIN memories => memories'[q] = memories[q]
    <3>1. /\ DOMAIN memories' = DOMAIN memories \cup {turn[t].session}
          /\ \A q \in DOMAIN memories : memories'[q] = memories[q]
      BY <1>4, InitEffect
    <3> QED BY <3>1
  <2>2. /\ turn[t].pc = "advise" /\ Alone1(t) /\ Keeps(turn'[t], turn[t])
        /\ UNCHANGED <<session_states, watched, calls, ended, overlapped>>
    BY <1>4, InitEffect
  <2> QED BY <1>1, <1>2, <1>3, <2>1, <2>2 DEF Apart, SameAt, Keeps
<1>5. CASE Inspect(t)
  <2>1. /\ turn[t].pc = "inspect" /\ Alone1(t) /\ Keeps(turn'[t], turn[t])
        /\ UNCHANGED <<memories, watched, calls, ended, overlapped>>
    BY <1>5, InspectEffect
  <2>2. /\ DOMAIN session_states' \subseteq DOMAIN session_states \cup {turn[t].session}
        /\ DOMAIN session_states \subseteq DOMAIN session_states'
    BY <1>5, InspectEffect
  <2>3. \A q : After(q) = current_state(q)
    BY <1>5, AfterStep, InspectEffect
  <2> QED BY <1>1, <1>2, <2>1, <2>2, <2>3 DEF Apart, SameAt, Keeps
<1>6. CASE Decide(t)
  BY <1>1, <1>2, <1>3, <1>6, DecideEffect DEF Apart, SameAt, Keeps
<1>7. CASE Write(t)
  <2>1. \A q : q # turn[t].session => After(q) = current_state(q)
    BY <1>7, WriteEffect DEF current_state, After
  <2> QED BY <1>1, <1>2, <1>7, <2>1, WriteEffect DEF Apart, SameAt, Keeps
<1>8. CASE Answer(t)
  BY <1>1, <1>2, <1>3, <1>8, AnswerEffect DEF Apart, SameAt, Keeps
<1>9. CASE Watch(t)
  BY <1>1, <1>2, <1>3, <1>9, WatchEffect DEF Apart, SameAt, Keeps
<1>10. CASE GovMem(t)
  BY <1>1, <1>2, <1>3, <1>10, GovMemEffect DEF Apart, SameAt, Keeps
<1>11. CASE ReadDrs(t)
  BY <1>1, <1>2, <1>3, <1>11, DrsEffect DEF Apart, SameAt, Keeps
<1>12. CASE HaapGate(t)
  BY <1>1, <1>2, <1>3, <1>12, GateEffect DEF Apart, SameAt, Keeps
<1>13. CASE Ingest(t)
  <2>1. \A q : q # turn[t].session =>
          /\ q \in DOMAIN memories' <=> q \in DOMAIN memories
          /\ q \in DOMAIN memories => memories'[q] = memories[q]
    BY <1>13, IngestEffect
  <2> QED BY <1>1, <1>2, <1>3, <1>13, <2>1, IngestEffect DEF Apart, SameAt, Keeps
<1>14. CASE ClearState(t)
  BY <1>1, <1>2, <1>14, AfterStep, ClearEffect DEF Apart, SameAt, Keeps
<1>15. CASE RemoveMemory(t)
  BY <1>1, <1>2, <1>3, <1>15, RemoveEffect DEF Apart, SameAt, Keeps
<1>16. CASE ForgetSession(t)
  BY <1>1, <1>2, <1>16, AfterStep, ForgetEffect DEF Apart, SameAt, Keeps
<1>17. CASE ResetOverWatch(t)
  BY <1>1, <1>2, <1>3, <1>17, ResetOverWatchEffect DEF Apart, SameAt, Keeps
<1> QED BY <1>4, <1>5, <1>6, <1>7, <1>8, <1>9, <1>10, <1>11, <1>12, <1>13, <1>14, <1>15, <1>16,
           <1>17 DEF Continue

LEMMA OneBusyStep ==
  ASSUME Shape, OneBusy, [Next]_vars
  PROVE  OneBusy'
<1>1. ASSUME NEW t \in Threads, NEW s, Begun(t, s), turn'[t].session = s
      PROVE  OneBusy'
  <2> SUFFICES ASSUME NEW v \in Threads, NEW u \in Threads, u # v, turn'[v].pc # "idle",
                      turn'[u].session = turn'[v].session, turn'[v].session \notin overlapped'
               PROVE  turn'[u] = Idle
    BY DEF OneBusy
  <2>1. \A w \in Threads : w # t =>
          /\ turn[w].pc = "idle" => turn'[w] = Idle
          /\ turn[w].pc # "idle" => turn'[w] = turn[w]
    BY <1>1 DEF Begun
  <2>2. CASE v = t
    BY <1>1, <2>1, <2>2 DEF Begun
  <2>3. CASE v # t
    <3>1. turn'[v] = turn[v] /\ turn[v].pc # "idle"
      BY <2>1, <2>3, IdleTurn
    <3>2. CASE turn[v].session = s
      BY <1>1, <2>3, <3>1, <3>2 DEF Begun
    <3>3. CASE turn[v].session # s
      <4>1. turn[v].session \notin overlapped /\ u # t
        BY <1>1, <3>1, <3>3 DEF Begun
      <4>2. CASE turn[u].pc = "idle"
        BY <2>1, <4>1, <4>2
      <4>3. CASE turn[u].pc # "idle"
        BY <2>1, <3>1, <4>1, <4>3 DEF OneBusy
      <4> QED BY <4>2, <4>3
    <3> QED BY <3>2, <3>3
  <2> QED BY <2>2, <2>3
<1>2. ASSUME NEW t \in Threads, Continue(t)
      PROVE  OneBusy'
  <2> SUFFICES ASSUME NEW v \in Threads, NEW u \in Threads, u # v, turn'[v].pc # "idle",
                      turn'[u].session = turn'[v].session, turn'[v].session \notin overlapped'
               PROVE  turn'[u] = Idle
    BY DEF OneBusy
  <2>1. Apart(t)
    BY <1>2, StepsApart
  <2>2. /\ turn[v].pc # "idle" /\ turn[v].session \notin overlapped
        /\ turn[u].session = turn[v].session
    BY <2>1 DEF Apart, Rests
  <2>3. turn[u] = Idle
    BY <2>2 DEF OneBusy
  <2>4. u # t
    BY <2>1, <2>3, IdleTurn DEF Apart
  <2> QED BY <2>1, <2>3, <2>4 DEF Apart, Rests
<1>3. CASE UNCHANGED vars
  BY <1>3 DEF vars, OneBusy
<1>4. ASSUME NEW t \in Threads, NEW kind, NEW s \in Sessions, BeginTurn(t, kind, s)
      PROVE  OneBusy'
  <2>1. Begun(t, s) /\ \E pc \in {"inspect", "advise"} : Fresh(turn'[t], pc, kind, s, 1)
    BY <1>4, BeginTurnEffect
  <2>2. turn'[t].session = s
    BY <2>1 DEF Fresh
  <2> QED BY <1>1, <2>1, <2>2
<1>5. ASSUME NEW t \in Threads, NEW s \in Sessions, BeginEnd(t, s) \/ BeginReset(t, s)
      PROVE  OneBusy'
  <2>1. Begun(t, s) /\ turn'[t].session = s
    BY <1>5, BeginOtherEffect DEF Fresh
  <2> QED BY <1>1, <2>1
<1> QED BY <1>2, <1>3, <1>4, <1>5 DEF Next

-----------------------------------------------------------------------------
(* What layers have called for stays accounted for.                        *)

\* What is accounted for stays so when the state is not lowered to S1.
LEMMA AccountsKept ==
  ASSUME NEW tr \in Turn, NEW a, NEW state \in SecurityState, NEW later \in SecurityState,
         NEW entry \in BOOLEAN, NEW after \in BOOLEAN,
         Accounts(tr, state, entry), state > 1 => later > 1, entry => after,
         a.pc = tr.pc, a.layer = tr.layer, a.signal = tr.signal, a.state = tr.state,
         a.result = tr.result, a.peak = tr.peak
  PROVE  Accounts(a, later, after)
  BY DEF Accounts

LEMMA OneMovedAccounted ==
  ASSUME Shape, Shape', Accounted, NEW t \in Threads, Alone1(t),
         \A s : current_state(s) > 1 => After(s) > 1,
         DOMAIN session_states \subseteq DOMAIN session_states',
         Inbound(turn'[t]) /\ ~turn'[t].cut =>
           Accounts(turn'[t], After(turn'[t].session), turn'[t].session \in DOMAIN session_states')
  PROVE  Accounted'
<1>1. ASSUME NEW u \in Threads, Inbound(turn'[u]), ~turn'[u].cut
      PROVE  Accounts(turn'[u], After(turn'[u].session), turn'[u].session \in DOMAIN session_states')
  <2>1. CASE u = t
    BY <1>1, <2>1
  <2>2. CASE u # t
    <3> DEFINE tr == turn[u]
               s == tr.session
    <3>1. turn'[u] = tr /\ tr \in Turn
      BY <2>2, TurnType DEF Alone1
    <3>2. Accounts(tr, current_state(s), s \in DOMAIN session_states)
      BY <1>1, <3>1 DEF Accounted
    <3>3. current_state(s) \in SecurityState /\ After(s) \in SecurityState
      <4>1. After(s) \in SecurityState
        BY DEF Shape, After, SecurityState
      <4> QED BY <4>1, StateType
    <3>4. (current_state(s) > 1 => After(s) > 1)
          /\ (s \in DOMAIN session_states => s \in DOMAIN session_states')
      OBVIOUS
    <3>5. Accounts(tr, After(s), s \in DOMAIN session_states')
      <4> DEFINE e == s \in DOMAIN session_states
                 n == s \in DOMAIN session_states'
                 x == current_state(s)
                 y == After(s)
      <4>1. e \in BOOLEAN /\ n \in BOOLEAN /\ x \in SecurityState /\ y \in SecurityState
        BY <3>3
      <4>2. Accounts(tr, x, e) /\ (x > 1 => y > 1) /\ (e => n) /\ tr \in Turn
        BY <3>1, <3>2, <3>4
      <4> HIDE DEF e, n, x, y, tr
      <4>3. Accounts(tr, y, n)
        BY <4>1, <4>2, AccountsKept
      <4> QED BY <4>3 DEF y, n
    <3> HIDE DEF tr, s
    <3> QED BY <3>1, <3>5 DEF s
  <2> QED BY <2>1, <2>2
<1> QED BY <1>1 DEF Accounted, After, current_state

LEMMA CutAccounted ==
  ASSUME Shape, Shape', Accounted, NEW t \in Threads, CutBy(t), turn'[t].kind # "inbound",
         \A s : s # turn[t].session => After(s) = current_state(s),
         \A s : s # turn[t].session => (s \in DOMAIN session_states' <=> s \in DOMAIN session_states)
  PROVE  Accounted'
<1>1. ASSUME NEW u \in Threads, Inbound(turn'[u]), ~turn'[u].cut
      PROVE  Accounts(turn'[u], After(turn'[u].session), turn'[u].session \in DOMAIN session_states')
  <2> DEFINE tr == turn[u]
             a == turn'[u]
             s == tr.session
  <2>1. u # t
    BY <1>1 DEF Inbound
  <2>2. /\ a.pc = tr.pc /\ a.kind = tr.kind /\ a.session = s /\ a.layer = tr.layer
        /\ a.signal = tr.signal /\ a.state = tr.state /\ a.result = tr.result /\ a.peak = tr.peak
        /\ a.cut <=> (tr.cut \/ (s = turn[t].session /\ tr.pc # "idle"))
    BY <2>1 DEF CutBy
  <2>3. ~tr.cut /\ (s # turn[t].session \/ tr.pc = "idle") /\ Inbound(tr)
    BY <1>1, <2>2 DEF Inbound
  <2>4. Accounts(tr, current_state(s), s \in DOMAIN session_states)
    BY <2>3 DEF Accounted
  <2>5. tr \in Turn /\ current_state(s) \in SecurityState
    BY TurnType, StateType
  <2>6. CASE tr.pc = "idle"
    <3>1. tr.result = "Approved" => ~(tr.peak > 1)
      BY <2>4, <2>6 DEF Accounts
    <3> QED BY <2>2, <2>6, <3>1 DEF Accounts, AtLayer, Between
  <2>7. CASE s # turn[t].session
    <3>1. After(s) = current_state(s) /\ (s \in DOMAIN session_states' <=> s \in DOMAIN session_states)
      BY <2>7
    <3>2. Accounts(a, After(s), s \in DOMAIN session_states')
      <4> DEFINE e == s \in DOMAIN session_states
                 n == s \in DOMAIN session_states'
                 x == current_state(s)
                 y == After(s)
      <4>1. e \in BOOLEAN /\ n \in BOOLEAN /\ x \in SecurityState /\ y \in SecurityState
        BY <2>5, <3>1
      <4>2. Accounts(tr, x, e) /\ (x > 1 => y > 1) /\ (e => n)
        BY <2>4, <3>1
      <4> HIDE DEF e, n, x, y, tr, a, s
      <4>3. Accounts(a, y, n)
        BY <2>2, <2>5, <4>1, <4>2, AccountsKept
      <4> QED BY <4>3 DEF y, n
    <3> HIDE DEF tr, a, s
    <3> QED BY <2>2, <3>2 DEF a, s
  <2> QED BY <2>3, <2>6, <2>7
<1> QED BY <1>1 DEF Accounted, After, current_state

LEMMA BegunAccounted ==
  ASSUME Shape, Accounted, NEW t \in Threads, NEW s, Begun(t, s), turn'[t].peak = 1,
         turn'[t].pc \in {"inspect", "advise", "clear", "remove"}, turn'[t].layer # 5
  PROVE  Accounted'
<1>1. ASSUME NEW u \in Threads, Inbound(turn'[u]), ~turn'[u].cut
      PROVE  Accounts(turn'[u], After(turn'[u].session), turn'[u].session \in DOMAIN session_states')
  <2>1. CASE u = t
    BY <2>1 DEF Accounts, AtLayer, Between
  <2>2. CASE u # t
    <3>1. turn'[u] = turn[u] \/ turn'[u] = Idle
      BY <2>2 DEF Begun
    <3>2. turn'[u] = turn[u]
      BY <1>1, <3>1, IdleTurn DEF Inbound
    <3>3. session_states' = session_states
      BY DEF Begun
    <3> QED BY <1>1, <3>2, <3>3 DEF Accounted, After, current_state
  <2> QED BY <2>1, <2>2
<1> QED BY <1>1 DEF Accounted, After, current_state

\* An answer accounts for what its turn's layers have called for.
LEMMA OutcomeAccounts ==
  ASSUME NEW tr \in Turn, NEW a, NEW state \in SecurityState, NEW later, NEW entry,
         tr.pc \in AtLayer, Placed(tr), tr.kind = "inbound", Outcome(a, tr, state),
         tr.layer # 5 => (tr.peak > 1 => state > 1),
         tr.layer = 5 => tr.state > 1,
         state \notin {3, 4} => later = state
  PROVE  Accounts(a, later, entry)
<1>1. tr.layer \in 1..5 /\ tr.result = "none" /\ tr.state \in SecurityState
  BY DEF Placed, AtLayer, Turn
<1>2. a.peak = tr.peak
  BY DEF Outcome
<1>3. /\ state > 1 => enforcement_result(state) # "Approved"
      /\ tr.state > 1 => enforcement_result(tr.state) # "Approved"
      /\ enforcement_result(state) # "none"
  BY <1>1, EnforcementResult DEF SecurityState
<1>4. CASE tr.layer = 5 /\ a.pc = "idle" /\ a.result = enforcement_result(tr.state)
  BY <1>2, <1>3, <1>4 DEF Accounts, AtLayer, Between
<1>5. CASE tr.layer = 4 /\ a.pc = "ingest" /\ a.state = state
  BY <1>2, <1>5 DEF Accounts, AtLayer, Between
<1>6. CASE a.pc = "ingest" /\ state \in {3, 4} /\ a.result = enforcement_result(state)
  BY <1>2, <1>3, <1>6 DEF Accounts, AtLayer, Between
<1>7. CASE /\ tr.layer \in 1..3 /\ state \notin {3, 4} /\ a.layer = tr.layer + 1
           /\ a.pc \in {"watch", "drs", "inspect"}
  <2>1. later = state /\ (tr.peak > 1 => state > 1)
    BY <1>7
  <2> QED BY <1>2, <1>7, <2>1 DEF Accounts, AtLayer, Between
<1>8. NextPc(tr) \in {"watch", "drs", "inspect"}
  BY DEF NextPc
<1> QED BY <1>4, <1>5, <1>6, <1>7, <1>8 DEF Outcome

LEMMA AccountedStep ==
  ASSUME Shape, Shape', Accounted, [Next]_vars
  PROVE  Accounted'
<1>1. ASSUME NEW t \in Threads, NEW kind, NEW s \in Sessions, BeginTurn(t, kind, s)
      PROVE  Accounted'
  <2>1. /\ Begun(t, s)
        /\ \/ Fresh(turn'[t], "inspect", kind, s, 1)
           \/ Fresh(turn'[t], "advise", kind, s, 1)
    BY <1>1, BeginTurnEffect
  <2>2. turn'[t].peak = 1 /\ turn'[t].pc \in {"inspect", "advise"} /\ turn'[t].layer = 1
    BY <2>1 DEF Fresh
  <2> QED BY <2>1, <2>2, BegunAccounted
<1>2. ASSUME NEW t \in Threads, NEW s \in Sessions, BeginEnd(t, s) \/ BeginReset(t, s)
      PROVE  Accounted'
  <2>1. Begun(t, s) /\ \/ Fresh(turn'[t], "remove", "end", s, 0)
                       \/ Fresh(turn'[t], "clear", "reset", s, 0)
    BY <1>2, BeginOtherEffect
  <2>2. turn'[t].peak = 1 /\ turn'[t].pc \in {"clear", "remove"} /\ turn'[t].layer = 0
    BY <2>1 DEF Fresh
  <2> QED BY <2>1, <2>2, BegunAccounted
<1>3. ASSUME NEW t \in Threads, Inbound(turn[t]), ~turn[t].cut
      PROVE  Accounts(turn[t], current_state(turn[t].session), turn[t].session \in DOMAIN session_states)
  BY <1>3 DEF Accounted
<1>4. ASSUME NEW t \in Threads, InitSessionMemory(t)
      PROVE  Accounted'
  <2> DEFINE tr == turn[t]
             a == turn'[t]
  <2>1. /\ tr.pc = "advise" /\ Alone1(t) /\ Keeps(a, tr) /\ a.pc = "inspect"
        /\ a.layer = tr.layer /\ a.peak = tr.peak /\ session_states' = session_states
    BY <1>4, InitEffect
  <2>2. \A s : After(s) = current_state(s)
    BY <2>1, SameStates
  <2>3. ASSUME Inbound(a), ~a.cut
        PROVE  Accounts(a, After(a.session), a.session \in DOMAIN session_states')
    <3>1. Inbound(tr) /\ ~tr.cut /\ a.session = tr.session
      BY <2>1, <2>3 DEF Keeps, Inbound
    <3>2. tr.peak > 1 => current_state(tr.session) > 1
      BY <1>3, <2>1, <3>1 DEF Accounts, Between
    <3>3. a.peak > 1 => After(a.session) > 1
      BY <2>1, <2>2, <3>1, <3>2
    <3>4. a.layer # 5
      BY <2>1, TurnType DEF Placed
    <3> QED BY <2>1, <3>3, <3>4 DEF Accounts, AtLayer, Between
  <2> QED BY <2>1, <2>2, <2>3, OneMovedAccounted
<1>5. ASSUME NEW t \in Threads, Inspect(t)
      PROVE  Accounted'
  <2> DEFINE tr == turn[t]
             a == turn'[t]
  <2>1. /\ tr.pc = "inspect" /\ Alone1(t) /\ Keeps(a, tr) /\ a.pc = "decide"
        /\ a.layer = tr.layer /\ a.state = tr.state
        /\ a.peak = IF is_clean(a.signal) THEN tr.peak ELSE Larger(tr.peak, Warranted(a.signal))
        /\ DOMAIN session_states' = IF a.signal.modifier = 0 THEN DOMAIN session_states
                                    ELSE DOMAIN session_states \cup {tr.session}
        /\ \A q : current_state(q)' = current_state(q)
    BY <1>5, InspectEffect
  <2>2. \A s : After(s) = current_state(s)
    BY <2>1, AfterStep
  <2>3. ASSUME Inbound(a), ~a.cut
        PROVE  Accounts(a, After(a.session), a.session \in DOMAIN session_states')
    <3>1. Inbound(tr) /\ ~tr.cut /\ a.session = tr.session
      BY <2>1, <2>3 DEF Keeps, Inbound
    <3>2. Accounts(tr, current_state(tr.session), tr.session \in DOMAIN session_states)
      BY <1>3, <3>1
    <3>3. /\ tr.layer # 5 => (tr.peak > 1 => current_state(tr.session) > 1)
          /\ tr.layer = 5 => tr.state > 1
      BY <2>1, <3>2 DEF Accounts, AtLayer
    <3>4. tr.peak \in SecurityState /\ Warranted(a.signal) \in SecurityState
      BY TurnType, WarrantedType DEF Turn
    <3>5. tr.layer # 5 =>
            (a.peak > 1 => \/ After(a.session) > 1
                           \/ ~is_clean(a.signal) /\ Warranted(a.signal) > 1)
      BY <2>1, <2>2, <3>1, <3>3, <3>4 DEF Larger, SecurityState
    <3>6. a.session \in DOMAIN session_states' \/ a.signal.modifier = 0
      BY <2>1, <3>1
    <3> QED BY <2>1, <3>3, <3>5, <3>6 DEF Accounts, AtLayer, Between
  <2>4. DOMAIN session_states \subseteq DOMAIN session_states'
    BY <2>1
  <2> QED BY <2>1, <2>2, <2>3, <2>4, OneMovedAccounted
<1>6. ASSUME NEW t \in Threads, Decide(t)
      PROVE  Accounted'
  <2> DEFINE tr == turn[t]
             a == turn'[t]
             from == current_state(tr.session)
  <2>1. /\ tr.pc = "decide" /\ from \in SecurityState /\ Alone1(t) /\ Keeps(a, tr)
        /\ \/ is_clean(tr.signal) /\ Outcome(a, tr, from)
           \/ /\ a.pc = "write" /\ a.layer = tr.layer
              /\ a.signal = tr.signal /\ a.state = tr.state /\ a.peak = tr.peak
           \/ /\ Warranted(tr.signal) <= from
              /\ a.pc = "answer" /\ a.layer = tr.layer
              /\ a.signal = tr.signal /\ a.state = tr.state /\ a.peak = tr.peak
        /\ session_states' = session_states
    BY <1>6, DecideEffect
  <2>2. \A s : After(s) = current_state(s)
    BY <2>1, SameStates
  <2>3. ASSUME Inbound(a), ~a.cut
        PROVE  Accounts(a, After(a.session), a.session \in DOMAIN session_states')
    <3>1. Inbound(tr) /\ ~tr.cut /\ a.session = tr.session /\ After(a.session) = from
      BY <2>1, <2>2, <2>3 DEF Keeps, Inbound
    <3>2. Accounts(tr, from, tr.session \in DOMAIN session_states)
      BY <1>3, <3>1
    <3>3. /\ tr.layer # 5 =>
               /\ tr.peak > 1 => from > 1 \/ (~is_clean(tr.signal) /\ Warranted(tr.signal) > 1)
               /\ tr.session \in DOMAIN session_states \/ tr.signal.modifier = 0
          /\ tr.layer = 5 => tr.state > 1
      BY <2>1, <3>2 DEF Accounts, AtLayer
    <3>4. tr \in Turn /\ Placed(tr) /\ tr.pc \in AtLayer
      BY <2>1, TurnType DEF AtLayer
    <3>5. CASE is_clean(tr.signal) /\ Outcome(a, tr, from)
      <4>1. tr.kind = "inbound"
        BY <3>1 DEF Inbound
      <4>2. tr.layer # 5 => (tr.peak > 1 => from > 1)
        BY <3>3, <3>5
      <4> HIDE DEF tr, from
      <4> QED BY <2>1, <3>1, <3>3, <3>4, <3>5, <4>1, <4>2, OutcomeAccounts
    <3>6. CASE /\ a.pc = "write" /\ a.layer = tr.layer
               /\ a.signal = tr.signal /\ a.state = tr.state /\ a.peak = tr.peak
      <4>1. a.layer # 5 => a.session \in DOMAIN session_states' \/ a.signal.modifier = 0
        BY <2>1, <3>1, <3>3, <3>6
      <4> QED BY <3>3, <3>6, <4>1 DEF Accounts, AtLayer, Between
    <3>7. CASE /\ Warranted(tr.signal) <= from /\ a.pc = "answer" /\ a.layer = tr.layer
               /\ a.signal = tr.signal /\ a.state = tr.state /\ a.peak = tr.peak
      <4>1. Warranted(tr.signal) > 1 => from > 1
        BY <2>1, <3>7, WarrantedType DEF SecurityState
      <4>2. a.layer # 5 => (a.peak > 1 => After(a.session) > 1)
        BY <3>1, <3>3, <3>7, <4>1
      <4> QED BY <3>3, <3>7, <4>2 DEF Accounts, AtLayer, Between
    <3> QED BY <2>1, <3>5, <3>6, <3>7
  <2> QED BY <2>1, <2>2, <2>3, OneMovedAccounted
<1>7. ASSUME NEW t \in Threads, Write(t)
      PROVE  Accounted'
  <2> DEFINE tr == turn[t]
             a == turn'[t]
  <2>1. /\ tr.pc = "write" /\ Warranted(tr.signal) > 1 /\ Alone1(t) /\ Keeps(a, tr)
        /\ a.pc = "answer" /\ a.layer = tr.layer /\ a.signal = tr.signal /\ a.state = tr.state
        /\ DOMAIN session_states' = DOMAIN session_states
        /\ \A q \in DOMAIN session_states :
             session_states'[q] = IF q = tr.session THEN Warranted(tr.signal) ELSE session_states[q]
    BY <1>7, WriteEffect
  <2>2. /\ \A s : current_state(s) > 1 => After(s) > 1
        /\ tr.session \in DOMAIN session_states => After(tr.session) > 1
    BY <2>1 DEF After, current_state
  <2>3. ASSUME Inbound(a), ~a.cut
        PROVE  Accounts(a, After(a.session), a.session \in DOMAIN session_states')
    <3>1. Inbound(tr) /\ ~tr.cut /\ a.session = tr.session
      BY <2>1, <2>3 DEF Keeps, Inbound
    <3>2. Accounts(tr, current_state(tr.session), tr.session \in DOMAIN session_states)
      BY <1>3, <3>1
    <3>3. /\ tr.layer # 5 => tr.session \in DOMAIN session_states \/ tr.signal.modifier = 0
          /\ tr.layer = 5 => tr.state > 1
      BY <2>1, <3>2 DEF Accounts, AtLayer
    <3>4. a.layer # 5 => After(a.session) > 1 \/ a.signal.modifier = 0
      BY <2>1, <2>2, <3>1, <3>3
    <3> QED BY <2>1, <3>3, <3>4 DEF Accounts, AtLayer, Between
  <2> QED BY <2>1, <2>2, <2>3, OneMovedAccounted
<1>8. ASSUME NEW t \in Threads, Answer(t)
      PROVE  Accounted'
  <2> DEFINE tr == turn[t]
             a == turn'[t]
             state == IF tr.signal.modifier = 0 THEN 4 ELSE current_state(tr.session)
  <2>1. /\ tr.pc = "answer" /\ state \in SecurityState /\ Alone1(t) /\ Keeps(a, tr)
        /\ Outcome(a, tr, state) /\ session_states' = session_states
    BY <1>8, AnswerEffect
  <2>2. \A s : After(s) = current_state(s)
    BY <2>1, SameStates
  <2>3. ASSUME Inbound(a), ~a.cut
        PROVE  Accounts(a, After(a.session), a.session \in DOMAIN session_states')
    <3>1. /\ Inbound(tr) /\ ~tr.cut /\ a.session = tr.session
          /\ After(a.session) = current_state(tr.session)
      BY <2>1, <2>2, <2>3 DEF Keeps, Inbound
    <3>2. Accounts(tr, current_state(tr.session), tr.session \in DOMAIN session_states)
      BY <1>3, <3>1
    <3>3. /\ tr.layer # 5 => (tr.peak > 1 => state > 1)
          /\ tr.layer = 5 => tr.state > 1
      BY <2>1, <3>2 DEF Accounts, AtLayer
    <3>4. tr \in Turn /\ Placed(tr) /\ tr.pc \in AtLayer /\ tr.kind = "inbound"
      BY <2>1, <3>1, TurnType DEF AtLayer, Inbound
    <3>5. state \notin {3, 4} => After(a.session) = state
      BY <3>1
    <3> HIDE DEF tr, state
    <3> QED BY <2>1, <3>3, <3>4, <3>5, OutcomeAccounts
  <2> QED BY <2>1, <2>2, <2>3, OneMovedAccounted
<1>9. ASSUME NEW t \in Threads, Watch(t) \/ GovMem(t) \/ ReadDrs(t) \/ HaapGate(t)
      PROVE  Accounted'
  <2> DEFINE tr == turn[t]
             a == turn'[t]
  <2>1. /\ tr.pc \in Between /\ Alone1(t) /\ Keeps(a, tr) /\ a.peak = tr.peak
        /\ \/ a.pc = "ingest" /\ a.result # "none"
           \/ a.pc \in {"inspect", "govmem", "gate"} /\ a.layer = tr.layer
        /\ tr.layer # 5 /\ session_states' = session_states
    <3>1. CASE GovMem(t)
      BY <3>1, GovMemEffect DEF Between
    <3>2. CASE ReadDrs(t)
      BY <3>2, DrsEffect DEF Between
    <3>3. CASE HaapGate(t)
      BY <3>3, GateEffect DEF Between
    <3>4. CASE Watch(t)
      BY <3>4, WatchEffect DEF Between
    <3> QED BY <1>9, <3>1, <3>2, <3>3, <3>4
  <2>2. \A s : After(s) = current_state(s)
    BY <2>1, SameStates
  <2>3. ASSUME Inbound(a), ~a.cut
        PROVE  Accounts(a, After(a.session), a.session \in DOMAIN session_states')
    <3>1. Inbound(tr) /\ ~tr.cut /\ a.session = tr.session
      BY <2>1, <2>3 DEF Keeps, Inbound
    <3>2. tr.peak > 1 => current_state(tr.session) > 1
      BY <1>3, <2>1, <3>1 DEF Accounts
    <3>3. a.peak > 1 => After(a.session) > 1
      BY <2>1, <2>2, <3>1, <3>2
    <3> QED BY <2>1, <3>3 DEF Accounts, AtLayer, Between
  <2> QED BY <2>1, <2>2, <2>3, OneMovedAccounted
<1>10. ASSUME NEW t \in Threads, Ingest(t)
       PROVE  Accounted'
  <2> DEFINE tr == turn[t]
             a == turn'[t]
             told == IF tr.result = "none" THEN enforcement_result(tr.state) ELSE tr.result
  <2>1. /\ tr.pc = "ingest" /\ Alone1(t) /\ Keeps(a, tr) /\ session_states' = session_states
        /\ \/ a.pc = "idle" /\ a.peak = tr.peak /\ a.result = told
           \/ \E m : /\ a.peak = Larger(tr.peak, memory_floor(m))
                     /\ tr.result = "none" => memory_floor(m) <= tr.state
                     /\ a.pc = "idle" /\ a.result = told
           \/ \E m \in MemoryState : /\ memory_floor(m) > tr.state /\ a.pc = "inspect"
                                     /\ a.layer = 5 /\ a.state = memory_floor(m)
    <3> DEFINE s == tr.session
               m == memories'[s]
    <3>1. /\ tr.pc = "ingest" /\ Alone1(t) /\ Keeps(a, tr) /\ session_states' = session_states
          /\ \/ a.pc = "idle" /\ a.peak = tr.peak /\ a.result = told
             \/ /\ s \in DOMAIN memories /\ memories' \in [DOMAIN memories -> MemoryState]
                /\ a.peak = Larger(tr.peak, memory_floor(m))
                /\ \/ /\ memory_floor(m) > tr.state /\ a.pc = "inspect" /\ a.layer = 5
                      /\ a.state = memory_floor(m)
                   \/ /\ tr.result = "none" => memory_floor(m) <= tr.state
                      /\ a.pc = "idle" /\ a.result = told
      BY <1>10, IngestEffect
    <3>2. s \in DOMAIN memories /\ memories' \in [DOMAIN memories -> MemoryState] => m \in MemoryState
      OBVIOUS
    <3> HIDE DEF tr, a, told, s, m
    <3> QED BY <3>1, <3>2
  <2>2. \A s : After(s) = current_state(s)
    BY <2>1, SameStates
  <2>3. ASSUME Inbound(a), ~a.cut
        PROVE  Accounts(a, After(a.session), a.session \in DOMAIN session_states')
    <3>1. Inbound(tr) /\ ~tr.cut
      BY <2>1, <2>3 DEF Keeps, Inbound
    <3>2. tr.result = "none" => (tr.peak > 1 => tr.state > 1)
      BY <1>3, <2>1, <3>1 DEF Accounts
    <3>3. /\ tr.state \in SecurityState /\ tr.peak \in SecurityState
          /\ tr.result # "none" => tr.result # "Approved"
      BY <2>1, TurnType DEF Turn, Placed, Refusal
    <3>4. told = "Approved" => tr.result = "none" /\ tr.state = 1
      BY <3>3, EnforcementResult DEF SecurityState
    <3>5. CASE a.pc = "idle" /\ a.peak = tr.peak /\ a.result = told
      <4>1. a.result = "Approved" => ~(a.peak > 1)
        BY <3>2, <3>3, <3>4, <3>5 DEF SecurityState
      <4> QED BY <3>5, <4>1 DEF Accounts, AtLayer, Between
    <3>6. ASSUME NEW m, a.peak = Larger(tr.peak, memory_floor(m)),
                 tr.result = "none" => memory_floor(m) <= tr.state,
                 a.pc = "idle", a.result = told
          PROVE  Accounts(a, After(a.session), a.session \in DOMAIN session_states')
      <4>1. memory_floor(m) \in SecurityState
        BY DEF memory_floor, SecurityState
      <4>2. a.result = "Approved" => ~(a.peak > 1)
        BY <3>2, <3>3, <3>4, <3>6, <4>1 DEF SecurityState, Larger
      <4> QED BY <3>6, <4>2 DEF Accounts, AtLayer, Between
    <3>7. ASSUME NEW m \in MemoryState, memory_floor(m) > tr.state, a.pc = "inspect",
                 a.layer = 5, a.state = memory_floor(m)
          PROVE  Accounts(a, After(a.session), a.session \in DOMAIN session_states')
      <4>1. a.state > 1
        BY <3>3, <3>7, FloorType DEF SecurityState
      <4> QED BY <3>7, <4>1 DEF Accounts, AtLayer, Between
    <3> QED BY <2>1, <3>5, <3>6, <3>7
  <2> QED BY <2>1, <2>2, <2>3, OneMovedAccounted
<1>11. ASSUME NEW t \in Threads, ClearState(t)
       PROVE  Accounted'
  <2>1. /\ turn[t].kind \in {"end", "reset"} /\ CutBy(t) /\ Keeps(turn'[t], turn[t])
        /\ DOMAIN session_states' = DOMAIN session_states
        /\ \A q : q # turn[t].session => current_state(q)' = current_state(q)
    BY <1>11, ClearEffect
  <2>2. turn'[t].kind # "inbound" /\ \A s : s # turn[t].session => After(s) = current_state(s)
    BY <2>1, AfterStep DEF Keeps
  <2> QED BY <2>1, <2>2, CutAccounted
<1>12. ASSUME NEW t \in Threads, RemoveMemory(t)
       PROVE  Accounted'
  <2>1. /\ turn[t].kind \in {"end", "reset"} /\ CutBy(t) /\ Keeps(turn'[t], turn[t])
        /\ session_states' = session_states
    BY <1>12, RemoveEffect
  <2>2. turn'[t].kind # "inbound" /\ \A s : s # turn[t].session => After(s) = current_state(s)
    BY <2>1, SameStates DEF Keeps
  <2> QED BY <2>1, <2>2, CutAccounted
<1>13. ASSUME NEW t \in Threads, ForgetSession(t)
       PROVE  Accounted'
  <2>1. /\ turn[t].kind \in {"end", "reset"} /\ CutBy(t) /\ Keeps(turn'[t], turn[t])
        /\ DOMAIN session_states' = DOMAIN session_states \ {turn[t].session}
        /\ \A q : q # turn[t].session => current_state(q)' = current_state(q)
    BY <1>13, ForgetEffect
  <2>2. turn'[t].kind # "inbound" /\ \A s : s # turn[t].session => After(s) = current_state(s)
    BY <2>1, AfterStep DEF Keeps
  <2> QED BY <2>1, <2>2, CutAccounted
<1>14. ASSUME NEW t \in Threads, ResetOverWatch(t)
       PROVE  Accounted'
  <2>1. /\ turn[t].kind \in {"end", "reset"} /\ Alone1(t) /\ Keeps(turn'[t], turn[t])
        /\ session_states' = session_states
    BY <1>14, ResetOverWatchEffect
  <2>2. ~Inbound(turn'[t]) /\ \A s : After(s) = current_state(s)
    BY <2>1, SameStates DEF Keeps, Inbound
  <2> QED BY <2>1, <2>2, OneMovedAccounted
<1>15. CASE UNCHANGED vars
  BY <1>15 DEF vars, Accounted, current_state
<1> QED BY <1>1, <1>2, <1>4, <1>5, <1>6, <1>7, <1>8, <1>9, <1>10, <1>11, <1>12, <1>13, <1>14, <1>15
        DEF Next, Continue

-----------------------------------------------------------------------------
(* What holds of the only call of a session.                               *)

LEMMA RestingIsOver ==
  ASSUME NEW t \in Threads, turn'[t] = Idle
  PROVE  OverAt(turn[t])'
  BY IdleTurn DEF OverAt

\* A call stands where it stood when neither it nor the maps of its session change.
LEMMA StandsKept ==
  ASSUME Shape, NEW v \in Threads, SameAt(turn[v].session),
         LET tr == turn[v]
             a  == turn'[v] IN
         /\ a.pc = tr.pc /\ a.kind = tr.kind /\ a.session = tr.session /\ a.layer = tr.layer
         /\ a.modifier = tr.modifier /\ a.signal = tr.signal /\ a.state = tr.state
         /\ a.result = tr.result
  PROVE  /\ turn[v].pc # "idle" /\ AloneAt(turn[v]) => AloneAt(turn[v])'
         /\ OverAt(turn[v]) => OverAt(turn[v])'
<1> DEFINE tr == turn[v]
           a == turn'[v]
           s == tr.session
           state == current_state(s)
<1>1. current_state(turn[v].session)' = state
  BY DEF SameAt, After, current_state
<1>2. tr.pc \in AtLayer /\ tr.layer = 5 => tr.kind = "inbound"
  BY TurnType DEF Placed
<1>3. /\ s \in DOMAIN session_states' <=> s \in DOMAIN session_states
      /\ s \in DOMAIN memories' <=> s \in DOMAIN memories
      /\ s \in DOMAIN memories => memories'[s] = memories[s]
      /\ s \in ended' <=> s \in ended
  BY DEF SameAt
<1> HIDE DEF state
<1>4. tr.pc # "idle" /\ AloneAt(tr) => AloneAt(turn[v])'
  <2> SUFFICES ASSUME AloneAt(tr) PROVE AloneAt(turn[v])'
    OBVIOUS
  <2>1. /\ tr.kind = "inbound" /\ tr.pc # "advise" => memories'[s] = memories[s]
        /\ tr.pc \in AtLayer /\ tr.layer = 5 => memories'[s] = memories[s]
    BY <1>2, <1>3 DEF AloneAt, AtLayer
  <2>2. tr.pc \in {"drs", "gate"} \cup AtLayer => tr.pc # "advise"
    BY DEF AtLayer
  <2> QED BY <1>1, <1>2, <1>3, <2>1, <2>2 DEF AloneAt, state
<1>5. OverAt(tr) => OverAt(turn[v])'
  BY <1>1, <1>3 DEF OverAt, state
<1> QED BY <1>4, <1>5

LEMMA InTurnMoved ==
  ASSUME Shape, OneBusy, InTurn, NEW t \in Threads, Continue(t),
         turn[t].session \notin overlapped =>
           LET s == turn[t].session IN
           /\ turn'[t].pc # "idle" => AloneAt(turn[t])'
           /\ turn'[t].pc = "idle" => OverAt(turn[t])'
           /\ s \in DOMAIN memories' /\ memories'[s] = "Locked" =>
                \/ s \in DOMAIN session_states'
                \/ turn'[t].pc # "idle" /\ turn'[t].kind \in {"end", "reset"}
           /\ s \in ended' =>
                s \notin DOMAIN session_states' /\ s \notin DOMAIN memories' /\ s \notin watched'
  PROVE  InTurn'
<1>1. Apart(t)
  BY StepsApart
<1>2. ASSUME NEW v \in Threads, turn'[v].session \notin overlapped'
      PROVE  IF turn'[v].pc = "idle" THEN OverAt(turn[v])' ELSE AloneAt(turn[v])'
  <2>1. CASE v = t
    BY <1>1, <1>2, <2>1 DEF Apart
  <2>2. CASE v # t
    <3>1. /\ turn'[v].pc = turn[v].pc /\ turn'[v].session = turn[v].session
          /\ turn[v].session \notin overlapped
      BY <1>1, <1>2, <2>2 DEF Apart, Rests
    <3>2. CASE turn[v].session = turn[t].session
      <4>1. turn[v] = Idle
        BY <1>1, <2>2, <3>1, <3>2 DEF Apart, OneBusy
      <4>2. turn'[v] = Idle
        BY <1>1, <2>2, <4>1 DEF Apart, Rests
      <4> QED BY <4>2, RestingIsOver, IdleTurn
    <3>3. CASE turn[v].session # turn[t].session
      <4>1. SameAt(turn[v].session)
        BY <1>1, <3>3 DEF Apart
      <4>2. IF turn[v].pc = "idle" THEN OverAt(turn[v]) ELSE AloneAt(turn[v])
        BY <3>1 DEF InTurn
      <4>3. LET tr == turn[v]
                a  == turn'[v] IN
            /\ a.pc = tr.pc /\ a.kind = tr.kind /\ a.session = tr.session /\ a.layer = tr.layer
            /\ a.modifier = tr.modifier /\ a.signal = tr.signal /\ a.state = tr.state
            /\ a.result = tr.result
        BY <1>1, <2>2 DEF Apart, Rests
      <4>4. /\ turn[v].pc # "idle" /\ AloneAt(turn[v]) => AloneAt(turn[v])'
            /\ OverAt(turn[v]) => OverAt(turn[v])'
        BY <4>1, <4>3, StandsKept
      <4> QED BY <3>1, <4>2, <4>4
    <3> QED BY <3>2, <3>3
  <2> QED BY <2>1, <2>2
<1>3. ASSUME NEW q \in Sessions, q \notin overlapped'
      PROVE  Settled(q)'
  <2>1. CASE q = turn[t].session
    <3>1. /\ q \in DOMAIN memories' /\ memories'[q] = "Locked" =>
               \/ q \in DOMAIN session_states'
               \/ turn'[t].pc # "idle" /\ turn'[t].kind \in {"end", "reset"}
          /\ q \in ended' =>
               q \notin DOMAIN session_states' /\ q \notin DOMAIN memories' /\ q \notin watched'
      BY <1>1, <1>3, <2>1 DEF Apart
    <3>2. turn'[t].pc # "idle" /\ turn'[t].kind \in {"end", "reset"} => BeingEnded(q)'
      BY <1>1, <2>1 DEF Apart, BeingEnded
    <3> QED BY <3>1, <3>2 DEF Settled
  <2>2. CASE q # turn[t].session
    <3>1. SameAt(q) /\ Settled(q)
      BY <1>1, <1>3, <2>2 DEF Apart, InTurn
    <3>2. BeingEnded(q) => BeingEnded(q)'
      <4> SUFFICES ASSUME NEW u \in Threads, turn[u].pc # "idle",
                          turn[u].kind \in {"end", "reset"}, turn[u].session = q
                   PROVE  BeingEnded(q)'
        BY DEF BeingEnded
      <4>1. /\ turn'[u].pc = turn[u].pc /\ turn'[u].kind = turn[u].kind
            /\ turn'[u].session = turn[u].session
        BY <1>1, <2>2 DEF Apart, Rests
      <4> QED BY <4>1 DEF BeingEnded
    <3> QED BY <3>1, <3>2 DEF Settled, SameAt
  <2> QED BY <2>1, <2>2
<1> QED BY <1>2, <1>3 DEF InTurn

LEMMA InTurnBegun ==
  ASSUME Shape, InTurn, NEW t \in Threads, NEW s \in Sessions, Begun(t, s),
         turn'[t].session = s, turn'[t].pc # "idle",
         s \notin overlapped' => AloneAt(turn[t])',
         turn'[t].kind \in {"inbound", "outbound", "end", "reset"}
  PROVE  InTurn'
<1>1. ended' = ended \ {s} /\ memories' = memories /\ session_states' = session_states
      /\ watched' = watched
  BY DEF Begun
<1>2. \A q : q # s => SameAt(q)
  BY <1>1 DEF SameAt, After, current_state
<1>3. ASSUME NEW v \in Threads, turn'[v].session \notin overlapped'
      PROVE  IF turn'[v].pc = "idle" THEN OverAt(turn[v])' ELSE AloneAt(turn[v])'
  <2>1. CASE v = t
    BY <1>3, <2>1
  <2>2. CASE v # t /\ turn[v].pc = "idle"
    <3>1. turn'[v] = Idle
      BY <2>2 DEF Begun
    <3> QED BY <3>1, RestingIsOver, IdleTurn
  <2>3. CASE v # t /\ turn[v].pc # "idle"
    <3>1. turn'[v] = turn[v]
      BY <2>3 DEF Begun
    <3>2. turn[v].session # s
      BY <1>3, <2>3, <3>1 DEF Begun
    <3>3. turn[v].session \notin overlapped
      BY <1>3, <3>1, <3>2 DEF Begun
    <3>4. AloneAt(turn[v]) /\ SameAt(turn[v].session)
      BY <1>2, <2>3, <3>2, <3>3 DEF InTurn
    <3>5. AloneAt(turn[v])'
      BY <2>3, <3>1, <3>4, StandsKept
    <3> QED BY <2>3, <3>1, <3>5
  <2> QED BY <2>1, <2>2, <2>3
<1>4. ASSUME NEW q, BeingEnded(q)
      PROVE  BeingEnded(q)'
  <2>1. PICK u \in Threads : /\ turn[u].pc # "idle" /\ turn[u].kind \in {"end", "reset"}
                             /\ turn[u].session = q
    BY <1>4 DEF BeingEnded
  <2>2. turn'[u] = turn[u]
    BY <2>1 DEF Begun
  <2> QED BY <2>1, <2>2 DEF BeingEnded
<1>5. ASSUME NEW q \in Sessions, q \notin overlapped'
      PROVE  Settled(q)'
  <2>1. CASE q \notin overlapped
    <3>1. Settled(q)
      BY <2>1 DEF InTurn
    <3> QED BY <1>1, <1>4, <3>1 DEF Settled
  <2>2. CASE q \in overlapped
    <3>1. q = s /\ turn'[t].kind \in {"end", "reset"}
      BY <1>5, <2>2 DEF Begun
    <3>2. BeingEnded(q)'
      BY <3>1 DEF BeingEnded
    <3>3. q \notin ended'
      BY <1>1, <3>1
    <3> QED BY <3>2, <3>3 DEF Settled
  <2> QED BY <2>1, <2>2
<1> QED BY <1>3, <1>5 DEF InTurn

\* What is known of the session of a turn that is its only call.
LEMMA TurnAlone ==
  ASSUME Shape, OneBusy, InTurn, NEW t \in Threads, turn[t].pc # "idle",
         turn[t].session \notin overlapped, turn[t].kind \in {"inbound", "outbound"}
  PROVE  LET s == turn[t].session IN
         /\ AloneAt(turn[t]) /\ s \notin ended
         /\ s \in DOMAIN memories /\ memories[s] = "Locked" => s \in DOMAIN session_states
<1> DEFINE s == turn[t].session
<1>1. AloneAt(turn[t]) /\ s \notin ended
  BY DEF InTurn, AloneAt
<1>2. s \in Sessions
  BY TurnType DEF Placed
<1>3. ~BeingEnded(s)
  <2> SUFFICES ASSUME NEW u \in Threads, turn[u].pc # "idle",
                      turn[u].kind \in {"end", "reset"}, turn[u].session = s
               PROVE  FALSE
    BY DEF BeingEnded
  <2>1. u # t
    OBVIOUS
  <2>2. turn[u] = Idle
    BY <2>1 DEF OneBusy
  <2> QED BY <2>2, IdleTurn
<1>4. Settled(s)
  BY <1>2 DEF InTurn
<1> QED BY <1>1, <1>3, <1>4 DEF Settled

LEMMA BeginInTurn ==
  ASSUME Shape, InTurn, NEW t \in Threads, NEW kind, NEW s \in Sessions, BeginTurn(t, kind, s)
  PROVE  InTurn'
<1> DEFINE a == turn'[t]
<1>1. /\ Begun(t, s) /\ kind \in {"inbound", "outbound"}
      /\ Fresh(a, "inspect", kind, s, 1) \/ (Fresh(a, "advise", kind, s, 1) /\ kind = "inbound")
      /\ Fresh(a, "inspect", kind, s, 1) =>
           \/ s \in DOMAIN memories /\ a.modifier = threshold_modifier(memories[s])
           \/ kind = "outbound" /\ a.modifier = 100
  <2>1. ~(Fresh(a, "inspect", kind, s, 1) /\ Fresh(a, "advise", kind, s, 1))
    BY DEF Fresh
  <2> QED BY <2>1, BeginTurnEffect
<1>2. memories' = memories /\ session_states' = session_states /\ ended' = ended \ {s}
  BY <1>1 DEF Begun
<1>3. /\ a.kind = kind /\ a.session = s /\ a.layer = 1 /\ a.state = 1 /\ a.result = "none"
      /\ a.pc \in {"inspect", "advise"} /\ (a.pc = "advise" => kind = "inbound")
      /\ a.pc = "inspect" => Fresh(a, "inspect", kind, s, 1)
  BY <1>1 DEF Fresh
<1>4. ASSUME s \notin overlapped'
      PROVE  AloneAt(turn[t])'
  <2>0. s \notin overlapped /\ ~BeingEnded(s)
    <3>1. s \notin overlapped /\ \A u \in Threads : turn[u].pc = "idle" \/ turn[u].session # s
      BY <1>1, <1>3, <1>4 DEF Begun
    <3> QED BY <3>1 DEF BeingEnded
  <2>1. a.pc = "inspect" /\ kind = "inbound" => s \in DOMAIN memories
    BY <1>1, <1>3
  <2>2. a.pc = "inspect" /\ a.modifier = 0 => s \in DOMAIN session_states
    <3> SUFFICES ASSUME a.pc = "inspect", a.modifier = 0
                 PROVE  s \in DOMAIN session_states
      OBVIOUS
    <3>1. s \in DOMAIN memories /\ threshold_modifier(memories[s]) = 0
      BY <1>1, <1>3
    <3>2. memories[s] = "Locked"
      BY <3>1, ModifierType DEF Shape
    <3> QED BY <2>0, <3>1, <3>2 DEF InTurn, Settled
  <2> QED BY <1>2, <1>3, <2>1, <2>2 DEF AloneAt, AtLayer
<1>5. a.pc # "idle" /\ a.kind \in {"inbound", "outbound"}
  BY <1>1, <1>3
<1> QED BY <1>1, <1>3, <1>4, <1>5, InTurnBegun

LEMMA BeginOtherInTurn ==
  ASSUME Shape, InTurn, NEW t \in Threads, NEW s \in Sessions, BeginEnd(t, s) \/ BeginReset(t, s)
  PROVE  InTurn'
<1> DEFINE a == turn'[t]
<1>1. Begun(t, s) /\ \/ Fresh(a, "remove", "end", s, 0)
                     \/ Fresh(a, "clear", "reset", s, 0)
  BY BeginOtherEffect
<1>2. memories' = memories /\ session_states' = session_states /\ ended' = ended \ {s}
  BY <1>1 DEF Begun
<1>3. a.session = s /\ a.pc \in {"remove", "clear"} /\ a.kind \in {"end", "reset"}
  BY <1>1 DEF Fresh
<1>4. AloneAt(turn[t])'
  BY <1>2, <1>3 DEF AloneAt, AtLayer
<1>5. a.pc # "idle"
  BY <1>3
<1> QED BY <1>1, <1>3, <1>4, <1>5, InTurnBegun

LEMMA InitInTurn ==
  ASSUME Shape, OneBusy, InTurn, NEW t \in Threads, InitSessionMemory(t)
  PROVE  InTurn'
<1> DEFINE tr == turn[t]
           a == turn'[t]
           s == tr.session
<1>1. /\ tr.pc = "advise" /\ a.kind = tr.kind /\ a.session = s /\ a.pc = "inspect"
      /\ a.layer = tr.layer /\ a.modifier # 0 /\ a.state = tr.state
      /\ DOMAIN memories' = DOMAIN memories \cup {s}
      /\ \A q \in DOMAIN memories : memories'[q] = memories[q]
      /\ \A q \in DOMAIN memories' : q \notin DOMAIN memories => memories'[q] # "Locked"
      /\ session_states' = session_states /\ ended' = ended
  BY InitEffect DEF Keeps
<1>2. tr.layer = 1
  BY <1>1, TurnType DEF Placed
<1>3. ASSUME s \notin overlapped
      PROVE  /\ AloneAt(turn[t])' /\ s \notin ended'
             /\ s \in DOMAIN memories' /\ memories'[s] = "Locked" => s \in DOMAIN session_states'
  <2>1. /\ s \notin ended /\ tr.state = 1
        /\ s \in DOMAIN memories /\ memories[s] = "Locked" => s \in DOMAIN session_states
    <3>1. tr.kind = "inbound"
      BY <1>1, TurnType DEF Placed, Between
    <3>2. AloneAt(tr)
      BY <1>1, <1>3 DEF InTurn
    <3> QED BY <1>1, <1>3, <3>1, <3>2, TurnAlone DEF AloneAt
  <2>2. AloneAt(turn[t])'
    BY <1>1, <1>2, <2>1 DEF AloneAt, AtLayer
  <2> QED BY <1>1, <2>1, <2>2
<1> QED BY <1>1, <1>3, InTurnMoved DEF Continue

\* The signal of a memory floor is not clean, and has no modifier.
LEMMA FloorSignal ==
  ASSUME Shape, NEW t \in Threads, AloneAt(turn[t]), turn[t].pc \in AtLayer, turn[t].layer = 5
  PROVE  LET tr == turn[t] IN
         /\ tr.session \in DOMAIN memories /\ memories[tr.session] \in MemoryState
         /\ tr.kind = "inbound" /\ tr.session \in DOMAIN session_states
         /\ tr.state = memory_floor(memories[tr.session]) /\ tr.state > 1
         /\ ~is_clean(tr.signal) /\ tr.signal.modifier = 100
         /\ FloorMeets => Warranted(tr.signal) >= tr.state
<1> DEFINE tr == turn[t]
           m == memories[tr.session]
<1>1. tr.kind = "inbound"
  BY TurnType DEF Placed, AtLayer
<1>2. tr.session \in DOMAIN memories /\ tr.session \in DOMAIN session_states
  BY <1>1 DEF AloneAt, AtLayer
<1>3. tr.state = memory_floor(m) /\ tr.state > 1 /\ tr.signal = memory_signal(m)
  BY DEF AloneAt
<1>4. m \in MemoryState
  BY <1>2 DEF Shape
<1> HIDE DEF m
<1>5. /\ ~is_clean(memory_signal(m)) /\ memory_signal(m).modifier = 100
      /\ FloorMeets => Warranted(memory_signal(m)) >= memory_floor(m)
  BY <1>3, <1>4, FloorType
<1> QED BY <1>1, <1>2, <1>3, <1>4, <1>5 DEF m

LEMMA InspectInTurn ==
  ASSUME Shape, OneBusy, InTurn, NEW t \in Threads, Inspect(t)
  PROVE  InTurn'
<1> DEFINE tr == turn[t]
           a == turn'[t]
           s == tr.session
<1>1. /\ tr.pc = "inspect" /\ a.kind = tr.kind /\ a.session = s /\ a.pc = "decide"
      /\ a.layer = tr.layer /\ a.modifier = tr.modifier /\ a.state = tr.state
      /\ IF tr.kind = "inbound" /\ tr.layer = 5 THEN a.signal = tr.signal
         ELSE a.signal.modifier = tr.modifier
      /\ DOMAIN session_states' = IF a.signal.modifier = 0 THEN DOMAIN session_states
                                  ELSE DOMAIN session_states \cup {s}
      /\ memories' = memories /\ ended' = ended
  BY InspectEffect DEF Keeps
<1>2. tr.kind \in {"inbound", "outbound"} /\ (tr.layer = 5 => tr.kind = "inbound")
  BY <1>1, TurnType DEF Placed, AtLayer
<1>3. ASSUME s \notin overlapped
      PROVE  /\ AloneAt(turn[t])' /\ s \notin ended' /\ s \in DOMAIN session_states'
  <2>1. AloneAt(tr)
    BY <1>1, <1>3 DEF InTurn
  <2>2. /\ s \notin ended
        /\ tr.kind = "inbound" => s \in DOMAIN memories
        /\ (tr.layer = 1 /\ tr.modifier # 0) \/ s \in DOMAIN session_states
        /\ tr.layer # 5 => tr.state = 1
        /\ tr.kind = "inbound" /\ tr.layer = 3 => memories[s] # "Locked"
        /\ tr.layer = 5 => /\ tr.state = memory_floor(memories[s]) /\ tr.state > 1
                           /\ tr.signal = memory_signal(memories[s])
    BY <1>1, <1>2, <2>1 DEF AloneAt, AtLayer
  <2>3. s \in DOMAIN session_states'
    BY <1>1, <2>2
  <2>4. AloneAt(turn[t])'
    BY <1>1, <1>2, <2>2, <2>3 DEF AloneAt, AtLayer
  <2> QED BY <1>1, <2>2, <2>3, <2>4
<1> QED BY <1>1, <1>3, InTurnMoved DEF Continue

\* A step of a turn that leaves its session in the maps it was in.
LEMMA GlobalsInTurn ==
  ASSUME Shape, OneBusy, InTurn, NEW t \in Threads, turn[t].pc # "idle",
         turn[t].kind \in {"inbound", "outbound"}, turn[t].session \notin overlapped,
         memories' = memories, ended' = ended, DOMAIN session_states' = DOMAIN session_states
  PROVE  LET s == turn[t].session IN
         /\ s \notin ended'
         /\ s \in DOMAIN memories' /\ memories'[s] = "Locked" => s \in DOMAIN session_states'
  BY TurnAlone

\* What is known of a call that is alone and whose layer has been consulted.
LEMMA ConsultedAlone ==
  ASSUME Shape, InTurn, NEW t \in Threads, turn[t].session \notin overlapped,
         turn[t].pc \in {"decide", "write", "answer"}
  PROVE  LET tr == turn[t]
             s == tr.session IN
         /\ s \notin ended /\ s \in DOMAIN session_states
         /\ tr.kind = "inbound" => s \in DOMAIN memories
         /\ tr.layer # 5 => tr.state = 1
         /\ tr.kind = "inbound" /\ tr.layer = 3 => memories[s] # "Locked"
         /\ tr.layer = 5 => /\ tr.state = memory_floor(memories[s]) /\ tr.state > 1
                            /\ tr.signal = memory_signal(memories[s])
         /\ tr.pc = "answer" /\ tr.layer = 5 /\ FloorMeets => current_state(s) >= tr.state
         /\ tr.pc = "answer" /\ tr.signal.modifier = 0 => current_state(s) = 4
<1>1. AloneAt(turn[t])
  BY DEF InTurn
<1>2. turn[t].kind \in {"inbound", "outbound"}
  BY TurnType DEF Placed, AtLayer
<1> QED BY <1>1, <1>2 DEF AloneAt, AtLayer

\* An answer with the state the session is in leaves the call where it may stand.
LEMMA OutcomeInTurn ==
  ASSUME Shape, InTurn, NEW t \in Threads, turn[t].session \notin overlapped,
         turn[t].pc \in {"decide", "answer"},
         LET state == current_state(turn[t].session) IN
           /\ Outcome(turn'[t], turn[t], state)
           /\ turn[t].layer = 5 /\ FloorMeets => state >= turn[t].state,
         memories' = memories, ended' = ended, session_states' = session_states
  PROVE  /\ turn'[t].pc # "idle" => AloneAt(turn[t])'
         /\ turn'[t].pc = "idle" => OverAt(turn[t])'
<1> DEFINE tr == turn[t]
           a == turn'[t]
           s == tr.session
           state == current_state(s)
<1>1. /\ s \notin ended /\ s \in DOMAIN session_states
      /\ tr.kind = "inbound" => s \in DOMAIN memories
      /\ tr.layer # 5 => tr.state = 1
      /\ tr.kind = "inbound" /\ tr.layer = 3 => memories[s] # "Locked"
      /\ tr.layer = 5 => tr.state = memory_floor(memories[s]) /\ tr.state > 1
  BY ConsultedAlone
<1>2. /\ state \in SecurityState /\ tr.state \in SecurityState
      /\ tr.kind \in {"inbound", "outbound"} /\ tr.layer \in 1..5 /\ tr.result = "none"
  BY StateType, TurnType DEF Turn, Placed, AtLayer
<1>3. a.kind = tr.kind /\ a.session = s
  BY DEF Outcome
<1>4. current_state(turn[t].session)' = state
  BY <1>3 DEF current_state
<1>5. \A q \in SecurityState :
        /\ enforcement_result(q) \notin {"none", "ConstitutionalBlock"}
        /\ enforcement_result(q) = "Approved" => q = 1
        /\ enforcement_result(q) = "Restricted" => q = 2
  BY EnforcementResult DEF SecurityState
<1> HIDE DEF state
<1>6. CASE /\ tr.kind = "inbound" /\ tr.layer = 5
           /\ a.pc = "idle" /\ a.state = tr.state /\ a.result = enforcement_result(tr.state)
  <2>1. FloorMeets => a.state <= state
    BY <1>2, <1>6 DEF SecurityState, state
  <2>2. OverAt(turn[t])'
    BY <1>1, <1>2, <1>3, <1>4, <1>5, <1>6, <2>1 DEF OverAt
  <2> QED BY <1>6, <2>2
<1>7. CASE a.pc = "ingest" /\ a.state = state /\ a.result \in {"none", enforcement_result(state)}
           /\ tr.kind = "inbound"
  <2>1. AloneAt(turn[t])'
    BY <1>1, <1>2, <1>3, <1>4, <1>5, <1>7 DEF AloneAt, AtLayer, SecurityState
  <2> QED BY <1>7, <2>1
<1>8. CASE /\ tr.kind = "outbound" /\ a.pc = "idle" /\ a.state = state
           /\ a.result = enforcement_result(state)
  <2>1. OverAt(turn[t])'
    BY <1>2, <1>3, <1>4, <1>5, <1>8 DEF OverAt, SecurityState
  <2> QED BY <1>8, <2>1
<1>9. CASE /\ tr.layer \in 1..3 /\ state \notin {3, 4}
           /\ a.layer = tr.layer + 1 /\ a.state = tr.state
           /\ a.pc = NextPc(tr)
  <2>1. state <= 2
    BY <1>2, <1>9 DEF SecurityState
  <2>2. a.state = 1 /\ a.layer \in 2..4
    BY <1>1, <1>9
  <2>3. /\ a.pc \in {"watch", "drs", "inspect"}
        /\ tr.kind = "inbound" /\ a.pc = "drs" => memories[s] # "Locked"
        /\ tr.kind = "inbound" /\ a.pc = "inspect" => a.layer # 3
    BY <1>1, <1>9 DEF NextPc
  <2>4. AloneAt(turn[t])'
    BY <1>1, <1>2, <1>3, <1>4, <2>1, <2>2, <2>3 DEF AloneAt, AtLayer
  <2> QED BY <2>3, <2>4
<1> QED BY <1>2, <1>6, <1>7, <1>8, <1>9 DEF Outcome, state

LEMMA DecideInTurn ==
  ASSUME Shape, OneBusy, InTurn, NEW t \in Threads, Decide(t)
  PROVE  InTurn'
<1> DEFINE tr == turn[t]
           a == turn'[t]
           s == tr.session
           from == current_state(s)
<1>1. /\ tr.pc = "decide" /\ tr.kind \in {"inbound", "outbound"} /\ from \in SecurityState
      /\ a.kind = tr.kind /\ a.session = s
      /\ \/ is_clean(tr.signal) /\ Outcome(a, tr, from)
         \/ /\ a.pc = "write" /\ a.layer = tr.layer
            /\ a.signal = tr.signal /\ a.state = tr.state
         \/ /\ ~is_clean(tr.signal) /\ Warranted(tr.signal) <= from
            /\ a.pc = "answer" /\ a.layer = tr.layer
            /\ a.signal = tr.signal /\ a.state = tr.state
      /\ memories' = memories /\ ended' = ended /\ session_states' = session_states
  BY DecideEffect DEF Keeps
<1>2. ASSUME s \notin overlapped
      PROVE  /\ turn'[t].pc # "idle" => AloneAt(turn[t])'
             /\ turn'[t].pc = "idle" => OverAt(turn[t])'
  <2>1. /\ s \notin ended /\ s \in DOMAIN session_states
        /\ tr.kind = "inbound" => s \in DOMAIN memories
        /\ tr.layer # 5 => tr.state = 1
        /\ tr.kind = "inbound" /\ tr.layer = 3 => memories[s] # "Locked"
        /\ tr.layer = 5 => /\ tr.state = memory_floor(memories[s]) /\ tr.state > 1
                           /\ tr.signal = memory_signal(memories[s])
    BY <1>1, <1>2, ConsultedAlone
  <2>2. tr.layer = 5 => /\ ~is_clean(tr.signal) /\ tr.signal.modifier = 100
                        /\ FloorMeets => Warranted(tr.signal) >= tr.state
    <3>1. AloneAt(turn[t]) /\ turn[t].pc \in AtLayer
      BY <1>1, <1>2 DEF InTurn, AtLayer
    <3> QED BY <3>1, FloorSignal
  <2>3. CASE is_clean(tr.signal) /\ Outcome(a, tr, from)
    <3>1. tr.layer # 5
      BY <2>2, <2>3
    <3> QED BY <1>1, <1>2, <2>3, <3>1, OutcomeInTurn
  <2>4. current_state(turn[t].session)' = from
    BY <1>1 DEF current_state
  <2>5. CASE a.pc = "write" /\ a.layer = tr.layer /\ a.signal = tr.signal /\ a.state = tr.state
    <3>1. AloneAt(turn[t])'
      BY <1>1, <2>1, <2>4, <2>5 DEF AloneAt, AtLayer
    <3> QED BY <2>5, <3>1
  <2>6. CASE /\ Warranted(tr.signal) <= from /\ a.pc = "answer" /\ a.layer = tr.layer
             /\ a.signal = tr.signal /\ a.state = tr.state
    <3>1. Warranted(tr.signal) \in SecurityState /\ tr.state \in SecurityState
      BY WarrantedType, TurnType DEF Turn
    <3>2. tr.layer = 5 /\ FloorMeets => from >= tr.state
      BY <1>1, <2>2, <2>6, <3>1 DEF SecurityState
    <3>3. tr.signal.modifier = 0 => from = 4
      <4>1. tr.signal.modifier = 0 => Warranted(tr.signal) = 4
        BY DEF Warranted
      <4> QED BY <1>1, <2>6, <4>1 DEF SecurityState
    <3> HIDE DEF from
    <3>4. AloneAt(turn[t])'
      BY <1>1, <2>1, <2>4, <2>6, <3>2, <3>3 DEF AloneAt, AtLayer
    <3> QED BY <2>6, <3>4
  <2> QED BY <1>1, <2>3, <2>5, <2>6
<1>3. s \notin overlapped =>
        /\ s \notin ended'
        /\ s \in DOMAIN memories' /\ memories'[s] = "Locked" => s \in DOMAIN session_states'
  BY <1>1, GlobalsInTurn
<1> QED BY <1>2, <1>3, InTurnMoved DEF Continue

LEMMA WriteInTurn ==
  ASSUME Shape, OneBusy, InTurn, NEW t \in Threads, Write(t)
  PROVE  InTurn'
<1> DEFINE tr == turn[t]
           a == turn'[t]
           s == tr.session
           to == Warranted(tr.signal)
<1>1. /\ tr.pc = "write" /\ a.kind = tr.kind /\ a.session = s /\ a.pc = "answer"
      /\ a.layer = tr.layer /\ a.signal = tr.signal /\ a.state = tr.state
      /\ DOMAIN session_states' = DOMAIN session_states
      /\ \A q \in DOMAIN session_states :
           session_states'[q] = IF q = s THEN to ELSE session_states[q]
      /\ memories' = memories /\ ended' = ended
  BY WriteEffect DEF Keeps
<1>2. tr.kind \in {"inbound", "outbound"}
  BY <1>1, TurnType DEF Placed, AtLayer
<1>3. ASSUME s \notin overlapped
      PROVE  turn'[t].pc # "idle" /\ AloneAt(turn[t])'
  <2>1. /\ s \notin ended /\ s \in DOMAIN session_states
        /\ tr.kind = "inbound" => s \in DOMAIN memories
        /\ tr.layer # 5 => tr.state = 1
        /\ tr.kind = "inbound" /\ tr.layer = 3 => memories[s] # "Locked"
        /\ tr.layer = 5 => /\ tr.state = memory_floor(memories[s]) /\ tr.state > 1
                           /\ tr.signal = memory_signal(memories[s])
    BY <1>1, <1>3, ConsultedAlone
  <2>2. tr.layer = 5 /\ FloorMeets => to >= tr.state
    <3>1. AloneAt(turn[t]) /\ turn[t].pc \in AtLayer
      BY <1>1, <1>3 DEF InTurn, AtLayer
    <3> QED BY <3>1, FloorSignal
  <2>3. tr.signal.modifier = 0 => to = 4
    BY DEF Warranted
  <2>4. current_state(turn[t].session)' = to
    BY <1>1, <2>1 DEF current_state
  <2> HIDE DEF to
  <2>5. AloneAt(turn[t])'
    BY <1>1, <1>2, <2>1, <2>2, <2>3, <2>4 DEF AloneAt, AtLayer
  <2> QED BY <1>1, <2>5
<1>4. s \notin overlapped =>
        /\ s \notin ended'
        /\ s \in DOMAIN memories' /\ memories'[s] = "Locked" => s \in DOMAIN session_states'
  BY <1>1, <1>2, GlobalsInTurn
<1> QED BY <1>1, <1>3, <1>4, InTurnMoved DEF Continue

LEMMA AnswerInTurn ==
  ASSUME Shape, OneBusy, InTurn, NEW t \in Threads, Answer(t)
  PROVE  InTurn'
<1> DEFINE tr == turn[t]
           s == tr.session
           state == IF tr.signal.modifier = 0 THEN 4 ELSE current_state(s)
<1>1. /\ tr.pc = "answer" /\ tr.kind \in {"inbound", "outbound"} /\ Outcome(turn'[t], tr, state)
      /\ memories' = memories /\ ended' = ended /\ session_states' = session_states
  BY AnswerEffect
<1>2. ASSUME s \notin overlapped
      PROVE  /\ turn'[t].pc # "idle" => AloneAt(turn[t])'
             /\ turn'[t].pc = "idle" => OverAt(turn[t])'
  <2>1. /\ tr.layer = 5 /\ FloorMeets => current_state(s) >= tr.state
        /\ tr.signal.modifier = 0 => current_state(s) = 4
    BY <1>1, <1>2, ConsultedAlone
  <2>2. state = current_state(s)
    BY <2>1
  <2>3. Outcome(turn'[t], turn[t], current_state(turn[t].session))
    BY <1>1, <2>2
  <2> HIDE DEF state
  <2> QED BY <1>1, <1>2, <2>1, <2>3, OutcomeInTurn
<1>3. s \notin overlapped =>
        /\ s \notin ended'
        /\ s \in DOMAIN memories' /\ memories'[s] = "Locked" => s \in DOMAIN session_states'
  BY <1>1, GlobalsInTurn
<1> QED BY <1>2, <1>3, InTurnMoved DEF Continue

\* The steps of an inbound turn between two layers.
LEMMA BetweenInTurn ==
  ASSUME Shape, OneBusy, InTurn, NEW t \in Threads, Watch(t) \/ GovMem(t) \/ ReadDrs(t) \/ HaapGate(t)
  PROVE  InTurn'
<1> DEFINE tr == turn[t]
           a == turn'[t]
           s == tr.session
           state == current_state(s)
<1>1. /\ tr.pc \in {"watch", "govmem", "drs", "gate"} /\ tr.kind \in {"inbound", "outbound"}
      /\ tr.pc # "watch" => tr.kind = "inbound"
      /\ a.kind = tr.kind /\ a.session = s
      /\ memories' = memories /\ ended' = ended /\ session_states' = session_states
  BY WatchEffect, GovMemEffect, DrsEffect, GateEffect DEF Keeps
<1>2. state \in SecurityState /\ tr.state \in SecurityState
  BY StateType, TurnType DEF Turn
<1>3. current_state(turn[t].session)' = state
  BY <1>1 DEF current_state
<1>4. ASSUME s \notin overlapped
      PROVE  a.pc # "idle" /\ AloneAt(turn[t])'
  <2>1. /\ s \notin ended /\ s \in DOMAIN session_states /\ state <= 2
        /\ tr.kind = "inbound" => s \in DOMAIN memories
        /\ tr.pc \in {"watch", "govmem", "drs"} => tr.state = 1
        /\ tr.pc = "gate" => tr.state <= 2
        /\ tr.pc \in {"drs", "gate"} => memories[s] # "Locked"
    <3>1. AloneAt(tr)
      BY <1>1, <1>4 DEF InTurn
    <3> QED BY <1>1, <3>1 DEF AloneAt, AtLayer
  <2>2. CASE GovMem(t)
    <3>1. /\ a.state = tr.state /\ tr.state = 1
          /\ tr.kind = "inbound"
          /\ \/ a.pc = "ingest" /\ a.result = "Quarantined"
             \/ a.pc = "inspect" /\ a.layer = 3 /\ memories[s] # "Locked"
      BY <2>1, <2>2, GovMemEffect
    <3> HIDE DEF state
    <3> QED BY <1>1, <1>2, <1>3, <2>1, <3>1 DEF AloneAt, AtLayer, SecurityState
  <2>3. CASE ReadDrs(t)
    <3>1. a.pc = "gate" /\ a.state = state /\ memories[s] # "Locked" /\ tr.kind = "inbound"
      BY <2>1, <2>3, DrsEffect
    <3> HIDE DEF state
    <3> QED BY <1>1, <1>2, <1>3, <2>1, <3>1 DEF AloneAt, AtLayer, SecurityState
  <2>4. CASE HaapGate(t)
    <3>1. /\ a.state = 1 /\ tr.pc = "gate" /\ tr.kind = "inbound"
          /\ \/ a.pc = "ingest" /\ a.result = "HaapGated"
             \/ a.pc = "ingest" /\ session_drs(tr.state, s) >= 96
             \/ a.pc = "inspect" /\ a.layer = 4
      BY <2>4, GateEffect
    <3>2. tr.state \in {1, 2}
      BY <1>2, <2>1, <3>1 DEF SecurityState
    <3>3. session_drs(tr.state, s) < 96
      BY <2>1, <3>1, <3>2, DrsBelowOverride
    <3>4. session_drs(tr.state, s) \in Int
      <4>1. memories[s] \in MemoryState
        BY <2>1, <3>1 DEF Shape
      <4>2. pressure(memories[s]) \in 0..50
        BY <4>1 DEF pressure, MemoryState
      <4>3. <<0, 45, 75, 100>>[tr.state] \in 0..100
        BY <3>2
      <4> QED BY <2>1, <3>1, <4>2, <4>3 DEF session_drs
    <3>5. ~(session_drs(tr.state, s) >= 96)
      BY <3>3, <3>4
    <3> HIDE DEF state
    <3> QED BY <1>1, <1>2, <1>3, <2>1, <3>1, <3>5 DEF AloneAt, AtLayer, SecurityState
  <2>5. CASE Watch(t)
    <3>1. /\ a.state = 1
          /\ \/ a.pc = "govmem" /\ tr.kind = "inbound"
             \/ a.pc = "inspect" /\ a.layer = 2 /\ tr.kind = "outbound"
      BY <2>1, <2>5, WatchEffect
    <3> HIDE DEF state
    <3> QED BY <1>1, <1>2, <1>3, <2>1, <3>1 DEF AloneAt, AtLayer, SecurityState
  <2> QED BY <2>2, <2>3, <2>4, <2>5
<1>5. s \notin overlapped =>
        /\ s \notin ended'
        /\ s \in DOMAIN memories' /\ memories'[s] = "Locked" => s \in DOMAIN session_states'
  BY <1>1, GlobalsInTurn
<1> QED BY <1>4, <1>5, InTurnMoved DEF Continue

LEMMA IngestInTurn ==
  ASSUME Shape, OneBusy, InTurn, NEW t \in Threads, Ingest(t)
  PROVE  InTurn'
<1> DEFINE tr == turn[t]
           a == turn'[t]
           s == tr.session
           floor == memory_floor(memories'[s])
           told == IF tr.result = "none" THEN enforcement_result(tr.state) ELSE tr.result
           state == current_state(s)
<1>1. /\ tr.pc = "ingest" /\ tr.kind = "inbound" /\ a.kind = tr.kind /\ a.session = s
      /\ \/ s \notin DOMAIN memories
         \/ /\ s \in DOMAIN memories /\ memories' \in [DOMAIN memories -> MemoryState]
            /\ \A q \in DOMAIN memories : q # s => memories'[q] = memories[q]
            /\ \/ /\ floor > tr.state /\ a.pc = "inspect" /\ a.layer = 5 /\ a.state = floor
                  /\ a.signal = memory_signal(memories'[s])
               \/ /\ tr.result = "none" => floor <= tr.state
                  /\ a.pc = "idle" /\ a.state = tr.state /\ a.result = told
      /\ session_states' = session_states /\ ended' = ended
  BY IngestEffect DEF Keeps
<1>2. /\ tr.state \in SecurityState /\ state \in SecurityState /\ floor \in SecurityState
      /\ tr.result # "none" => tr.result \notin {"Approved", "Restricted"}
  <2>1. floor \in SecurityState
    BY DEF memory_floor, SecurityState
  <2> QED BY <1>1, <2>1, StateType, TurnType DEF Turn, Placed, Refusal
<1>3. current_state(turn[t].session)' = state
  BY <1>1 DEF current_state
<1>4. ASSUME s \notin overlapped
      PROVE  /\ a.pc # "idle" => AloneAt(turn[t])'
             /\ a.pc = "idle" => OverAt(turn[t])'
             /\ s \in DOMAIN session_states' /\ s \notin ended'
  <2>1. /\ s \notin ended /\ s \in DOMAIN session_states /\ s \in DOMAIN memories
        /\ tr.state <= state /\ tr.result # "ConstitutionalBlock"
    <3>1. AloneAt(tr)
      BY <1>1, <1>4 DEF InTurn
    <3> QED BY <1>1, <3>1 DEF AloneAt, AtLayer
  <2>2. /\ DOMAIN memories' = DOMAIN memories
        /\ \A q \in DOMAIN memories : q # s => memories'[q] = memories[q]
    BY <1>1, <2>1
  <2>3. s \in DOMAIN session_states' /\ s \notin ended'
    BY <1>1, <2>1
  <2>4. CASE /\ floor > tr.state /\ a.pc = "inspect" /\ a.layer = 5 /\ a.state = floor
             /\ a.signal = memory_signal(memories'[s])
    <3>1. a.state = memory_floor(memories'[s]) /\ a.state > 1
      BY <1>2, <2>4 DEF SecurityState
    <3> HIDE DEF state, floor
    <3>2. AloneAt(turn[t])'
      BY <1>1, <1>3, <2>1, <2>2, <2>4, <3>1 DEF AloneAt, AtLayer
    <3> QED BY <2>3, <2>4, <3>2
  <2>5. CASE /\ tr.result = "none" => floor <= tr.state
             /\ a.pc = "idle" /\ a.state = tr.state /\ a.result = told
    <3>1. /\ told # "ConstitutionalBlock"
          /\ told \in {"Approved", "Restricted"} =>
               tr.result = "none" /\ tr.state = IF told = "Approved" THEN 1 ELSE 2
      BY <1>2, <2>1, EnforcementResult DEF SecurityState
    <3>2. told \in {"Approved", "Restricted"} => floor <= IF told = "Approved" THEN 1 ELSE 2
      BY <2>5, <3>1
    <3> HIDE DEF state, told
    <3>3. OverAt(turn[t])'
      BY <1>1, <1>3, <2>1, <2>2, <2>5, <3>1, <3>2 DEF OverAt
    <3> QED BY <2>3, <2>5, <3>3
  <2> QED BY <1>1, <2>1, <2>4, <2>5
<1> QED BY <1>4, InTurnMoved DEF Continue

LEMMA EndingInTurn ==
  ASSUME Shape, OneBusy, InTurn, NEW t \in Threads,
         ClearState(t) \/ RemoveMemory(t) \/ ForgetSession(t) \/ ResetOverWatch(t)
  PROVE  InTurn'
<1> DEFINE tr == turn[t]
           a == turn'[t]
           s == tr.session
<1>1. /\ tr.pc \in Ending /\ a.kind \in {"end", "reset"} /\ a.kind = tr.kind
      /\ a.session = s /\ a.result = "none"
  BY ClearEffect, RemoveEffect, ForgetEffect, ResetOverWatchEffect DEF Keeps, Ending
<1>2. a.pc = "idle" => OverAt(turn[t])'
  BY <1>1 DEF OverAt
<1>3. ASSUME s \notin overlapped
      PROVE  /\ a.pc # "idle" => AloneAt(turn[t])'
             /\ a.pc = "idle" => s \notin DOMAIN memories'
             /\ s \in ended' => /\ s \notin DOMAIN session_states' /\ s \notin DOMAIN memories'
                               /\ s \notin watched'
  <2>1. /\ s \notin ended /\ (tr.pc = "forget" => s \notin DOMAIN memories)
        /\ tr.pc = "unwatch" /\ tr.kind = "end" =>
             s \notin DOMAIN memories /\ s \notin DOMAIN session_states
    <3>1. AloneAt(tr)
      BY <1>1, <1>3 DEF InTurn, Ending
    <3> QED BY <3>1 DEF AloneAt
  <2>2. CASE ClearState(t)
    <3>1. tr.pc = "clear" /\ a.pc = "unwatch" /\ ended' = ended
      BY <2>2, ClearEffect
    <3>2. a.kind = "reset"
      BY <1>1, <3>1, TurnType DEF Placed
    <3>3. AloneAt(turn[t])'
      BY <1>1, <2>1, <3>1, <3>2 DEF AloneAt, AtLayer
    <3> QED BY <2>1, <3>1, <3>3
  <2>3. CASE RemoveMemory(t)
    <3>1. /\ a.pc \in {"forget", "idle"} /\ s \notin DOMAIN memories' /\ ended' = ended
      BY <2>3, RemoveEffect
    <3>2. a.pc # "idle" => AloneAt(turn[t])'
      BY <1>1, <2>1, <3>1 DEF AloneAt, AtLayer
    <3> QED BY <2>1, <3>1, <3>2
  <2>4. CASE ForgetSession(t)
    <3>1. /\ tr.pc = "forget" /\ a.pc = "unwatch" /\ memories' = memories /\ ended' = ended
          /\ s \notin DOMAIN session_states'
      BY <2>4, ForgetEffect
    <3>2. AloneAt(turn[t])'
      BY <1>1, <2>1, <3>1 DEF AloneAt, AtLayer
    <3> QED BY <2>1, <3>1, <3>2
  <2>5. CASE ResetOverWatch(t) /\ tr.kind = "end"
    <3>1. /\ a.pc = "idle" /\ tr.pc = "unwatch" /\ s \notin watched'
          /\ memories' = memories /\ session_states' = session_states
      BY <2>5, ResetOverWatchEffect
    <3> QED BY <2>1, <2>5, <3>1
  <2>6. CASE ResetOverWatch(t) /\ tr.kind = "reset"
    <3>1. a.pc = "remove" /\ ended' = ended
      BY <2>6, ResetOverWatchEffect
    <3>2. AloneAt(turn[t])'
      BY <1>1, <2>1, <3>1 DEF AloneAt, AtLayer
    <3> QED BY <2>1, <3>1, <3>2
  <2> QED BY <1>1, <2>2, <2>3, <2>4, <2>5, <2>6
<1> QED BY <1>1, <1>2, <1>3, InTurnMoved DEF Continue

LEMMA InTurnStep ==
  ASSUME Shape, OneBusy, InTurn, [Next]_vars
  PROVE  InTurn'
<1>1. ASSUME NEW t \in Threads, Continue(t)
      PROVE  InTurn'
  BY <1>1, InitInTurn, InspectInTurn, DecideInTurn, WriteInTurn, AnswerInTurn, BetweenInTurn,
     IngestInTurn, EndingInTurn DEF Continue
<1>2. CASE UNCHANGED vars
  BY <1>2 DEF vars, InTurn, AloneAt, OverAt, Settled, BeingEnded, current_state
<1> QED BY <1>1, <1>2, BeginInTurn, BeginOtherInTurn DEF Next

-----------------------------------------------------------------------------
(* The theorems.                                                           *)

LEMMA InitIInv == Init => IInv
<1> SUFFICES ASSUME Init PROVE IInv
  OBVIOUS
<1>1. \A t \in Threads : turn[t] = Idle
  BY DEF Init
<1>2. Shape
  <2>1. Placed(Idle)
    BY IdleTurn DEF Placed, AtLayer, Between, Ending
  <2>2. 0 \in 0..MaxCalls
    BY CallsAssumption
  <2> QED BY <2>1, <2>2, IdleTurn DEF Init, Shape
<1>3. Accounted
  BY <1>1, IdleTurn DEF Accounted, Inbound
<1>4. OneBusy
  BY <1>1 DEF OneBusy
<1>5. InTurn
  <2>1. \A t \in Threads : turn[t].pc = "idle" /\ OverAt(turn[t])
    BY <1>1, IdleTurn DEF OverAt
  <2>2. \A s \in Sessions : Settled(s)
    BY DEF Settled, Init
  <2> QED BY <2>1, <2>2 DEF InTurn
<1> QED BY <1>2, <1>3, <1>4, <1>5 DEF IInv

LEMMA StepIInv == IInv /\ [Next]_vars => IInv'
  BY ShapeStep, AccountedStep, OneBusyStep, InTurnStep DEF IInv

\* What the layers of a turn have called for is in the session's state or still in the
\* turn's hand; while the calls of a session follow one another, each is where the maps
\* say it can be.
THEOREM Invariance == Spec => []IInv
  BY InitIInv, StepIInv, PTL DEF Spec

\* The session map, the memories and the calls keep their shapes; a turn is at a
\* layer of its kind whenever one is being consulted.
THEOREM TypeCorrect == Spec => []TypeOK
<1>1. IInv => TypeOK
  <2> SUFFICES ASSUME IInv PROVE TypeOK
    OBVIOUS
  <2>1. Shape
    BY DEF IInv
  <2>2. ASSUME NEW t \in Threads
        PROVE  /\ turn[t].pc \in {"inspect", "decide", "write", "answer"} =>
                    turn[t].layer \in DOMAIN Layers(turn[t].kind)
               /\ turn[t].pc = "idle" /\ turn[t].kind \in {"inbound", "outbound"} =>
                    turn[t].result # "none"
               /\ turn[t].state \in SecurityState /\ turn[t].peak \in SecurityState
    <3>1. turn[t] \in Turn /\ Placed(turn[t])
      BY <2>1, TurnType
    <3>2. \A kind : DOMAIN Layers(kind) = IF kind = "outbound" THEN 1..4 ELSE 1..5
      BY DEF Layers
    <3> QED BY <3>1, <3>2 DEF Turn, Placed, AtLayer
  <2> QED BY <2>1, <2>2 DEF TypeOK, Shape
<1> QED BY <1>1, Invariance, PTL

\* An approved turn that was not cut is one in which no layer and no memory floor
\* called for more than S1, whatever other turns of the session did meanwhile
\* (inbound_with_identity: execution authority is recorded only after every layer).
THEOREM ApprovalAccountsCorrect == Spec => []ApprovalAccountsForEveryLayer
<1>1. IInv => ApprovalAccountsForEveryLayer
  <2> SUFFICES ASSUME IInv, NEW t \in Threads, Over(t), Inbound(turn[t]),
                      turn[t].result = "Approved", ~turn[t].cut
               PROVE  turn[t].peak = 1
    BY DEF ApprovalAccountsForEveryLayer
  <2>1. ~(turn[t].peak > 1)
    BY DEF IInv, Accounted, Accounts, Over
  <2>2. turn[t].peak \in SecurityState
    BY TurnType DEF IInv, Turn
  <2> QED BY <2>1, <2>2 DEF SecurityState
<1> QED BY <1>1, Invariance, PTL

\* While the calls of a session follow one another, none of its turns is answered with
\* the constitutional block of the HAAP gate, whatever the calls of other sessions do: the
\* hard block has refused S3 and S4 before session_drs, and S2 and the heaviest memory add
\* up to less than the gate's override. It says nothing of a session of which two calls
\* have overlapped: a call that raises the state between the last hard block and
\* session_drs leads another into that block.
THEOREM NoConstitutionalBlockCorrect == Spec => []NoConstitutionalBlock
<1>1. IInv => NoConstitutionalBlock
  <2> SUFFICES ASSUME IInv, NEW t \in Threads, turn[t].session \notin overlapped
               PROVE  turn[t].result # "ConstitutionalBlock"
    BY DEF NoConstitutionalBlock, InOrder
  <2>1. CASE turn[t].pc = "idle"
    BY <2>1 DEF IInv, InTurn, OverAt
  <2>2. CASE turn[t].pc = "ingest"
    BY <2>2 DEF IInv, InTurn, AloneAt
  <2>3. CASE turn[t].pc \notin {"idle", "ingest"}
    BY <2>3, TurnType DEF IInv, Placed
  <2> QED BY <2>1, <2>2, <2>3
<1> QED BY <1>1, Invariance, PTL

\* An end_session which no other call of its session overlaps leaves nothing of the
\* session in the Arbiter's map, among the session memories and in OverWatch, until the
\* session is used again: whatever the calls of other sessions do, and also when calls
\* of this one had overlapped before. It is about these three maps; govmem's records of
\* mode v2 and the grants of the HAAP gate are not removed by end_session.
THEOREM EndClearsItsMapsCorrect == Spec => []EndClearsItsMaps
<1>1. IInv => EndClearsItsMaps
  <2> SUFFICES ASSUME IInv, NEW s \in ended, s \notin overlapped
               PROVE  s \notin DOMAIN session_states /\ s \notin DOMAIN memories /\ s \notin watched
    BY DEF EndClearsItsMaps
  <2>1. s \in Sessions
    BY DEF IInv, Shape
  <2> QED BY <2>1 DEF IInv, InTurn, Settled
<1> QED BY <1>1, Invariance, PTL

\* While the calls of a session follow one another, a turn whose last ingestion left the
\* memory in a state with a floor is not released above that floor.
THEOREM FloorBindsCorrect == Spec => []FloorBindsItsTurn
<1>1. IInv => FloorBindsItsTurn
  BY DEF IInv, InTurn, OverAt, FloorBindsItsTurn, InOrder, Over, Inbound, Released
<1> QED BY <1>1, Invariance, PTL

\* While the calls of a session follow one another, and with thresholds which the signals
\* of the memory floors meet (the defaults 70, 80 and 90 do), the state a turn is answered
\* with is the session's: the floor, which raises the answer, has reached the Arbiter too.
THEOREM AnswerIsKeptCorrect ==
  ASSUME FloorMeets
  PROVE  Spec => []AnswerIsKept
<1>1. IInv => AnswerIsKept
  BY DEF IInv, InTurn, OverAt, AnswerIsKept, InOrder, Over
<1> QED BY <1>1, Invariance, PTL

=============================================================================
