---------------------------- MODULE MemoryProofs ----------------------------
(***************************************************************************)
(* Proofs about the two tiers of session_memory.rs: the memory of a        *)
(* session (SessionMemory), for every set of signals and every window, and *)
(* the profiles of actors (StrategicMemory), for any number of threads,    *)
(* actors, sessions and restarts.                                          *)
(***************************************************************************)
EXTENDS SessionMemory, StrategicMemory, FiniteSetTheorems, SequenceTheorems, TLAPS

-----------------------------------------------------------------------------
(* The memory of a session: the inductive invariant.                       *)

\* How many turns of a sequence are of a class.
Seen(h, class) == Cardinality({i \in DOMAIN h : h[i].class = class})

\* The window is the end of the history.
Windowed ==
  /\ history \in Seq(TurnRecord)
  /\ mem.turn_count = Len(history)
  /\ mem.turns = Retained(history)

\* The counters count all of it.
CountedAll ==
  /\ mem.boundary_probes = Seen(history, "Boundary")
  /\ mem.extraction_attempts = Seen(history, "Extraction")
  /\ mem.authority_claims = Seen(history, "AuthorityClaim")
  /\ mem.obfuscation_count = Seen(history, "Obfuscated")

\* The state is the one of the threshold the threat has passed, but for the one that
\* velocity gives and the one that is advised at the start; either is below Locked.
StateOfThreat ==
  /\ mem.cumulative_threat \in Nat /\ mem.memory_state \in MemoryState
  /\ mem.escalated \in BOOLEAN
  /\ mem.memory_state = "Locked" => mem.cumulative_threat >= locked_threshold
  /\ mem.turn_count > 0 =>
       /\ mem.memory_state \in {ByThreshold(mem.cumulative_threat), "Elevated"}
       /\ mem.memory_state \in {"Escalated", "Locked"} => mem.escalated

SInv == Windowed /\ CountedAll /\ StateOfThreat

-----------------------------------------------------------------------------
(* Operators.                                                              *)

\* A sequence without its first k elements.
EndsWith(r, h, k) ==
  /\ k \in 0..Len(h) /\ Len(r) = Len(h) - k
  /\ \A i \in 1..Len(r) : r[i] = h[k + i]

\* How many of n elements are too many for a window of m.
Excess(n, m) == IF n > m THEN n - m ELSE 0

LEMMA ExcessOfLess ==
  ASSUME NEW n \in Nat, NEW m \in Nat, NEW w \in Nat, w <= m
  PROVE  Excess(n, w) = Excess(n, m) + Excess(n - Excess(n, m), w)
<1>1. CASE n > m
  <2>1. Excess(n, m) = n - m /\ n > w /\ n - (n - m) = m
    BY <1>1 DEF Excess
  <2>2. Excess(n, w) = n - w /\ Excess(m, w) = m - w
    BY <2>1 DEF Excess
  <2> QED BY <2>1, <2>2
<1>2. CASE ~(n > m)
  <2>1. Excess(n, m) = 0 /\ n - 0 = n
    BY <1>2 DEF Excess
  <2> QED BY <2>1 DEF Excess
<1> QED BY <1>1, <1>2

LEMMA ExcessOfMore ==
  ASSUME NEW n \in Nat, NEW m \in Nat \ {0}
  PROVE  Excess(n + 1, m) = Excess(n, m) + Excess(n + 1 - Excess(n, m), m)
<1>1. CASE n > m
  <2>1. Excess(n, m) = n - m /\ n + 1 - (n - m) = m + 1 /\ Excess(n + 1, m) = n + 1 - m
    BY <1>1 DEF Excess
  <2>2. Excess(m + 1, m) = 1
    BY DEF Excess
  <2> QED BY <2>1, <2>2
<1>2. CASE ~(n > m)
  <2>1. Excess(n, m) = 0 /\ n + 1 - 0 = n + 1
    BY <1>2 DEF Excess
  <2> QED BY <2>1 DEF Excess
<1> QED BY <1>1, <1>2

LEMMA SuffixSubSeq ==
  ASSUME NEW S, NEW h \in Seq(S), NEW k \in 0..Len(h)
  PROVE  SubSeq(h, k + 1, Len(h)) \in Seq(S) /\ EndsWith(SubSeq(h, k + 1, Len(h)), h, k)
<1>1. Len(h) \in Nat /\ k \in Nat /\ k <= Len(h)
  BY LenProperties
<1>2. \A i \in (k + 1)..Len(h) : h[i] \in S
  BY <1>1, ElementOfSeq
<1> DEFINE r == SubSeq(h, k + 1, Len(h))
<1>3. /\ r \in Seq(S) /\ Len(r) = (IF k + 1 <= Len(h) THEN Len(h) - (k + 1) + 1 ELSE 0)
      /\ \A i \in 1..(Len(h) - (k + 1) + 1) : r[i] = h[(k + 1) + i - 1]
  BY <1>1, <1>2, SubSeqProperties
<1> HIDE DEF r
<1>4. Len(r) = Len(h) - k
  BY <1>1, <1>3
<1>5. \A i \in 1..Len(r) : r[i] = h[k + i]
  <2> SUFFICES ASSUME NEW i \in 1..Len(r) PROVE r[i] = h[k + i]
    OBVIOUS
  <2>1. i \in 1..(Len(h) - (k + 1) + 1) /\ (k + 1) + i - 1 = k + i
    BY <1>1, <1>4
  <2> QED BY <1>3, <2>1
<1>6. r \in Seq(S) /\ EndsWith(r, h, k)
  BY <1>3, <1>4, <1>5 DEF EndsWith
<1> QED BY <1>6 DEF r

\* Two suffixes of the same length, of sequences that agree there, are one.
LEMMA SameSuffix ==
  ASSUME NEW S, NEW r \in Seq(S), NEW h \in Seq(S), NEW q \in Seq(S), NEW p \in Seq(S),
         NEW k, NEW j, NEW d, EndsWith(q, r, k), EndsWith(r, h, d), EndsWith(p, h, j), j = d + k
  PROVE  q = p
<1>1. Len(r) \in Nat /\ Len(h) \in Nat /\ Len(q) \in Nat /\ Len(p) \in Nat
  BY LenProperties
<1>2. k \in 0..Len(r) /\ d \in 0..Len(h) /\ Len(q) = Len(r) - k /\ Len(r) = Len(h) - d /\ Len(p) = Len(h) - j
  BY DEF EndsWith
<1>3. Len(q) = Len(p)
  BY <1>1, <1>2
<1>4. ASSUME NEW i \in 1..Len(q) PROVE q[i] = p[i]
  <2>1. k + i \in 1..Len(r) /\ d + (k + i) = j + i /\ i \in 1..Len(p)
    BY <1>1, <1>2, <1>3
  <2>2. q[i] = r[k + i] /\ r[k + i] = h[d + (k + i)] /\ p[i] = h[j + i]
    BY <2>1 DEF EndsWith
  <2> QED BY <2>1, <2>2
<1> QED BY <1>3, <1>4, SeqEqual

LEMMA RetainedEffect ==
  ASSUME MaxRetained \in Nat, NEW S, NEW h \in Seq(S)
  PROVE  /\ Retained(h) \in Seq(S)
         /\ EndsWith(Retained(h), h, Excess(Len(h), MaxRetained))
<1>1. Len(h) \in Nat
  BY LenProperties
<1>2. CASE Len(h) > MaxRetained
  <2> DEFINE k == Len(h) - MaxRetained
  <2>1. k \in 0..Len(h) /\ Excess(Len(h), MaxRetained) = k
    BY <1>1, <1>2 DEF Excess
  <2>2. Retained(h) = SubSeq(h, k + 1, Len(h))
    BY <1>2 DEF Retained
  <2> HIDE DEF k
  <2> QED BY <2>1, <2>2, SuffixSubSeq
<1>3. CASE ~(Len(h) > MaxRetained)
  <2>1. Retained(h) = h /\ Excess(Len(h), MaxRetained) = 0
    BY <1>3 DEF Retained, Excess
  <2>2. EndsWith(h, h, 0)
    BY <1>1 DEF EndsWith
  <2> QED BY <2>1, <2>2
<1> QED BY <1>2, <1>3

\* One more element at the end of both.
LEMMA SuffixAppend ==
  ASSUME NEW S, NEW r \in Seq(S), NEW h \in Seq(S), NEW x \in S, NEW k, EndsWith(r, h, k)
  PROVE  EndsWith(Append(r, x), Append(h, x), k)
<1> DEFINE a == Append(r, x)
           b == Append(h, x)
<1>1. Len(r) \in Nat /\ Len(h) \in Nat
  BY LenProperties
<1>2. Len(a) = Len(r) + 1 /\ a[Len(r) + 1] = x /\ \A i \in 1..Len(r) : a[i] = r[i]
  BY AppendProperties
<1>3. Len(b) = Len(h) + 1 /\ b[Len(h) + 1] = x /\ \A i \in 1..Len(h) : b[i] = h[i]
  BY AppendProperties
<1> HIDE DEF a, b
<1>4. k \in 0..Len(h) /\ Len(r) = Len(h) - k
  BY DEF EndsWith
<1>5. k \in 0..Len(b) /\ Len(a) = Len(b) - k
  BY <1>1, <1>2, <1>3, <1>4
<1>6. ASSUME NEW i \in 1..Len(a) PROVE a[i] = b[k + i]
  <2>1. CASE i = Len(r) + 1
    <3>1. k + i = Len(h) + 1
      BY <1>1, <1>4, <2>1
    <3> QED BY <1>2, <1>3, <2>1, <3>1
  <2>2. CASE i # Len(r) + 1
    <3>1. i \in 1..Len(r) /\ k + i \in 1..Len(h)
      BY <1>1, <1>2, <1>4, <2>2
    <3>2. r[i] = h[k + i]
      BY <3>1 DEF EndsWith
    <3> QED BY <1>2, <1>3, <3>1, <3>2
  <2> QED BY <2>1, <2>2
<1>7. EndsWith(a, b, k)
  BY <1>5, <1>6 DEF EndsWith
<1> QED BY <1>7 DEF a, b

\* Retaining as one goes comes to the same as retaining at the end.
LEMMA RetainedAppend ==
  ASSUME MaxRetained \in Nat \ {0}, NEW S, NEW h \in Seq(S), NEW x \in S
  PROVE  Retained(Append(Retained(h), x)) = Retained(Append(h, x))
<1> DEFINE r == Retained(h)
           d == Excess(Len(h), MaxRetained)
           a == Append(r, x)
           b == Append(h, x)
           k == Excess(Len(a), MaxRetained)
           j == Excess(Len(b), MaxRetained)
<1>1. r \in Seq(S) /\ EndsWith(r, h, d)
  BY RetainedEffect
<1>2. EndsWith(a, b, d) /\ a \in Seq(S) /\ b \in Seq(S)
  BY <1>1, SuffixAppend, AppendProperties
<1>3. Retained(a) \in Seq(S) /\ EndsWith(Retained(a), a, k)
  BY <1>2, RetainedEffect
<1>4. Retained(b) \in Seq(S) /\ EndsWith(Retained(b), b, j)
  BY <1>2, RetainedEffect
<1>5. Len(b) = Len(h) + 1 /\ Len(a) = Len(b) - d /\ Len(h) \in Nat
  BY <1>1, <1>2, AppendProperties, LenProperties DEF EndsWith
<1> HIDE DEF a, b
<1>6. j = d + k
  <2>0. d \in Nat
    BY <1>1, <1>5 DEF EndsWith
  <2>1. Len(a) = Len(h) + 1 - d
    <3> HIDE DEF d
    <3> QED BY <1>5, <2>0
  <2>2. Excess(Len(h) + 1, MaxRetained) = d + Excess(Len(h) + 1 - d, MaxRetained)
    BY <1>5, ExcessOfMore
  <2> HIDE DEF d
  <2> QED BY <1>5, <2>1, <2>2
<1> HIDE DEF j, k, d
<1>7. Retained(a) = Retained(b)
  BY <1>2, <1>3, <1>4, <1>6, SameSuffix
<1> QED BY <1>7 DEF a, b, r

LEMMA RecentEffect ==
  ASSUME Window \in Nat \ {0}, NEW S, NEW h \in Seq(S)
  PROVE  /\ Recent(h) \in Seq(S)
         /\ EndsWith(Recent(h), h, Excess(Len(h), Window))
<1> DEFINE k == Excess(Len(h), Window)
<1>1. Len(h) \in Nat
  BY LenProperties
<1>2. k \in 0..Len(h) /\ (IF Len(h) > Window THEN Len(h) - Window + 1 ELSE 1) = k + 1
  BY <1>1 DEF Excess
<1>3. Recent(h) = SubSeq(h, k + 1, Len(h))
  BY <1>2 DEF Recent
<1> HIDE DEF k
<1>4. Recent(h) \in Seq(S) /\ EndsWith(Recent(h), h, k)
  BY <1>2, <1>3, SuffixSubSeq
<1> QED BY <1>4 DEF k

\* The last turns of what is retained are the last turns.
LEMMA RecentOfRetained ==
  ASSUME NEW S, NEW h \in Seq(S)
  PROVE  Recent(Retained(h)) = Recent(h)
<1> DEFINE r == Retained(h)
           d == Excess(Len(h), MaxRetained)
           k == Excess(Len(r), Window)
           j == Excess(Len(h), Window)
<1>0. MaxRetained \in Nat /\ Window \in Nat \ {0} /\ Window <= MaxRetained /\ Len(h) \in Nat
  BY LenProperties, WindowAssumption
<1>1. r \in Seq(S) /\ EndsWith(r, h, d) /\ Len(r) = Len(h) - d
  BY <1>0, RetainedEffect DEF EndsWith
<1>2. Recent(r) \in Seq(S) /\ EndsWith(Recent(r), r, k)
  BY <1>0, <1>1, RecentEffect
<1>3. Recent(h) \in Seq(S) /\ EndsWith(Recent(h), h, j)
  BY <1>0, RecentEffect
<1>4. j = d + k
  BY <1>0, <1>1, ExcessOfLess
<1> HIDE DEF r, d, k, j
<1>5. Recent(r) = Recent(h)
  BY <1>1, <1>2, <1>3, <1>4, SameSuffix
<1> QED BY <1>5 DEF r

-----------------------------------------------------------------------------
(* Counting the turns of a class.                                          *)

LEMMA SeenNone ==
  ASSUME NEW class
  PROVE  Seen(<<>>, class) = 0
<1>1. {i \in DOMAIN <<>> : <<>>[i].class = class} = {}
  OBVIOUS
<1> QED BY <1>1, FS_EmptySet DEF Seen

LEMMA SeenAppend ==
  ASSUME NEW S, NEW h \in Seq(S), NEW x \in S, NEW class
  PROVE  /\ Seen(h, class) \in Nat
         /\ Seen(Append(h, x), class) = Seen(h, class) + (IF x.class = class THEN 1 ELSE 0)
<1> DEFINE A == {i \in DOMAIN h : h[i].class = class}
           B == {i \in DOMAIN Append(h, x) : Append(h, x)[i].class = class}
           n == Len(h)
<1>1. n \in Nat /\ DOMAIN h = 1..n
  BY LenProperties
<1>2. /\ DOMAIN Append(h, x) = 1..(n + 1) /\ Append(h, x)[n + 1] = x
      /\ \A i \in 1..n : Append(h, x)[i] = h[i]
  BY AppendProperties, LenProperties
<1>3. A \subseteq 1..n /\ IsFiniteSet(A)
  <2>1. IsFiniteSet(1..n)
    BY <1>1, FS_Interval
  <2>2. A \subseteq 1..n
    BY <1>1
  <2> QED BY <2>1, <2>2, FS_Subset
<1>4. Cardinality(A) \in Nat
  BY <1>3, FS_CardinalityType
<1>0. Seen(h, class) = Cardinality(A) /\ Seen(Append(h, x), class) = Cardinality(B)
  BY DEF Seen
<1>5. CASE x.class = class
  <2>1. B = A \cup {n + 1} /\ n + 1 \notin A
    BY <1>1, <1>2, <1>5
  <2>2. Cardinality(B) = Cardinality(A) + 1
    BY <1>3, <2>1, FS_AddElement
  <2> HIDE DEF A, B
  <2> QED BY <1>0, <1>4, <1>5, <2>2
<1>6. CASE x.class # class
  <2>1. B = A
    BY <1>1, <1>2, <1>6
  <2> HIDE DEF A, B
  <2> QED BY <1>0, <1>4, <1>6, <2>1
<1> QED BY <1>5, <1>6

-----------------------------------------------------------------------------
(* A turn.                                                                 *)

\* The threat of a turn is not negative.
LEMMA WeightedNat ==
  ASSUME NEW signal \in Signals, NEW class,
         NEW probes \in Nat, NEW extractions \in Nat
  PROVE  Weighted(signal, class, probes, extractions) \in Nat
<1>1. /\ signal.confidence \in 0..100
      /\ signal.severity \in {"None", "Low", "Medium", "High", "Critical"}
  BY SignalsAssumption
<1>2. severity_multiplier(signal.severity) \in {0, 30, 60, 100, 150}
  BY <1>1 DEF severity_multiplier
<1>3. signal.confidence * severity_multiplier(signal.severity) \in Nat
  BY <1>1, <1>2
<1>4. \A n \in Nat : n \div 10 \in Nat
  OBVIOUS
<1>5. (IF probes > boundary_probe_limit
         THEN 100 * (probes - boundary_probe_limit) ELSE 0) \in Nat
  BY DEF boundary_probe_limit
<1>6. /\ (IF class = "AuthorityClaim" THEN 200 ELSE 0) \in Nat
      /\ (IF extractions > 1 THEN 150 * extractions ELSE 0) \in Nat
  OBVIOUS
<1> QED BY <1>3, <1>4, <1>5, <1>6 DEF Weighted

\* Decay takes a twentieth.
LEMMA DecayedFacts ==
  ASSUME NEW threat \in Nat
  PROVE  /\ decayed(threat) \in Nat
         /\ threat >= 4000 => decayed(threat) >= 3800
BY DEF decayed

\* The thresholds.
LEMMA Thresholds ==
  ASSUME NEW threat \in Nat
  PROVE  /\ ByThreshold(threat) \in MemoryState
         /\ ByThreshold(threat) = "Locked" => threat >= locked_threshold
         /\ threat >= 2500 => ByThreshold(threat) \in {"Escalated", "Locked"}
<1> USE DEF locked_threshold, escalated_threshold,
            elevated_threshold, watching_threshold
<1>1. CASE threat >= 4000
  <2>2. threat \notin 2500..(4000 - 1)
    BY <1>1
  <2>3. threat \notin 1500..(2500 - 1)
    BY <1>1
  <2>4. threat \notin 800..(1500 - 1)
    BY <1>1
  <2>1. ByThreshold(threat) = "Locked"
    BY <1>1, <2>2, <2>3, <2>4 DEF ByThreshold
  <2> QED BY <1>1, <2>1 DEF MemoryState
<1>2. CASE threat \in 2500..3999
  <2>0. threat \in 2500..(4000 - 1) /\ ~(threat >= 4000)
        /\ threat \notin 1500..(2500 - 1) /\ threat \notin 800..(1500 - 1)
    BY <1>2
  <2>1. ByThreshold(threat) = "Escalated"
    BY <2>0 DEF ByThreshold
  <2> QED BY <1>2, <2>1 DEF MemoryState
<1>3. CASE threat \in 0..2499
  <2>0. ~(threat >= 4000) /\ threat \notin 2500..(4000 - 1)
    BY <1>3
  <2>1. CASE threat \in 1500..(2500 - 1)
    <3>1. threat \notin 800..(1500 - 1)
      BY <2>1
    <3>2. ByThreshold(threat) = "Elevated"
      BY <2>0, <2>1, <3>1 DEF ByThreshold
    <3> QED BY <1>3, <3>2 DEF MemoryState
  <2>2. CASE threat \in 800..(1500 - 1)
    <3>1. threat \notin 1500..(2500 - 1)
      BY <2>2
    <3>2. ByThreshold(threat) = "Watching"
      BY <2>0, <2>2, <3>1 DEF ByThreshold
    <3> QED BY <1>3, <3>2 DEF MemoryState
  <2>3. CASE threat \notin 1500..(2500 - 1) /\ threat \notin 800..(1500 - 1)
    <3>1. ByThreshold(threat) = "Clear"
      BY <2>0, <2>3 DEF ByThreshold
    <3> QED BY <1>3, <3>1 DEF MemoryState
  <2> QED BY <2>1, <2>2, <2>3
<1> QED BY <1>1, <1>2, <1>3

\* A turn in the memory: the threat that decayed and what the turn adds.
Threat(m, signal, class) ==
  decayed(m.cumulative_threat)
    + Weighted(signal, class,
        Counted(m, class, "Boundary", m.boundary_probes),
        Counted(m, class, "Extraction", m.extraction_attempts))
    + signal.amplifier

LEMMA IngestEffect ==
  ASSUME SInv, NEW signal \in Signals, NEW class \in Classes, Ingest(signal, class)
  PROVE  LET turn == [confidence |-> signal.confidence, class |-> class] IN
         /\ turn \in TurnRecord /\ history' = Append(history, turn)
         /\ mem'.turns = Retained(Append(mem.turns, turn))
         /\ mem'.turn_count = mem.turn_count + 1
         /\ mem'.boundary_probes = Counted(mem, class, "Boundary", mem.boundary_probes)
         /\ mem'.extraction_attempts
              = Counted(mem, class, "Extraction", mem.extraction_attempts)
         /\ mem'.authority_claims
              = Counted(mem, class, "AuthorityClaim", mem.authority_claims)
         /\ mem'.obfuscation_count
              = Counted(mem, class, "Obfuscated", mem.obfuscation_count)
         /\ mem'.cumulative_threat = Threat(mem, signal, class)
         /\ \E velocity : mem'.memory_state =
              compute_state(mem.memory_state, mem'.cumulative_threat, velocity,
                                    mem'.turn_count)
         /\ mem'.escalated = Flagged(mem, mem'.memory_state)
<1>1. signal.confidence \in 0..100 /\ class \in RequestClassification
  BY SignalsAssumption, ClassesAssumption
<1>2. mem' = ingest_signal(mem, signal, class)
  BY DEF Ingest
<1>3. history' = Append(history, [confidence |-> signal.confidence, class |-> class])
  BY DEF Ingest
<1> QED BY <1>1, <1>2, <1>3 DEF ingest_signal, Threat, TurnRecord

\* What a turn makes of the threat, the state and the flag.
LEMMA StateEffect ==
  ASSUME SInv, NEW signal \in Signals, NEW class \in Classes, Ingest(signal, class)
  PROVE  /\ mem'.cumulative_threat \in Nat
         /\ mem.cumulative_threat >= 4000 => mem'.cumulative_threat >= 3800
         /\ mem'.memory_state \in {ByThreshold(mem'.cumulative_threat), "Elevated"}
         /\ mem.memory_state # "Clear" =>
              mem'.memory_state = ByThreshold(mem'.cumulative_threat)
         /\ mem'.escalated = (mem.escalated \/ mem'.memory_state \in {"Escalated", "Locked"})
<1> DEFINE probes == Counted(mem, class, "Boundary", mem.boundary_probes)
           extractions == Counted(mem, class, "Extraction", mem.extraction_attempts)
           weighted == Weighted(signal, class, probes, extractions)
<1>1. mem.boundary_probes \in Nat /\ mem.extraction_attempts \in Nat
  <2>1. history \in Seq(TurnRecord)
    BY DEF SInv, Windowed
  <2>2. \A c : Seen(history, c) \in Nat
    <3> SUFFICES ASSUME NEW c PROVE Seen(history, c) \in Nat
      OBVIOUS
    <3>1. PICK x : x \in TurnRecord
      <4>1. [confidence |-> 0, class |-> "Benign"] \in TurnRecord
        BY DEF TurnRecord, RequestClassification
      <4> QED BY <4>1
    <3> QED BY <2>1, <3>1, SeenAppend
  <2> QED BY <2>2 DEF SInv, CountedAll
<1>2. probes \in Nat /\ extractions \in Nat
  BY <1>1 DEF Counted
<1> HIDE DEF probes, extractions
<1>3. weighted \in Nat
  BY <1>2, WeightedNat
<1>4. mem'.cumulative_threat = decayed(mem.cumulative_threat) + weighted + signal.amplifier
  BY IngestEffect DEF Threat, probes, extractions
<1> HIDE DEF weighted
<1>5. signal.amplifier \in Nat /\ mem.cumulative_threat \in Nat
  BY SignalsAssumption DEF SInv, StateOfThreat
<1>6. /\ decayed(mem.cumulative_threat) \in Nat
      /\ mem.cumulative_threat >= 4000 => decayed(mem.cumulative_threat) >= 3800
  BY <1>5, DecayedFacts
<1>7. mem'.cumulative_threat \in Nat /\ (mem.cumulative_threat >= 4000 => mem'.cumulative_threat >= 3800)
  BY <1>3, <1>4, <1>5, <1>6
<1>8. PICK velocity : mem'.memory_state =
        compute_state(mem.memory_state, mem'.cumulative_threat, velocity, mem'.turn_count)
  BY IngestEffect
<1>9. mem'.memory_state \in {ByThreshold(mem'.cumulative_threat), "Elevated"}
  BY <1>8 DEF compute_state
<1>10. mem.memory_state # "Clear" => mem'.memory_state = ByThreshold(mem'.cumulative_threat)
  BY <1>8 DEF compute_state
<1>11. mem'.escalated = (mem.escalated \/ mem'.memory_state \in {"Escalated", "Locked"})
  BY IngestEffect DEF Flagged
<1> QED BY <1>7, <1>9, <1>10, <1>11

-----------------------------------------------------------------------------
(* The invariant holds.                                                    *)

LEMMA SessionStart ==
  ASSUME SessionInit
  PROVE  SInv
<1>1. PICK advice \in MemoryState \ {"Locked"} :
        mem = [NewSession EXCEPT !.memory_state = advice]
  BY DEF SessionInit
<1>2. history = <<>>
  BY DEF SessionInit
<1>3. /\ mem.turns = <<>> /\ mem.turn_count = 0 /\ mem.cumulative_threat = 0
      /\ mem.boundary_probes = 0 /\ mem.extraction_attempts = 0
      /\ mem.authority_claims = 0 /\ mem.obfuscation_count = 0
      /\ mem.memory_state = advice /\ mem.escalated = FALSE
  BY <1>1 DEF NewSession
<1>4. Windowed
  <2>1. history \in Seq(TurnRecord) /\ Len(history) = 0
    BY <1>2, EmptySeq
  <2>2. Retained(history) = history
    BY <2>1, WindowAssumption DEF Retained
  <2> QED BY <1>2, <1>3, <2>1, <2>2 DEF Windowed
<1>5. CountedAll
  BY <1>2, <1>3, SeenNone DEF CountedAll
<1>6. StateOfThreat
  <2>1. advice \in MemoryState /\ advice # "Locked"
    BY <1>1
  <2>2. mem.memory_state \in MemoryState /\ mem.memory_state # "Locked"
    BY <1>3, <2>1
  <2>3. mem.cumulative_threat \in Nat
    BY <1>3
  <2>5. mem.escalated \in BOOLEAN
    BY <1>3
  <2>4. ~(mem.turn_count > 0)
    BY <1>3
  <2> QED BY <2>2, <2>3, <2>4, <2>5 DEF StateOfThreat
<1> QED BY <1>4, <1>5, <1>6 DEF SInv

LEMMA WindowedStep ==
  ASSUME SInv, NEW signal \in Signals, NEW class \in Classes, Ingest(signal, class)
  PROVE  Windowed' /\ CountedAll'
<1> DEFINE turn == [confidence |-> signal.confidence, class |-> class]
<1>1. /\ turn \in TurnRecord /\ history' = Append(history, turn)
      /\ mem'.turns = Retained(Append(mem.turns, turn))
      /\ mem'.turn_count = mem.turn_count + 1
  BY IngestEffect
<1>2. turn.class = class
  OBVIOUS
<1>3. mem'.boundary_probes = Counted(mem, class, "Boundary", mem.boundary_probes)
  BY IngestEffect
<1>4. mem'.extraction_attempts = Counted(mem, class, "Extraction", mem.extraction_attempts)
  BY IngestEffect
<1>5. mem'.authority_claims = Counted(mem, class, "AuthorityClaim", mem.authority_claims)
  BY IngestEffect
<1>6. mem'.obfuscation_count = Counted(mem, class, "Obfuscated", mem.obfuscation_count)
  BY IngestEffect
<1> HIDE DEF turn
<1>7. /\ history \in Seq(TurnRecord) /\ mem.turn_count = Len(history)
      /\ mem.turns = Retained(history)
  BY DEF SInv, Windowed
<1>8. MaxRetained \in Nat \ {0}
  BY WindowAssumption
<1>9. Windowed'
  <2>1. history' \in Seq(TurnRecord) /\ Len(history') = Len(history) + 1
    BY <1>1, <1>7, AppendProperties
  <2>2. mem'.turns = Retained(history')
    BY <1>1, <1>7, <1>8, RetainedAppend
  <2> QED BY <1>1, <1>7, <2>1, <2>2 DEF Windowed
<1>10. ASSUME NEW c
       PROVE  Seen(history', c) = Counted(mem, class, c, Seen(history, c))
  BY <1>1, <1>2, <1>7, SeenAppend DEF Counted
<1>11. CountedAll'
  BY <1>3, <1>4, <1>5, <1>6, <1>10 DEF SInv, CountedAll
<1> QED BY <1>9, <1>11

LEMMA StateOfThreatStep ==
  ASSUME SInv, NEW signal \in Signals, NEW class \in Classes, Ingest(signal, class)
  PROVE  StateOfThreat'
<1> DEFINE threat == mem'.cumulative_threat
<1>1. /\ threat \in Nat
      /\ mem'.memory_state \in {ByThreshold(threat), "Elevated"}
      /\ mem'.escalated = (mem.escalated \/ mem'.memory_state \in {"Escalated", "Locked"})
  BY StateEffect
<1>2. /\ ByThreshold(threat) \in MemoryState
      /\ ByThreshold(threat) = "Locked" => threat >= locked_threshold
  BY <1>1, Thresholds
<1>3. mem'.memory_state \in MemoryState
  BY <1>1, <1>2 DEF MemoryState
<1>4. mem'.memory_state = "Locked" => threat >= locked_threshold
  BY <1>1, <1>2
<1>5. mem'.escalated \in BOOLEAN
  BY <1>1
<1>6. mem'.memory_state \in {"Escalated", "Locked"} => mem'.escalated
  BY <1>1
<1> QED BY <1>1, <1>3, <1>4, <1>5, <1>6 DEF StateOfThreat

LEMMA SessionStep ==
  ASSUME SInv, [SessionNext]_sessionVars
  PROVE  SInv'
<1>1. CASE SessionNext
  <2>1. PICK signal \in Signals, class \in Classes : Ingest(signal, class)
    BY <1>1 DEF SessionNext
  <2> QED BY <2>1, WindowedStep, StateOfThreatStep DEF SInv
<1>2. CASE UNCHANGED sessionVars
  BY <1>2 DEF sessionVars, SInv, Windowed, CountedAll, StateOfThreat
<1> QED BY <1>1, <1>2

\* The invariant of a session's memory, for any window, signals and classes.
THEOREM SessionInvariance == SessionSpec => []SInv
<1>1. SessionInit => SInv
  BY SessionStart
<1>2. SInv /\ [SessionNext]_sessionVars => SInv'
  BY SessionStep
<1> QED BY <1>1, <1>2, PTL DEF SessionSpec

\* Dropping turns from the window loses nothing of what the counters, the trajectory
\* and the behavior hash say of a session, however long it is.
THEOREM WindowLosesNothingCorrect == SessionSpec => []WindowLosesNothing
<1>1. SInv => WindowLosesNothing
  <2> SUFFICES ASSUME SInv PROVE WindowLosesNothing
    OBVIOUS
  <2>1. /\ history \in Seq(TurnRecord) /\ mem.turns = Retained(history)
        /\ MaxRetained \in Nat
    BY WindowAssumption DEF SInv, Windowed
  <2>2. CountersCoverSession
    <3> DEFINE S(c) == Cardinality({i \in DOMAIN history : history[i].class = c})
    <3>1. \A c : Seen(history, c) = S(c)
      BY DEF Seen
    <3>2. /\ mem.boundary_probes = S("Boundary") /\ mem.extraction_attempts = S("Extraction")
          /\ mem.authority_claims = S("AuthorityClaim") /\ mem.obfuscation_count = S("Obfuscated")
      <4> HIDE DEF S
      <4> QED BY <3>1 DEF SInv, CountedAll
    <3> QED BY <3>2 DEF CountersCoverSession
  <2>3. TrajectoryIgnoresWindow
    <3>1. Recent(mem.turns) = Recent(history)
      BY <2>1, RecentOfRetained
    <3> QED BY <3>1 DEF TrajectoryIgnoresWindow, Slope
  <2>4. HashIsOfLastTurns
    <3> SUFFICES ASSUME NEW i \in DOMAIN mem.turns
                 PROVE  behavior_hash(mem)[i]
                          = history[Len(history) - Len(mem.turns) + i].class
      BY DEF HashIsOfLastTurns
    <3> DEFINE k == Excess(Len(history), MaxRetained)
    <3>1. mem.turns \in Seq(TurnRecord) /\ EndsWith(mem.turns, history, k)
      BY <2>1, RetainedEffect
    <3>2. Len(history) \in Nat /\ DOMAIN mem.turns = 1..Len(mem.turns)
      BY <2>1, <3>1, LenProperties
    <3> HIDE DEF k
    <3>3. k \in 0..Len(history) /\ Len(mem.turns) = Len(history) - k
      BY <3>1 DEF EndsWith
    <3>4. Len(history) - Len(mem.turns) + i = k + i
      BY <3>2, <3>3
    <3>5. mem.turns[i] = history[k + i]
      BY <3>1, <3>2 DEF EndsWith
    <3> QED BY <3>4, <3>5 DEF behavior_hash
  <2> QED BY <2>2, <2>3, <2>4 DEF WindowLosesNothing
<1> QED BY <1>1, SessionInvariance, PTL

\* A session that ever reached a checkpoint stays flagged for its fingerprint.
THEOREM EscalationRememberedCorrect == SessionSpec => EscalationRemembered
<1> DEFINE Remembers ==
      /\ mem.memory_state \in {"Escalated", "Locked"} /\ mem.turn_count > 0 => mem.escalated'
      /\ mem.escalated => mem.escalated'
<1>1. SInv /\ [SessionNext]_sessionVars => [Remembers]_mem
  <2> SUFFICES ASSUME SInv, [SessionNext]_sessionVars, mem' # mem PROVE Remembers
    OBVIOUS
  <2>1. PICK signal \in Signals, class \in Classes : Ingest(signal, class)
    BY DEF SessionNext, sessionVars
  <2>2. mem'.escalated = (mem.escalated \/ mem'.memory_state \in {"Escalated", "Locked"})
    BY <2>1, StateEffect
  <2> QED BY <2>2 DEF SInv, StateOfThreat
<1> HIDE DEF Remembers
<1>2. SessionSpec => [][Remembers]_mem
  BY <1>1, SessionInvariance, PTL DEF SessionSpec
<1> QED BY <1>2 DEF Remembers, EscalationRemembered

\* No single turn takes a locked session below a checkpoint, and a threshold that
\* velocity hides is hidden for one turn.
THEOREM StateFollowsThreatCorrect == SessionSpec => StateFollowsThreat
<1> DEFINE Slowly == mem.memory_state = "Locked" => mem'.memory_state \in {"Escalated", "Locked"}
           Briefly ==
             mem.memory_state # ByThreshold(mem.cumulative_threat) /\ mem.turn_count > 0 =>
               mem'.memory_state = ByThreshold(mem'.cumulative_threat)
<1>1. SInv /\ [SessionNext]_sessionVars => [Slowly /\ Briefly]_mem
  <2> SUFFICES ASSUME SInv, [SessionNext]_sessionVars, mem' # mem PROVE Slowly /\ Briefly
    OBVIOUS
  <2>1. PICK signal \in Signals, class \in Classes : Ingest(signal, class)
    BY DEF SessionNext, sessionVars
  <2>2. /\ mem'.cumulative_threat \in Nat
        /\ mem.cumulative_threat >= 4000 => mem'.cumulative_threat >= 3800
        /\ mem.memory_state # "Clear" =>
             mem'.memory_state = ByThreshold(mem'.cumulative_threat)
    BY <2>1, StateEffect
  <2>3. Slowly
    <3> SUFFICES ASSUME mem.memory_state = "Locked"
                 PROVE  mem'.memory_state \in {"Escalated", "Locked"}
      OBVIOUS
    <3>1. mem.cumulative_threat >= 4000 /\ mem.cumulative_threat \in Nat
      BY DEF SInv, StateOfThreat, locked_threshold
    <3>2. mem'.cumulative_threat >= 2500
      BY <2>2, <3>1
    <3> QED BY <2>2, <3>2, Thresholds
  <2>4. Briefly
    BY <2>2 DEF SInv, StateOfThreat
  <2> QED BY <2>3, <2>4
<1> HIDE DEF Slowly, Briefly
<1>2. SessionSpec => [][Slowly]_mem /\ [][Briefly]_mem
  BY <1>1, SessionInvariance, PTL DEF SessionSpec
<1> QED BY <1>2
        DEF Slowly, Briefly, StateFollowsThreat, LockReleasesSlowly,
            HiddenForOneTurn

-----------------------------------------------------------------------------
(* The profiles of the actors: the inductive invariant.                    *)

\* How many fingerprints of a profile are of sessions that escalated.
Escalations(fps) == Cardinality({i \in DOMAIN fps : fps[i].escalated})

\* A profile's counters are those of its fingerprints.
Counts(p) ==
  /\ p \in ActorProfile
  /\ p.total_sessions = Len(p.session_fingerprints)
  /\ p.escalated_sessions = Escalations(p.session_fingerprints)

Profiles(map) == DOMAIN map \subseteq Actors /\ \A a \in DOMAIN map : Counts(map[a])

\* Only profiles are saved, and only where there is a path.
Files ==
  /\ Profiles(actors) /\ Profiles(disk.map)
  /\ disk.status \in {"missing", "complete"}
  /\ disk.status = "missing" => disk.map = Empty
  /\ ~Durable => disk = Missing

Memories ==
  /\ DOMAIN memories \subseteq Sessions /\ turns \in 0..MaxTurns
  /\ \A s \in DOMAIN memories : memories[s] \in SessionFingerprint

Ending ==
  [pc : {"ingest", "write", "rename", "remove"}, session : Sessions, actor : Actors,
   fingerprint : SUBSET SessionFingerprint, persisted : BOOLEAN]

Jobs ==
  /\ job \in [Threads -> {Idle} \cup Ending]
  /\ \A t \in Threads :
       /\ job[t].pc = "ingest" => \E fp \in SessionFingerprint : job[t].fingerprint = {fp}
       /\ job[t].pc \in {"write", "rename"} => Durable
       /\ job[t] # Idle /\ job[t].pc # "remove" => ~job[t].persisted

\* The lock is held from the update of the profile to the rename.
Locked ==
  /\ writer \in Threads \cup {None}
  /\ \A t \in Threads : (writer = t) = (job[t].pc \in {"write", "rename"})

\* What is about to be persisted is in the map and, once written, in the file.
Carried ==
  \A t \in Threads :
    /\ job[t].pc \in {"write", "rename"} => job[t].fingerprint \subseteq Recorded(actors, job[t].actor)
    /\ job[t].pc = "rename" => tmp = Complete(actors)

\* One map has all another has.
Covers(new, old) ==
  \A a \in Actors :
    /\ Recorded(old, a) \subseteq Recorded(new, a)
    /\ Profile(old, a).campaign_detected => Profile(new, a).campaign_detected

\* The profiles in memory never fall behind the snapshot, so that no rename takes
\* from it what an earlier one put there.
Kept ==
  intact =>
    /\ Covers(actors, disk.map)
    /\ \A p \in promised : p[2] \in Recorded(disk.map, p[1])
    /\ \A t \in Threads :
         job[t] # Idle /\ job[t].persisted =>
           job[t].fingerprint \subseteq Recorded(disk.map, job[t].actor)

MInv ==
  /\ Files /\ Memories /\ Jobs /\ Locked /\ Carried
  /\ promised \subseteq Actors \X SessionFingerprint
  /\ Kept

-----------------------------------------------------------------------------
(* Profiles and maps of them.                                              *)

LEMMA EmptyFingerprints == ToSet(<<>>) = {} /\ Escalations(<<>>) = 0
<1>1. {i \in DOMAIN <<>> : <<>>[i].escalated} = {}
  OBVIOUS
<1>2. Escalations(<<>>) = 0
  BY <1>1, FS_EmptySet DEF Escalations
<1> QED BY <1>2 DEF ToSet

\* One more fingerprint.
LEMMA FingerprintAppended ==
  ASSUME NEW fps \in Seq(SessionFingerprint), NEW fp \in SessionFingerprint
  PROVE  /\ Append(fps, fp) \in Seq(SessionFingerprint)
         /\ Len(Append(fps, fp)) = Len(fps) + 1
         /\ ToSet(Append(fps, fp)) = ToSet(fps) \cup {fp}
         /\ Escalations(fps) \in Nat
         /\ Escalations(Append(fps, fp)) = Escalations(fps) + (IF fp.escalated THEN 1 ELSE 0)
<1> DEFINE n == Len(fps)
           A == {i \in 1..n : fps[i].escalated}
           B == {i \in 1..(n + 1) : Append(fps, fp)[i].escalated}
<1>1. /\ n \in Nat /\ DOMAIN fps = 1..n /\ DOMAIN Append(fps, fp) = 1..(n + 1)
      /\ Append(fps, fp) \in Seq(SessionFingerprint) /\ Len(Append(fps, fp)) = n + 1
      /\ Append(fps, fp)[n + 1] = fp /\ \A i \in 1..n : Append(fps, fp)[i] = fps[i]
  BY LenProperties, AppendProperties
<1>2. Escalations(fps) = Cardinality(A) /\ Escalations(Append(fps, fp)) = Cardinality(B)
  BY <1>1 DEF Escalations
<1>3. IsFiniteSet(A)
  BY <1>1, FS_Interval, FS_Subset, 1 \in Int, n \in Int
<1>4. Cardinality(A) \in Nat
  BY <1>3, FS_CardinalityType
<1>5. ToSet(Append(fps, fp)) = ToSet(fps) \cup {fp}
  <2>1. ToSet(Append(fps, fp)) \subseteq ToSet(fps) \cup {fp}
    BY <1>1 DEF ToSet
  <2>2. ToSet(fps) \subseteq ToSet(Append(fps, fp))
    BY <1>1 DEF ToSet
  <2>3. fp \in ToSet(Append(fps, fp))
    BY <1>1 DEF ToSet
  <2> QED BY <2>1, <2>2, <2>3
<1>6. CASE fp.escalated
  <2>1. B = A \cup {n + 1} /\ n + 1 \notin A
    BY <1>1, <1>6
  <2>2. Cardinality(B) = Cardinality(A) + 1
    BY <1>3, <2>1, FS_AddElement
  <2> HIDE DEF A, B, n
  <2> QED BY <1>1, <1>2, <1>4, <1>5, <1>6, <2>2 DEF n
<1>7. CASE ~fp.escalated
  <2>1. B = A
    BY <1>1, <1>7
  <2> HIDE DEF A, B, n
  <2> QED BY <1>1, <1>2, <1>4, <1>5, <1>7, <2>1 DEF n
<1> QED BY <1>6, <1>7

\* The profile of an actor who is not known.
LEMMA NewProfile == Counts(New) /\ ToSet(New.session_fingerprints) = {} /\ ~New.campaign_detected
<1>1. New.session_fingerprints = <<>> /\ <<>> \in Seq(SessionFingerprint) /\ Len(<<>>) = 0
  BY EmptySeq DEF New
<1>2. /\ New.total_sessions = 0 /\ New.escalated_sessions = 0
      /\ New.campaign_detected = FALSE
  BY DEF New
<1>3. New \in ActorProfile
  BY EmptySeq DEF New, ActorProfile
<1> QED BY <1>1, <1>2, <1>3, EmptyFingerprints DEF Counts

\* What one more session makes of a profile.
LEMMA AddedEffect ==
  ASSUME NEW p, Counts(p), NEW fp \in SessionFingerprint
  PROVE  /\ Counts(Added(p, fp))
         /\ ToSet(Added(p, fp).session_fingerprints) = ToSet(p.session_fingerprints) \cup {fp}
         /\ p.campaign_detected => Added(p, fp).campaign_detected
<1> DEFINE fps == p.session_fingerprints
           q == [p EXCEPT !.total_sessions = @ + 1,
                          !.escalated_sessions = @ + (IF fp.escalated THEN 1 ELSE 0),
                          !.session_fingerprints = Append(@, fp)]
           r == [q EXCEPT !.campaign_detected = @ \/ Repeated(q)]
<1>1. p \in ActorProfile /\ p.total_sessions = Len(fps) /\ p.escalated_sessions = Escalations(fps)
  BY DEF Counts
<1>2. /\ fps \in Seq(SessionFingerprint) /\ p.campaign_detected \in BOOLEAN
      /\ p.total_sessions \in Nat /\ p.escalated_sessions \in Nat
  BY <1>1 DEF ActorProfile
<1>3. /\ q.total_sessions = p.total_sessions + 1
      /\ q.escalated_sessions = p.escalated_sessions + (IF fp.escalated THEN 1 ELSE 0)
      /\ q.session_fingerprints = Append(fps, fp)
      /\ q.campaign_detected = p.campaign_detected
  BY <1>1 DEF ActorProfile
<1>4. /\ Append(fps, fp) \in Seq(SessionFingerprint) /\ Len(Append(fps, fp)) = Len(fps) + 1
      /\ ToSet(Append(fps, fp)) = ToSet(fps) \cup {fp}
      /\ Escalations(Append(fps, fp)) = Escalations(fps) + (IF fp.escalated THEN 1 ELSE 0)
  BY <1>2, FingerprintAppended
<1>5. q \in ActorProfile
  <2>1. ASSUME NEW x \in Nat, NEW y \in Nat, NEW z \in Seq(SessionFingerprint)
        PROVE  [p EXCEPT !.total_sessions = x, !.escalated_sessions = y, !.session_fingerprints = z]
                 \in ActorProfile
    BY <1>1 DEF ActorProfile
  <2>2. p.total_sessions + 1 \in Nat /\ p.escalated_sessions + (IF fp.escalated THEN 1 ELSE 0) \in Nat
    BY <1>2
  <2> QED BY <1>4, <2>1, <2>2
<1>6. Added(p, fp) = r
  BY DEF Added, evaluate_actor
<1> HIDE DEF q, fps
<1>7. /\ r.total_sessions = q.total_sessions /\ r.escalated_sessions = q.escalated_sessions
      /\ r.session_fingerprints = q.session_fingerprints
      /\ r.campaign_detected = (q.campaign_detected \/ Repeated(q)) /\ r \in ActorProfile
  BY <1>5 DEF ActorProfile
<1> HIDE DEF r
<1>8. Counts(r)
  BY <1>1, <1>3, <1>4, <1>7 DEF Counts
<1> QED BY <1>3, <1>4, <1>6, <1>7, <1>8 DEF fps

LEMMA ProfileOfMap ==
  ASSUME NEW map, Profiles(map), NEW a
  PROVE  Counts(Profile(map, a))
BY NewProfile DEF Profiles, Profile

LEMMA EmptyMap ==
  /\ Profiles(Empty) /\ \A a : Recorded(Empty, a) = {} /\ ~Profile(Empty, a).campaign_detected
<1>1. DOMAIN Empty = {}
  BY DEF Empty
<1> HIDE DEF Empty
<1>2. Profiles(Empty)
  BY <1>1 DEF Profiles
<1>3. \A a : Profile(Empty, a) = New
  BY <1>1 DEF Profile
<1> QED BY <1>2, <1>3, NewProfile DEF Recorded

LEMMA CoversItself == ASSUME NEW map PROVE Covers(map, map)
BY DEF Covers

\* The map with one more session of an actor.
LEMMA SessionAdded ==
  ASSUME NEW map, Profiles(map), NEW a \in Actors, NEW fp \in SessionFingerprint,
         NEW new, new = [b \in DOMAIN map \cup {a} |->
                           IF b = a THEN Added(Profile(map, a), fp) ELSE map[b]]
  PROVE  Profiles(new) /\ Covers(new, map) /\ fp \in Recorded(new, a)
<1>1. /\ Counts(Profile(map, a)) /\ Counts(Added(Profile(map, a), fp))
      /\ ToSet(Added(Profile(map, a), fp).session_fingerprints)
           = ToSet(Profile(map, a).session_fingerprints) \cup {fp}
      /\ Profile(map, a).campaign_detected => Added(Profile(map, a), fp).campaign_detected
  <2>1. Counts(Profile(map, a))
    BY ProfileOfMap
  <2> QED BY <2>1, AddedEffect
<1>2. DOMAIN new = DOMAIN map \cup {a} /\ new[a] = Added(Profile(map, a), fp)
  OBVIOUS
<1>3. \A b \in DOMAIN map : b # a => new[b] = map[b]
  OBVIOUS
<1>4. Profiles(new)
  BY <1>1, <1>2, <1>3 DEF Profiles
<1>5. Profile(new, a) = Added(Profile(map, a), fp)
  BY <1>2 DEF Profile
<1>6. \A b : b # a => Profile(new, b) = Profile(map, b)
  BY <1>2, <1>3 DEF Profile
<1>7. fp \in Recorded(new, a)
  BY <1>1, <1>5 DEF Recorded
<1>8. Covers(new, map)
  <2> SUFFICES ASSUME NEW b \in Actors
               PROVE  /\ Recorded(map, b) \subseteq Recorded(new, b)
                      /\ Profile(map, b).campaign_detected => Profile(new, b).campaign_detected
    BY DEF Covers
  <2>1. CASE b = a
    BY <1>1, <1>5, <2>1 DEF Recorded
  <2>2. CASE b # a
    BY <1>6, <2>2 DEF Recorded
  <2> QED BY <2>1, <2>2
<1> QED BY <1>4, <1>7, <1>8

-----------------------------------------------------------------------------
(* The steps of a call.                                                    *)

\* Thread t gets to pc with its call, whose snapshot is persisted or not.
Moves(t, pc, persisted) ==
  /\ job' \in [Threads -> {Idle} \cup Ending]
  /\ job[t] \in Ending /\ job'[t] \in Ending
  /\ job'[t].pc = pc /\ job'[t].persisted = persisted
  /\ job'[t].actor = job[t].actor /\ job'[t].fingerprint = job[t].fingerprint
  /\ \A u \in Threads : u # t => job'[u] = job[u]

LEMMA IdleFacts == Idle.pc = "idle" /\ \A j \in Ending : j # Idle /\ j.pc # "idle"
BY DEF Idle, Ending

LEMMA CallMoves ==
  ASSUME job \in [Threads -> {Idle} \cup Ending], NEW t \in Threads, job[t].pc # "idle",
         NEW pc \in {"ingest", "write", "rename", "remove"}, job' = [job EXCEPT ![t].pc = pc]
  PROVE  Moves(t, pc, job[t].persisted)
<1>1. job[t] \in Ending
  BY IdleFacts
<1>2. job' = [job EXCEPT ![t] = [job[t] EXCEPT !.pc = pc]]
  OBVIOUS
<1>3. /\ [job[t] EXCEPT !.pc = pc] \in Ending
      /\ [job[t] EXCEPT !.pc = pc].pc = pc
      /\ [job[t] EXCEPT !.pc = pc].persisted = job[t].persisted
      /\ [job[t] EXCEPT !.pc = pc].actor = job[t].actor
      /\ [job[t] EXCEPT !.pc = pc].fingerprint = job[t].fingerprint
  BY <1>1 DEF Ending
<1>4. /\ job' \in [Threads -> {Idle} \cup Ending] /\ job'[t] = [job[t] EXCEPT !.pc = pc]
      /\ \A u \in Threads : u # t => job'[u] = job[u]
  BY <1>2, <1>3
<1> QED BY <1>1, <1>3, <1>4 DEF Moves

LEMMA CallPersists ==
  ASSUME job \in [Threads -> {Idle} \cup Ending], NEW t \in Threads, job[t].pc # "idle",
         job' = [job EXCEPT ![t].pc = "remove", ![t].persisted = TRUE]
  PROVE  Moves(t, "remove", TRUE)
<1>1. job[t] \in Ending
  BY IdleFacts
<1> DEFINE j == [[job[t] EXCEPT !.pc = "remove"] EXCEPT !.persisted = TRUE]
<1>2. job' = [job EXCEPT ![t] = j]
  OBVIOUS
<1>3. /\ j \in Ending /\ j.pc = "remove" /\ j.persisted = TRUE
      /\ j.actor = job[t].actor /\ j.fingerprint = job[t].fingerprint
  BY <1>1 DEF Ending
<1> HIDE DEF j
<1>4. /\ job' \in [Threads -> {Idle} \cup Ending] /\ job'[t] = j
      /\ \A u \in Threads : u # t => job'[u] = job[u]
  BY <1>2, <1>3
<1> QED BY <1>1, <1>3, <1>4 DEF Moves

\* Only the lock's holder is between the update and the rename.
LEMMA OneWriter ==
  ASSUME Locked, NEW t \in Threads, job[t].pc \in {"write", "rename"}
  PROVE  writer = t /\ \A u \in Threads : u # t => job[u].pc \notin {"write", "rename"}
BY DEF Locked

LEMMA NoWriter ==
  ASSUME Locked, writer = None
  PROVE  \A u \in Threads : job[u].pc \notin {"write", "rename"}
BY ThreadsAssumption DEF Locked, None

\* What a step of a call keeps of the calls' shape.
LEMMA JobsMoved ==
  ASSUME Jobs, NEW t \in Threads, NEW pc \in {"write", "rename", "remove"}, NEW b \in BOOLEAN,
         Moves(t, pc, b), pc # "remove" => ~b /\ Durable
  PROVE  Jobs'
<1>1. job' \in [Threads -> {Idle} \cup Ending]
  BY DEF Moves
<1>2. ASSUME NEW u \in Threads
      PROVE  /\ job'[u].pc = "ingest" => \E fp \in SessionFingerprint : job'[u].fingerprint = {fp}
             /\ job'[u].pc \in {"write", "rename"} => Durable
             /\ job'[u] # Idle /\ job'[u].pc # "remove" => ~job'[u].persisted
  <2>1. CASE u = t
    BY <2>1 DEF Moves
  <2>2. CASE u # t
    BY <2>2 DEF Moves, Jobs
  <2> QED BY <2>1, <2>2
<1>3. (\A t_1 \in Threads :
         /\ job[t_1].pc = "ingest" => \E fp \in SessionFingerprint : job[t_1].fingerprint = {fp}
         /\ job[t_1].pc \in {"write", "rename"} => Durable
         /\ job[t_1] # Idle /\ job[t_1].pc # "remove" => ~job[t_1].persisted)'
  BY <1>2
<1> QED BY <1>1, <1>3 DEF Jobs

\* What was promised is in the snapshot as long as that does not change.
LEMMA KeptMoved ==
  ASSUME Kept, Jobs, NEW t \in Threads, NEW pc, Moves(t, pc, job[t].persisted),
         disk' = disk, promised' = promised, intact' = intact,
         intact => Covers(actors', disk.map)
  PROVE  Kept'
<1> SUFFICES ASSUME intact PROVE Kept'
  BY DEF Kept
<1>1. ASSUME NEW u \in Threads, job'[u] # Idle, job'[u].persisted
      PROVE  job'[u].fingerprint \subseteq Recorded(disk'.map, job'[u].actor)
  <2>1. CASE u = t
    <3>1. job[u] # Idle /\ job[u].persisted
      BY <1>1, <2>1, IdleFacts DEF Moves
    <3> QED BY <2>1, <3>1 DEF Moves, Kept
  <2>2. CASE u # t
    BY <1>1, <2>2 DEF Moves, Kept
  <2> QED BY <2>1, <2>2
<1>2. Covers(actors', disk'.map)
  OBVIOUS
<1>3. \A p \in promised' : p[2] \in Recorded(disk'.map, p[1])
  BY DEF Kept
<1> QED BY <1>1, <1>2, <1>3 DEF Kept

LEMMA IngestSessionStep ==
  ASSUME MInv, NEW t \in Threads, IngestSession(t)
  PROVE  MInv'
<1> USE DEF MInv
<1> DEFINE a == job[t].actor
           pc == IF Durable THEN "write" ELSE "remove"
<1>1. /\ job[t].pc = "ingest" /\ writer = None /\ job' = [job EXCEPT ![t].pc = pc]
      /\ writer' = (IF Durable THEN t ELSE None)
      /\ memories' = memories /\ disk' = disk /\ tmp' = tmp /\ turns' = turns
      /\ promised' = promised /\ intact' = intact
  BY DEF IngestSession
<1>2. job \in [Threads -> {Idle} \cup Ending] /\ job[t] \in Ending
  BY <1>1, IdleFacts DEF Jobs
<1>3. PICK fp \in SessionFingerprint : job[t].fingerprint = {fp}
  BY <1>1 DEF Jobs
<1>4. (CHOOSE x \in job[t].fingerprint : TRUE) = fp
  BY <1>3
<1>5. actors' = [b \in DOMAIN actors \cup {a} |->
                   IF b = a THEN Added(Profile(actors, a), fp) ELSE actors[b]]
  <2>1. actors' = [b \in DOMAIN actors \cup {a} |->
                     IF b = a THEN Added(Profile(actors, a), CHOOSE x \in job[t].fingerprint : TRUE)
                     ELSE actors[b]]
    BY DEF IngestSession
  <2> QED BY <1>4, <2>1
<1>6. a \in Actors /\ ~job[t].persisted /\ job[t].persisted \in BOOLEAN
  BY <1>1, <1>2, IdleFacts DEF Ending, Jobs
<1>7. Moves(t, pc, job[t].persisted)
  BY <1>1, <1>2, CallMoves
<1> HIDE DEF a, pc
<1>8. Profiles(actors') /\ Covers(actors', actors) /\ fp \in Recorded(actors', a)
  BY <1>5, <1>6, SessionAdded DEF Files
<1>9. pc \in {"write", "remove"} /\ (pc = "write" <=> Durable)
  BY DEF pc
<1>10. Files' /\ Memories'
  BY <1>1, <1>8 DEF Files, Memories
<1>11. Jobs'
  BY <1>6, <1>7, <1>9, JobsMoved
<1>12. \A u \in Threads : job[u].pc \notin {"write", "rename"}
  BY <1>1, NoWriter
<1>13. Locked'
  <2>1. CASE Durable
    <3>1. writer' = t /\ job'[t].pc = "write"
      BY <1>1, <1>7, <1>9, <2>1 DEF Moves
    <3> QED BY <1>7, <1>12, <3>1 DEF Locked, Moves
  <2>2. CASE ~Durable
    <3>1. writer' = None /\ job'[t].pc = "remove"
      BY <1>1, <1>7, <1>9, <2>2 DEF Moves
    <3> QED BY <1>7, <1>12, <3>1, ThreadsAssumption DEF Locked, Moves, None
  <2> QED BY <2>1, <2>2
<1>14. Carried'
  <2> SUFFICES ASSUME NEW u \in Threads
               PROVE  /\ job'[u].pc \in {"write", "rename"} =>
                           job'[u].fingerprint \subseteq Recorded(actors', job'[u].actor)
                      /\ job'[u].pc = "rename" => tmp' = Complete(actors')
    BY DEF Carried
  <2>1. CASE u = t
    BY <1>3, <1>7, <1>8, <1>9, <2>1 DEF Moves, a
  <2>2. CASE u # t
    BY <1>7, <1>12, <2>2 DEF Moves
  <2> QED BY <2>1, <2>2
<1>15. intact => Covers(actors', disk.map)
  BY <1>8 DEF Kept, Covers
<1>16. Kept'
  BY <1>1, <1>7, <1>15, KeptMoved
<1> QED BY <1>1, <1>10, <1>11, <1>13, <1>14, <1>16

\* A step of the lock's holder that leaves the profiles alone.
LEMMA HolderCarries ==
  ASSUME Carried, Locked, NEW t \in Threads, job[t].pc \in {"write", "rename"}, NEW pc, NEW b,
         Moves(t, pc, b), actors' = actors, pc = "rename" => tmp' = Complete(actors)
  PROVE  Carried'
<1> SUFFICES ASSUME NEW u \in Threads
             PROVE  /\ job'[u].pc \in {"write", "rename"} =>
                         job'[u].fingerprint \subseteq Recorded(actors', job'[u].actor)
                    /\ job'[u].pc = "rename" => tmp' = Complete(actors')
  BY DEF Carried
<1>1. CASE u = t
  BY <1>1 DEF Moves, Carried
<1>2. CASE u # t
  BY <1>2, OneWriter DEF Moves
<1> QED BY <1>1, <1>2

LEMMA PersistFailsStep ==
  ASSUME MInv, NEW t \in Threads, PersistFails(t)
  PROVE  MInv'
<1> USE DEF MInv
<1>1. /\ job[t].pc \in {"write", "rename"} /\ job' = [job EXCEPT ![t].pc = "remove"]
      /\ writer' = None
      /\ memories' = memories /\ actors' = actors /\ disk' = disk /\ turns' = turns
      /\ promised' = promised /\ intact' = intact
  BY DEF PersistFails
<1>2. Moves(t, "remove", job[t].persisted)
  BY <1>1, CallMoves DEF Jobs
<1>3. job[t].persisted \in BOOLEAN
  BY <1>2 DEF Moves, Ending
<1>4. Files' /\ Memories'
  BY <1>1 DEF Files, Memories
<1>5. Jobs'
  BY <1>2, <1>3, JobsMoved
<1>6. Locked'
  BY <1>1, <1>2, OneWriter, ThreadsAssumption DEF Locked, Moves, None
<1>7. Carried'
  BY <1>1, <1>2, HolderCarries
<1>8. Kept'
  <2>1. intact => Covers(actors', disk.map)
    BY <1>1 DEF Kept
  <2> QED BY <1>1, <1>2, <2>1, KeptMoved
<1> QED BY <1>1, <1>4, <1>5, <1>6, <1>7, <1>8

LEMMA WriteTmpStep ==
  ASSUME MInv, NEW t \in Threads, WriteTmp(t)
  PROVE  MInv'
<1> USE DEF MInv
<1>1. /\ job[t].pc = "write" /\ job' = [job EXCEPT ![t].pc = "rename"]
      /\ disk' = disk /\ tmp' = Complete(actors) /\ writer' = writer
      /\ memories' = memories /\ actors' = actors /\ turns' = turns
      /\ promised' = promised /\ intact' = intact
  BY DEF WriteTmp, Written
<1>2. Moves(t, "rename", job[t].persisted)
  BY <1>1, CallMoves DEF Jobs
<1>3. job[t].persisted \in BOOLEAN /\ ~job[t].persisted /\ Durable
  BY <1>1, <1>2, IdleFacts DEF Moves, Ending, Jobs
<1>4. Files' /\ Memories'
  BY <1>1 DEF Files, Memories
<1>5. Jobs'
  BY <1>2, <1>3, JobsMoved
<1>6. Locked'
  BY <1>1, <1>2, OneWriter DEF Locked, Moves
<1>7. Carried'
  BY <1>1, <1>2, HolderCarries
<1>8. Kept'
  <2>1. intact => Covers(actors', disk.map)
    BY <1>1 DEF Kept
  <2> QED BY <1>1, <1>2, <2>1, KeptMoved
<1> QED BY <1>1, <1>4, <1>5, <1>6, <1>7, <1>8

\* The rename replaces a snapshot by one that has all of it.
LEMMA RenameEffect ==
  ASSUME MInv, NEW t \in Threads, Rename(t)
  PROVE  disk' = Complete(actors) /\ (intact => Covers(disk'.map, disk.map))
<1>1. job[t].pc = "rename" /\ disk' = tmp
  BY DEF Rename
<1>2. disk' = Complete(actors)
  BY <1>1 DEF MInv, Carried
<1>3. disk'.map = actors
  BY <1>2 DEF Complete
<1> QED BY <1>2, <1>3 DEF MInv, Kept

LEMMA RenameStep ==
  ASSUME MInv, NEW t \in Threads, Rename(t)
  PROVE  MInv'
<1> USE DEF MInv
<1>1. /\ job[t].pc = "rename" /\ job' = [job EXCEPT ![t].pc = "remove", ![t].persisted = TRUE]
      /\ writer' = None
      /\ memories' = memories /\ actors' = actors /\ turns' = turns
      /\ promised' = promised /\ intact' = intact
  BY DEF Rename
<1>2. /\ disk' = Complete(actors) /\ disk'.map = actors /\ disk'.status = "complete"
      /\ intact => Covers(disk'.map, disk.map)
  BY RenameEffect DEF Complete
<1>3. Moves(t, "remove", TRUE)
  BY <1>1, CallPersists DEF Jobs
<1>4. Files' /\ Memories'
  <2>1. Durable
    BY <1>1 DEF Jobs
  <2> QED BY <1>1, <1>2, <2>1 DEF Files, Memories
<1>5. Jobs'
  BY <1>3, JobsMoved
<1>6. Locked'
  BY <1>1, <1>3, OneWriter, ThreadsAssumption DEF Locked, Moves, None
<1>7. Carried'
  BY <1>1, <1>3, HolderCarries
<1>8. Kept'
  <2> SUFFICES ASSUME intact PROVE Kept'
    BY <1>1 DEF Kept
  <2>1. \A a \in Actors : Recorded(disk.map, a) \subseteq Recorded(disk'.map, a)
    BY <1>2 DEF Covers
  <2>2. Covers(actors', disk'.map)
    BY <1>1, <1>2, CoversItself
  <2>3. ASSUME NEW p \in promised PROVE p[2] \in Recorded(disk'.map, p[1])
    <3>1. p[1] \in Actors /\ p[2] \in Recorded(disk.map, p[1])
      BY DEF Kept
    <3> QED BY <2>1, <3>1
  <2>4. ASSUME NEW u \in Threads, job'[u] # Idle, job'[u].persisted
        PROVE  job'[u].fingerprint \subseteq Recorded(disk'.map, job'[u].actor)
    <3>1. CASE u = t
      BY <1>1, <1>2, <1>3, <3>1 DEF Moves, Carried
    <3>2. CASE u # t
      <4>1. job[u] # Idle /\ job[u].persisted /\ job'[u] = job[u]
        BY <1>3, <2>4, <3>2 DEF Moves
      <4>2. job[u].actor \in Actors
        BY <4>1 DEF Jobs, Ending
      <4> QED BY <2>1, <4>1, <4>2 DEF Kept
    <3> QED BY <3>1, <3>2
  <2> QED BY <1>1, <2>2, <2>3, <2>4 DEF Kept
<1> QED BY <1>1, <1>4, <1>5, <1>6, <1>7, <1>8

LEMMA RemoveMemoryStep ==
  ASSUME MInv, NEW t \in Threads, RemoveMemory(t)
  PROVE  MInv'
<1> USE DEF MInv
<1>1. /\ job[t].pc = "remove" /\ job' = [job EXCEPT ![t] = Idle]
      /\ memories' = [q \in DOMAIN memories \ {job[t].session} |-> memories[q]]
      /\ promised' = IF job[t].persisted
                     THEN promised \cup ({job[t].actor} \X job[t].fingerprint) ELSE promised
      /\ actors' = actors /\ disk' = disk /\ tmp' = tmp /\ writer' = writer
      /\ turns' = turns /\ intact' = intact
  BY DEF RemoveMemory, Answered
<1>2. /\ job[t] \in Ending /\ job[t] # Idle
      /\ job \in [Threads -> {Idle} \cup Ending]
  BY <1>1, IdleFacts DEF Jobs
<1>3. /\ job' \in [Threads -> {Idle} \cup Ending] /\ job'[t] = Idle /\ Idle.pc = "idle"
      /\ \A u \in Threads : u # t => job'[u] = job[u]
  BY <1>1, <1>2, IdleFacts
<1>4. Files'
  BY <1>1 DEF Files
<1>5. Memories'
  <2>1. DOMAIN memories' = DOMAIN memories \ {job[t].session}
        /\ \A q \in DOMAIN memories' : memories'[q] = memories[q]
    BY <1>1
  <2> QED BY <1>1, <2>1 DEF Memories
<1>6. Jobs'
  <2> SUFFICES ASSUME NEW u \in Threads
               PROVE  /\ job'[u].pc = "ingest" =>
                           \E fp \in SessionFingerprint : job'[u].fingerprint = {fp}
                      /\ job'[u].pc \in {"write", "rename"} => Durable
                      /\ job'[u] # Idle /\ job'[u].pc # "remove" => ~job'[u].persisted
    BY <1>3 DEF Jobs
  <2>1. CASE u = t
    BY <1>3, <2>1
  <2>2. CASE u # t
    BY <1>3, <2>2 DEF Jobs
  <2> QED BY <2>1, <2>2
<1>7. Locked'
  BY <1>1, <1>3 DEF Locked
<1>8. Carried'
  <2> SUFFICES ASSUME NEW u \in Threads
               PROVE  /\ job'[u].pc \in {"write", "rename"} =>
                           job'[u].fingerprint \subseteq Recorded(actors', job'[u].actor)
                      /\ job'[u].pc = "rename" => tmp' = Complete(actors')
    BY DEF Carried
  <2>1. CASE u = t
    BY <1>3, <2>1
  <2>2. CASE u # t
    BY <1>1, <1>3, <2>2 DEF Carried
  <2> QED BY <2>1, <2>2
<1>9. promised' \subseteq Actors \X SessionFingerprint
  BY <1>1, <1>2 DEF Ending
<1>10. Kept'
  <2> SUFFICES ASSUME intact PROVE Kept'
    BY <1>1 DEF Kept
  <2>1. ASSUME NEW p \in promised' PROVE p[2] \in Recorded(disk.map, p[1])
    <3>1. CASE p \in promised
      BY <3>1 DEF Kept
    <3>2. CASE p \notin promised
      <4>1. job[t].persisted /\ p \in {job[t].actor} \X job[t].fingerprint
        BY <1>1, <3>2
      <4> QED BY <1>2, <4>1 DEF Kept
    <3> QED BY <3>1, <3>2
  <2>2. ASSUME NEW u \in Threads, job'[u] # Idle, job'[u].persisted
        PROVE  job'[u].fingerprint \subseteq Recorded(disk.map, job'[u].actor)
    <3>1. u # t
      BY <1>3, <2>2
    <3> QED BY <1>3, <2>2, <3>1 DEF Kept
  <2>3. Covers(actors', disk'.map)
    BY <1>1 DEF Kept
  <2> QED BY <1>1, <2>1, <2>2, <2>3 DEF Kept
<1> QED BY <1>4, <1>5, <1>6, <1>7, <1>8, <1>9, <1>10

LEMMA TurnStep ==
  ASSUME MInv, NEW s \in Sessions, NEW escalates \in BOOLEAN, NEW hash \in Hashes,
         Turn(s, escalates, hash)
  PROVE  MInv'
<1> USE DEF MInv
<1> DEFINE before == IF s \in DOMAIN memories THEN memories[s].escalated ELSE FALSE
           fp == [session_id |-> s, turn |-> turns + 1, behavior_hash |-> hash,
                  escalated |-> before \/ escalates]
<1>1. /\ turns < MaxTurns /\ turns' = turns + 1
      /\ memories' = [q \in DOMAIN memories \cup {s} |-> IF q = s THEN fp ELSE memories[q]]
      /\ actors' = actors /\ disk' = disk /\ tmp' = tmp /\ writer' = writer
      /\ job' = job /\ promised' = promised /\ intact' = intact
  BY DEF Turn
<1>2. turns' \in 0..MaxTurns /\ turns + 1 \in 1..MaxTurns
  BY <1>1, BoundsAssumption DEF Memories
<1>3. before \in BOOLEAN
  BY DEF Memories, SessionFingerprint
<1>4. (before \/ escalates) \in BOOLEAN
  OBVIOUS
<1> HIDE DEF before
<1>5. fp \in SessionFingerprint
  BY <1>2, <1>4 DEF SessionFingerprint
<1> HIDE DEF fp
<1>6. DOMAIN memories' = DOMAIN memories \cup {s} /\ memories'[s] = fp
      /\ \A q \in DOMAIN memories : q # s => memories'[q] = memories[q]
  BY <1>1
<1>7. Memories'
  BY <1>2, <1>5, <1>6 DEF Memories
<1>8. Files' /\ Jobs' /\ Locked' /\ Carried' /\ Kept'
  BY <1>1 DEF Files, Jobs, Locked, Carried, Kept
<1> QED BY <1>1, <1>7, <1>8

LEMMA BeginEndStep ==
  ASSUME MInv, NEW t \in Threads, NEW s \in Sessions, NEW a \in Actors, BeginEnd(t, s, a)
  PROVE  MInv'
<1> USE DEF MInv
<1> DEFINE j == IF s \in DOMAIN memories
                THEN [pc |-> "ingest", session |-> s, actor |-> a, fingerprint |-> {memories[s]},
                      persisted |-> FALSE]
                ELSE [pc |-> "remove", session |-> s, actor |-> a, fingerprint |-> {},
                      persisted |-> FALSE]
<1>1. /\ job[t] = Idle /\ job' = [job EXCEPT ![t] = j]
      /\ memories' = memories /\ actors' = actors /\ disk' = disk /\ tmp' = tmp
      /\ writer' = writer /\ turns' = turns /\ promised' = promised /\ intact' = intact
  BY DEF BeginEnd
<1>2. /\ j \in Ending /\ ~j.persisted /\ j.pc \in {"ingest", "remove"}
      /\ j.pc = "ingest" => \E fp \in SessionFingerprint : j.fingerprint = {fp}
  <2>1. CASE s \in DOMAIN memories
    <3>1. memories[s] \in SessionFingerprint
      BY <2>1 DEF Memories
    <3> QED BY <2>1, <3>1 DEF Ending
  <2>2. CASE s \notin DOMAIN memories
    BY <2>2 DEF Ending
  <2> QED BY <2>1, <2>2
<1> HIDE DEF j
<1>3. /\ job' \in [Threads -> {Idle} \cup Ending] /\ job'[t] = j
      /\ \A u \in Threads : u # t => job'[u] = job[u]
  BY <1>1, <1>2 DEF Jobs
<1>4. Files' /\ Memories'
  BY <1>1 DEF Files, Memories
<1>5. Jobs'
  <2> SUFFICES ASSUME NEW u \in Threads
               PROVE  /\ job'[u].pc = "ingest" =>
                           \E fp \in SessionFingerprint : job'[u].fingerprint = {fp}
                      /\ job'[u].pc \in {"write", "rename"} => Durable
                      /\ job'[u] # Idle /\ job'[u].pc # "remove" => ~job'[u].persisted
    BY <1>3 DEF Jobs
  <2>1. CASE u = t
    BY <1>2, <1>3, <2>1
  <2>2. CASE u # t
    BY <1>3, <2>2 DEF Jobs
  <2> QED BY <2>1, <2>2
<1>6. Locked'
  <2>1. job[t].pc \notin {"write", "rename"} /\ job'[t].pc \notin {"write", "rename"}
    BY <1>1, <1>2, <1>3, IdleFacts
  <2> QED BY <1>1, <1>3, <2>1 DEF Locked
<1>7. Carried'
  <2> SUFFICES ASSUME NEW u \in Threads
               PROVE  /\ job'[u].pc \in {"write", "rename"} =>
                           job'[u].fingerprint \subseteq Recorded(actors', job'[u].actor)
                      /\ job'[u].pc = "rename" => tmp' = Complete(actors')
    BY DEF Carried
  <2>1. CASE u = t
    BY <1>2, <1>3, <2>1
  <2>2. CASE u # t
    BY <1>1, <1>3, <2>2 DEF Carried
  <2> QED BY <2>1, <2>2
<1>8. Kept'
  <2> SUFFICES ASSUME intact PROVE Kept'
    BY <1>1 DEF Kept
  <2>1. ASSUME NEW u \in Threads, job'[u] # Idle, job'[u].persisted
        PROVE  job'[u].fingerprint \subseteq Recorded(disk.map, job'[u].actor)
    <3>1. u # t
      BY <1>2, <1>3, <2>1
    <3> QED BY <1>3, <2>1, <3>1 DEF Kept
  <2> QED BY <1>1, <2>1 DEF Kept
<1> QED BY <1>1, <1>4, <1>5, <1>6, <1>7, <1>8

LEMMA AllIdle ==
  ASSUME job = [t \in Threads |-> Idle], writer = None
  PROVE  Jobs /\ Locked /\ Carried /\ \A t \in Threads : job[t] = Idle
<1>1. job \in [Threads -> {Idle} \cup Ending] /\ \A t \in Threads : job[t] = Idle
  OBVIOUS
<1>2. Idle.pc = "idle"
  BY IdleFacts
<1>3. Jobs
  BY <1>1, <1>2 DEF Jobs
<1>4. Locked
  BY <1>1, <1>2, ThreadsAssumption DEF Locked, None
<1>5. Carried
  BY <1>1, <1>2 DEF Carried
<1> QED BY <1>1, <1>3, <1>4, <1>5

\* A start from the snapshot, or from nothing.
LEMMA RestartStep ==
  ASSUME MInv, Restart
  PROVE  MInv'
<1> USE DEF MInv
<1>1. /\ memories' = Empty /\ writer' = None /\ job' = [t \in Threads |-> Idle]
      /\ disk' = disk /\ turns' = turns /\ promised' = promised
  BY DEF Restart
<1>2. PICK read \in BOOLEAN :
        /\ actors' = IF Durable /\ read THEN disk.map ELSE Empty
        /\ intact' = (intact /\ (read \/ disk = Missing))
  BY DEF Restart
<1>3. Profiles(actors')
  BY <1>2, EmptyMap DEF Files
<1>4. Files'
  BY <1>1, <1>3 DEF Files
<1>5. Memories'
  BY <1>1 DEF Memories, Empty
<1>6. Jobs' /\ Locked' /\ Carried' /\ \A t \in Threads : job'[t] = Idle
  <2>1. (job = [t \in Threads |-> Idle])' /\ (writer = None)'
    BY <1>1
  <2>2. (Jobs /\ Locked /\ Carried /\ \A t \in Threads : job[t] = Idle)'
    BY ONLY <2>1, AllIdle, PTL
  <2> QED BY <2>2
<1>7. Kept'
  <2> SUFFICES ASSUME intact' PROVE Kept'
    BY DEF Kept
  <2>1. intact /\ (read \/ disk = Missing)
    BY <1>2
  <2>2. Covers(actors', disk.map)
    <3>1. CASE Durable /\ read
      BY <1>2, <3>1, CoversItself
    <3>2. CASE ~(Durable /\ read)
      <4>1. disk.map = Empty /\ actors' = Empty
        BY <1>2, <2>1, <3>2 DEF Files, Missing
      <4> QED BY <4>1, CoversItself
    <3> QED BY <3>1, <3>2
  <2> QED BY <1>1, <1>6, <2>1, <2>2 DEF Kept
<1> QED BY <1>1, <1>4, <1>5, <1>6, <1>7

LEMMA StrategicInit == Init => MInv
<1> SUFFICES ASSUME Init PROVE MInv
  OBVIOUS
<1>1. /\ memories = Empty /\ actors = Empty /\ disk = Missing /\ writer = None
      /\ job = [t \in Threads |-> Idle] /\ turns = 0 /\ promised = {}
  BY DEF Init
<1>2. disk.map = Empty /\ disk.status = "missing"
  BY <1>1 DEF Missing
<1>3. Files
  BY <1>1, <1>2, EmptyMap DEF Files
<1>4. Memories
  BY <1>1, BoundsAssumption DEF Memories, Empty
<1>5. Jobs /\ Locked /\ Carried /\ \A t \in Threads : job[t] = Idle
  BY <1>1, AllIdle
<1>6. Kept
  BY <1>1, <1>2, <1>5, CoversItself DEF Kept
<1> QED BY <1>1, <1>3, <1>4, <1>5, <1>6 DEF MInv

LEMMA StrategicStep == MInv /\ [Next]_vars => MInv'
<1> SUFFICES ASSUME MInv, [Next]_vars PROVE MInv'
  OBVIOUS
<1>1. ASSUME NEW t \in Threads, Continue(t) PROVE MInv'
  BY <1>1, IngestSessionStep, WriteTmpStep, PersistFailsStep, RenameStep, RemoveMemoryStep
     DEF Continue
<1>2. ASSUME NEW s \in Sessions, NEW e \in BOOLEAN, NEW h \in Hashes, Turn(s, e, h) PROVE MInv'
  BY <1>2, TurnStep
<1>3. ASSUME NEW t \in Threads, NEW s \in Sessions, NEW a \in Actors, BeginEnd(t, s, a) PROVE MInv'
  BY <1>3, BeginEndStep
<1>4. CASE Restart
  BY <1>4, RestartStep
<1>5. CASE UNCHANGED vars
  BY <1>5 DEF vars, MInv, Files, Memories, Jobs, Locked, Carried, Kept
<1> QED BY <1>1, <1>2, <1>3, <1>4, <1>5 DEF Next

\* The invariant of the profiles and the snapshot, for any number of threads, sessions,
\* actors, turns and restarts.
THEOREM StrategicInvariance == Spec => []MInv
BY StrategicInit, StrategicStep, PTL DEF Spec

\* The shape of the memories, the calls and the files; the counters of a profile are
\* those of its fingerprints.
THEOREM TypeCorrect == Spec => []TypeOK
<1>1. MInv => TypeOK
  <2> SUFFICES ASSUME MInv PROVE TypeOK
    OBVIOUS
  <2>1. DOMAIN memories \subseteq Sessions /\ \A s \in DOMAIN memories : memories[s] \in SessionFingerprint
    BY DEF MInv, Memories
  <2>2. /\ DOMAIN actors \subseteq Actors
        /\ \A a \in DOMAIN actors : Counts(actors[a])
    BY DEF MInv, Files, Profiles
  <2>3. disk # Truncated
    BY DEF MInv, Files, Truncated
  <2>4. writer \in Threads \cup {None}
    BY DEF MInv, Locked
  <2>5. (writer = None) = (\A t \in Threads : job[t].pc \notin {"write", "rename"})
    <3>1. writer = None => \A t \in Threads : job[t].pc \notin {"write", "rename"}
      BY NoWriter DEF MInv
    <3>2. (\A t \in Threads : job[t].pc \notin {"write", "rename"}) => writer = None
      BY <2>4 DEF MInv, Locked
    <3> QED BY <3>1, <3>2
  <2>6. ASSUME NEW a \in DOMAIN actors
        PROVE  /\ actors[a] \in ActorProfile
               /\ actors[a].total_sessions = Len(actors[a].session_fingerprints)
               /\ actors[a].escalated_sessions =
                    Cardinality({i \in DOMAIN actors[a].session_fingerprints :
                                   actors[a].session_fingerprints[i].escalated})
    BY <2>2 DEF Counts, Escalations
  <2> QED BY <2>1, <2>2, <2>3, <2>4, <2>5, <2>6 DEF TypeOK
<1> QED BY <1>1, StrategicInvariance, PTL

\* What the end of a session was answered persisted stays in the snapshot, through the
\* ends of other sessions, failed writes and restarts that can read it.
THEOREM PersistedStaysCorrect == Spec => []PersistedStays
<1>1. MInv => PersistedStays
  BY DEF MInv, Kept, PersistedStays
<1> QED BY <1>1, StrategicInvariance, PTL

\* The advice for an actor with a campaign.
LEMMA CampaignAdvice ==
  ASSUME NEW p, Counts(p), p.campaign_detected
  PROVE  recommended_threshold_modifier(p) = 30
<1>1. strategic_threat_level(p) = "Hostile"
  BY DEF strategic_threat_level
<1> QED BY <1>1 DEF recommended_threshold_modifier

\* A campaign on the disk is never forgotten, and keeps the thresholds at their tightest.
THEOREM CampaignStaysCorrect == Spec => CampaignStays
<1> DEFINE Stays ==
      \A a \in Actors :
        intact /\ Profile(disk.map, a).campaign_detected =>
          recommended_threshold_modifier(Profile(disk'.map, a)) = 30
<1>1. MInv /\ MInv' /\ [Next]_vars => [Stays]_vars
  <2> SUFFICES ASSUME MInv, MInv', [Next]_vars, NEW a \in Actors,
                      intact, Profile(disk.map, a).campaign_detected
               PROVE  recommended_threshold_modifier(Profile(disk'.map, a)) = 30
    OBVIOUS
  <2>1. Covers(disk'.map, disk.map)
    <3>1. ASSUME NEW t \in Threads, Rename(t) PROVE Covers(disk'.map, disk.map)
      BY <3>1, RenameEffect
    <3>2. CASE disk' = disk
      BY <3>2, CoversItself
    <3>3. (\E t \in Threads : Rename(t)) \/ disk' = disk
      BY DEF Next, vars, Continue, IngestSession, WriteTmp, Written, PersistFails, RemoveMemory,
             Turn, BeginEnd, Restart
    <3> QED BY <3>1, <3>2, <3>3
  <2>2. Profile(disk'.map, a).campaign_detected
    BY <2>1 DEF Covers
  <2>3. Profiles(disk'.map)
    BY DEF MInv, Files
  <2>4. Counts(Profile(disk'.map, a))
    BY <2>3, ProfileOfMap
  <2> QED BY <2>2, <2>4, CampaignAdvice
<1> HIDE DEF Stays
<1>2. Spec => [][Stays]_vars
  BY <1>1, StrategicInvariance, PTL DEF Spec
<1> QED BY <1>2 DEF Stays, CampaignStays

=============================================================================
