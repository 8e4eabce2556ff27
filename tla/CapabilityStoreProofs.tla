----------------------- MODULE CapabilityStoreProofs -----------------------
(***************************************************************************)
(* Proofs about CapabilityStore, for every set of requests and bindings.   *)
(***************************************************************************)
EXTENDS CapabilityStore, SequenceTheorems, TLAPS

USE TtlAssumption DEF TtlAssumption

Keys == {TxKey(r) : r \in Requests}

-----------------------------------------------------------------------------
(* Sequences.                                                              *)

\* A position of a sequence holds a member of its range.
LEMMA SeqElement ==
  ASSUME NEW S, NEW s \in Seq(S), NEW i \in DOMAIN s
  PROVE  i \in 1..Len(s) /\ i \in Nat /\ s[i] \in S
  OBVIOUS

\* Overwriting one position with a member of the range.
LEMMA SeqUpdate ==
  ASSUME NEW S, NEW s \in Seq(S), NEW i \in DOMAIN s, NEW e \in S
  PROVE  /\ [s EXCEPT ![i] = e] \in Seq(S)
         /\ DOMAIN [s EXCEPT ![i] = e] = DOMAIN s
         /\ Len([s EXCEPT ![i] = e]) = Len(s)
  OBVIOUS

\* Appending keeps what is there and adds one position.
LEMMA SeqAppend ==
  ASSUME NEW S, NEW s \in Seq(S), NEW e \in S
  PROVE  /\ Append(s, e) \in Seq(S)
         /\ DOMAIN Append(s, e) = DOMAIN s \cup {Len(s) + 1}
         /\ Len(s) + 1 \notin DOMAIN s
         /\ \A i \in DOMAIN s : Append(s, e)[i] = s[i]
         /\ Append(s, e)[Len(s) + 1] = e
  OBVIOUS

-----------------------------------------------------------------------------
(* Type correctness.                                                       *)

\* The empty store of CapabilityStore::new is well typed.
LEMMA InitTypeOK == Init => TypeOK
  BY DEF Init, TypeOK

\* record_decision only ever appends a decision and indexes it.
LEMMA RecordTypeOK ==
  ASSUME TypeOK, NEW r \in Requests, RecordDecision(r)
  PROVE  TypeOK'
<1>1. CASE RecordOutcome(r) = "New"
  <2>1. decisions' = Append(decisions, [request |-> r, issued |-> FALSE])
    BY <1>1 DEF RecordDecision
  <2>2. decisions' \in Seq([request : Requests, issued : BOOLEAN])
    BY <2>1 DEF TypeOK
  <2>3. Len(decisions') = Len(decisions) + 1 /\ DOMAIN decisions \subseteq DOMAIN decisions'
    BY <2>1 DEF TypeOK
  <2>4. decision_by_tx' = [k \in DOMAIN decision_by_tx \cup {TxKey(r)} |->
                  IF k = TxKey(r) THEN Len(decisions) + 1 ELSE decision_by_tx[k]]
    BY <1>1 DEF RecordDecision
  <2>5. DOMAIN decision_by_tx' \subseteq {TxKey(q) : q \in Requests}
    BY <2>4 DEF TypeOK
  <2>6. Len(decisions) + 1 \in DOMAIN decisions'
    BY <2>2, <2>3 DEF TypeOK
  <2>7. decision_by_tx' \in [DOMAIN decision_by_tx' -> DOMAIN decisions']
    BY <2>3, <2>4, <2>6 DEF TypeOK
  <2>8. minted' \in Seq(DOMAIN decisions')
    BY <2>3 DEF TypeOK, RecordDecision
  <2>9. QED
    BY <2>2, <2>5, <2>7, <2>8 DEF TypeOK, RecordDecision
<1>2. CASE RecordOutcome(r) # "New"
  BY <1>2 DEF TypeOK, RecordDecision
<1>3. QED
  BY <1>1, <1>2

\* What issue_after_authorization mints is a token good for one use.
LEMMA NewTokenType ==
  ASSUME TypeOK, NEW d \in DOMAIN decisions
  PROVE  NewToken(d) \in Token
<1>1. d \in Nat /\ decisions[d].request \in Requests /\ now + Ttl \in Nat
  <2>1. d \in Nat /\ decisions[d] \in [request : Requests, issued : BOOLEAN]
    BY SeqElement DEF TypeOK
  <2>2. QED
    BY <2>1 DEF TypeOK
<1>2. Len(minted) + 1 \in Nat
  BY DEF TypeOK
<1>3. QED
  BY <1>1, <1>2 DEF NewToken, Canonical, Token

\* issue_after_authorization adds one token and marks its decision.
LEMMA IssueTypeOK ==
  ASSUME TypeOK, NEW d \in DOMAIN decisions, IssueAfterAuthorization(d)
  PROVE  TypeOK'
<1>1. CASE IssueOutcome(d) = "Issued"
  <2>1. decisions' = [decisions EXCEPT ![d].issued = TRUE]
    BY <1>1 DEF IssueAfterAuthorization
  <2>2. /\ decisions' \in Seq([request : Requests, issued : BOOLEAN])
        /\ DOMAIN decisions' = DOMAIN decisions
    <3> DEFINE D == [request : Requests, issued : BOOLEAN]
    <3>1. decisions \in Seq(D) /\ d \in DOMAIN decisions
      BY DEF TypeOK
    <3>2. decisions[d] \in D
      BY <3>1, SeqElement
    <3>3. [decisions[d] EXCEPT !.issued = TRUE] \in D
      BY <3>2
    <3>4. decisions' = [decisions EXCEPT ![d] = [decisions[d] EXCEPT !.issued = TRUE]]
      BY <2>1
    <3> HIDE DEF D
    <3>5. decisions' \in Seq(D) /\ DOMAIN decisions' = DOMAIN decisions
      BY <3>1, <3>3, <3>4, SeqUpdate
    <3> QED
      BY <3>5 DEF D
  <2>3. minted' = Append(minted, d)
    BY <1>1 DEF IssueAfterAuthorization
  <2>4. /\ minted' \in Seq(DOMAIN decisions')
        /\ DOMAIN minted' = DOMAIN minted \cup {Len(minted) + 1}
    BY <2>2, <2>3 DEF TypeOK
  <2>5. capabilities' = [t \in DOMAIN capabilities \cup {Len(minted) + 1} |->
                  IF t = Len(minted) + 1 THEN NewToken(d) ELSE capabilities[t]]
    BY <1>1 DEF IssueAfterAuthorization
  <2>6. capabilities' \in [DOMAIN capabilities' -> Token]
    BY <2>5, NewTokenType DEF TypeOK
  <2>7. DOMAIN capabilities' \subseteq DOMAIN minted'
    BY <2>4, <2>5 DEF TypeOK
  <2>8. executions' \in Seq([token : DOMAIN minted', binding : Presented, at : Nat])
    <3>1. executions' = executions
      BY DEF IssueAfterAuthorization
    <3>2. [token : DOMAIN minted, binding : Presented, at : Nat]
            \subseteq [token : DOMAIN minted', binding : Presented, at : Nat]
      BY <2>4
    <3>3. QED
      BY <3>1, <3>2, SeqMonotonic DEF TypeOK
  <2>9. QED
    BY <2>2, <2>4, <2>6, <2>7, <2>8 DEF TypeOK, IssueAfterAuthorization
<1>2. CASE IssueOutcome(d) # "Issued"
  BY <1>2 DEF TypeOK, IssueAfterAuthorization
<1>3. QED
  BY <1>1, <1>2

\* What an Authorized answer says about the token and the binding.
LEMMA AuthorizedMeans ==
  ASSUME NEW t, NEW p, ConsumeOutcome(t, p) = "Authorized"
  PROVE  /\ t \in DOMAIN capabilities
         /\ ~(capabilities[t].use_count >= capabilities[t].max_uses)
         /\ Covers(capabilities[t].grant, p)
  BY DEF ConsumeOutcome

\* consume changes one use count, and only from 0 to 1.
LEMMA ConsumeTypeOK ==
  ASSUME TypeOK, NEW t \in DOMAIN minted, NEW p \in Presented, Consume(t, p)
  PROVE  TypeOK'
<1>1. CASE ConsumeOutcome(t, p) = "Authorized"
  <2>1. t \in DOMAIN capabilities /\ capabilities[t].use_count = 0
    BY <1>1, AuthorizedMeans DEF TypeOK, Token
  <2>2. capabilities' = [capabilities EXCEPT ![t].use_count = @ + 1]
    BY <1>1 DEF Consume
  <2>3. /\ DOMAIN capabilities' = DOMAIN capabilities
        /\ capabilities' \in [DOMAIN capabilities' -> Token]
    <3>1. capabilities \in [DOMAIN capabilities -> Token] /\ capabilities[t] \in Token
      BY <2>1 DEF TypeOK
    <3>2. [capabilities[t] EXCEPT !.use_count = 1] \in Token
      BY <3>1 DEF Token
    <3>3. capabilities' = [capabilities EXCEPT ![t] = [capabilities[t] EXCEPT !.use_count = 1]]
      BY <2>1, <2>2
    <3>4. QED
      BY <3>1, <3>2, <3>3
  <2>4. executions' = Append(executions, [token |-> t, binding |-> p, at |-> now])
    BY <1>1 DEF Consume
  <2>5. executions' \in Seq([token : DOMAIN minted, binding : Presented, at : Nat])
    BY <2>4 DEF TypeOK
  <2>6. QED
    BY <2>3, <2>5 DEF TypeOK, Consume
<1>2. CASE ConsumeOutcome(t, p) # "Authorized"
  BY <1>2 DEF TypeOK, Consume
<1>3. QED
  BY <1>1, <1>2

\* prune_expired only shrinks the map of capabilities.
LEMMA PruneTypeOK == TypeOK /\ PruneExpired => TypeOK'
  BY DEF TypeOK, PruneExpired

\* Time passing changes no map.
LEMMA TickTypeOK == TypeOK /\ Tick => TypeOK'
  BY DEF TypeOK, Tick, store

\* No operation takes the state out of its type.
LEMMA StepTypeOK == TypeOK /\ [Next]_vars => TypeOK'
<1> SUFFICES ASSUME TypeOK, [Next]_vars PROVE TypeOK'
  OBVIOUS
<1>1. CASE UNCHANGED vars
  BY <1>1 DEF TypeOK, vars
<1>2. QED
  BY <1>1, RecordTypeOK, IssueTypeOK, ConsumeTypeOK, PruneTypeOK, TickTypeOK DEF Next

\* The state keeps its shape under every interleaving of record_decision,
\* issue_after_authorization, consume, prune_expired and the clock.
THEOREM TypeCorrect == Spec => []TypeOK
  BY InitTypeOK, StepTypeOK, PTL DEF Spec

-----------------------------------------------------------------------------
(* What each operation does to the maps, position by position.             *)

\* record_decision: a new decision at the end, indexed by its key, the rest as
\* it was.
LEMMA RecordEffect ==
  ASSUME TypeOK, NEW r \in Requests, RecordDecision(r), RecordOutcome(r) = "New"
  PROVE  LET n == Len(decisions) + 1 IN
         /\ n \notin DOMAIN decisions
         /\ DOMAIN decisions' = DOMAIN decisions \cup {n}
         /\ \A d \in DOMAIN decisions : decisions'[d] = decisions[d]
         /\ decisions'[n] = [request |-> r, issued |-> FALSE]
         /\ TxKey(r) \notin DOMAIN decision_by_tx
         /\ DOMAIN decision_by_tx' = DOMAIN decision_by_tx \cup {TxKey(r)}
         /\ \A k \in DOMAIN decision_by_tx : decision_by_tx'[k] = decision_by_tx[k]
         /\ decision_by_tx'[TxKey(r)] = n
         /\ UNCHANGED <<capabilities, minted, executions, now>>
<1> DEFINE D == [request : Requests, issued : BOOLEAN]
           e == [request |-> r, issued |-> FALSE]
<1>1. decisions \in Seq(D) /\ e \in D
  BY DEF TypeOK
<1>2. decisions' = Append(decisions, e)
  BY DEF RecordDecision
<1> HIDE DEF D, e
<1>3. /\ DOMAIN decisions' = DOMAIN decisions \cup {Len(decisions) + 1}
      /\ Len(decisions) + 1 \notin DOMAIN decisions
      /\ \A d \in DOMAIN decisions : decisions'[d] = decisions[d]
      /\ decisions'[Len(decisions) + 1] = e
  BY <1>1, <1>2, SeqAppend
<1>4. TxKey(r) \notin DOMAIN decision_by_tx
  BY DEF RecordOutcome
<1>5. QED
  BY <1>3, <1>4 DEF RecordDecision, e

\* issue_after_authorization: one decision marked, one token added, the rest as
\* it was.
LEMMA IssueEffect ==
  ASSUME TypeOK, NEW d \in DOMAIN decisions, IssueAfterAuthorization(d),
         IssueOutcome(d) = "Issued"
  PROVE  LET n == Len(minted) + 1 IN
         /\ ~decisions[d].issued
         /\ DOMAIN decisions' = DOMAIN decisions
         /\ \A c \in DOMAIN decisions :
              /\ decisions'[c].request = decisions[c].request
              /\ decisions'[c].issued = (c = d \/ decisions[c].issued)
         /\ n \notin DOMAIN minted
         /\ DOMAIN minted' = DOMAIN minted \cup {n}
         /\ \A t \in DOMAIN minted : minted'[t] = minted[t]
         /\ minted'[n] = d
         /\ DOMAIN capabilities' = DOMAIN capabilities \cup {n}
         /\ \A t \in DOMAIN capabilities : t # n /\ capabilities'[t] = capabilities[t]
         /\ capabilities'[n] = NewToken(d)
         /\ UNCHANGED <<decision_by_tx, executions, now>>
<1> DEFINE D == [request : Requests, issued : BOOLEAN]
<1>1. decisions \in Seq(D) /\ minted \in Seq(DOMAIN decisions)
  BY DEF TypeOK
<1>2. \A c \in DOMAIN decisions : decisions[c] \in D
  BY <1>1, SeqElement
<1>3. /\ decisions' = [decisions EXCEPT ![d].issued = TRUE]
      /\ minted' = Append(minted, d)
      /\ capabilities' = [t \in DOMAIN capabilities \cup {Len(minted) + 1} |->
                  IF t = Len(minted) + 1 THEN NewToken(d) ELSE capabilities[t]]
  BY DEF IssueAfterAuthorization
<1>4. /\ DOMAIN decisions' = DOMAIN decisions
      /\ \A c \in DOMAIN decisions :
              /\ decisions'[c].request = decisions[c].request
              /\ decisions'[c].issued = (c = d \/ decisions[c].issued)
  <2>1. DOMAIN decisions' = DOMAIN decisions
    BY <1>3
  <2>2. \A c \in DOMAIN decisions : c # d => decisions'[c] = decisions[c]
    BY <1>3
  <2>3. decisions'[d] = [decisions[d] EXCEPT !.issued = TRUE]
    BY <1>3
  <2>4. decisions'[d].request = decisions[d].request /\ decisions'[d].issued = TRUE
    BY <2>3, <1>2
  <2>5. QED
    BY <2>1, <2>2, <2>4, <1>2, Zenon
<1>5. /\ Len(minted) + 1 \notin DOMAIN minted
      /\ DOMAIN minted' = DOMAIN minted \cup {Len(minted) + 1}
      /\ \A t \in DOMAIN minted : minted'[t] = minted[t]
      /\ minted'[Len(minted) + 1] = d
  BY <1>1, <1>3, SeqAppend
<1>6. /\ DOMAIN capabilities' = DOMAIN capabilities \cup {Len(minted) + 1}
      /\ \A t \in DOMAIN capabilities :
           t # Len(minted) + 1 /\ capabilities'[t] = capabilities[t]
      /\ capabilities'[Len(minted) + 1] = NewToken(d)
  BY <1>3, <1>5 DEF TypeOK
<1>7. ~decisions[d].issued
  BY DEF IssueOutcome
<1>8. QED
  BY <1>4, <1>5, <1>6, <1>7 DEF IssueAfterAuthorization

\* An authorized consume: one token counted, one execution added, the rest as
\* it was.
LEMMA ConsumeEffect ==
  ASSUME TypeOK, NEW t \in DOMAIN minted, NEW p \in Presented, Consume(t, p),
         ConsumeOutcome(t, p) = "Authorized"
  PROVE  LET n == Len(executions) + 1 IN
         /\ t \in DOMAIN capabilities
         /\ capabilities[t].use_count = 0
         /\ Covers(capabilities[t].grant, p)
         /\ DOMAIN capabilities' = DOMAIN capabilities
         /\ \A u \in DOMAIN capabilities : u # t => capabilities'[u] = capabilities[u]
         /\ capabilities'[t] = [capabilities[t] EXCEPT !.use_count = 1]
         /\ n \notin DOMAIN executions
         /\ DOMAIN executions' = DOMAIN executions \cup {n}
         /\ \A i \in DOMAIN executions : executions'[i] = executions[i]
         /\ executions'[n].token = t /\ executions'[n].binding = p
         /\ UNCHANGED <<decisions, decision_by_tx, minted, now>>
<1> DEFINE E == [token : DOMAIN minted, binding : Presented, at : Nat]
           e == [token |-> t, binding |-> p, at |-> now]
<1>1. t \in DOMAIN capabilities /\ capabilities[t] \in Token
  BY AuthorizedMeans DEF TypeOK
<1>2. capabilities[t].use_count = 0 /\ Covers(capabilities[t].grant, p)
  BY <1>1, AuthorizedMeans DEF Token
<1>3. /\ capabilities' = [capabilities EXCEPT ![t].use_count = @ + 1]
      /\ executions' = Append(executions, e)
  BY DEF Consume
<1>4. /\ DOMAIN capabilities' = DOMAIN capabilities
      /\ \A u \in DOMAIN capabilities : u # t => capabilities'[u] = capabilities[u]
      /\ capabilities'[t] = [capabilities[t] EXCEPT !.use_count = 1]
  BY <1>1, <1>2, <1>3
<1>5. executions \in Seq(E) /\ e \in E
  BY DEF TypeOK
<1>6. e.token = t /\ e.binding = p
  OBVIOUS
<1> HIDE DEF E, e
<1>7. /\ Len(executions) + 1 \notin DOMAIN executions
      /\ DOMAIN executions' = DOMAIN executions \cup {Len(executions) + 1}
      /\ \A i \in DOMAIN executions : executions'[i] = executions[i]
      /\ executions'[Len(executions) + 1] = e
  BY <1>3, <1>5, SeqAppend
<1>8. QED
  BY <1>1, <1>2, <1>4, <1>6, <1>7 DEF Consume

\* prune_expired: fewer capabilities, none of them changed.
LEMMA PruneEffect ==
  ASSUME TypeOK, PruneExpired
  PROVE  /\ DOMAIN capabilities' \subseteq DOMAIN capabilities
         /\ \A t \in DOMAIN capabilities' : capabilities'[t] = capabilities[t]
         /\ \A t \in DOMAIN capabilities \ DOMAIN capabilities' :
              ~(now < capabilities[t].expires_at)
         /\ UNCHANGED <<decisions, decision_by_tx, minted, executions, now>>
  BY DEF PruneExpired

\* The positions the state holds, as members of their ranges.
LEMMA Elements ==
  ASSUME TypeOK
  PROVE  /\ \A d \in DOMAIN decisions : decisions[d].request \in Requests
         /\ \A k \in DOMAIN decision_by_tx : decision_by_tx[k] \in DOMAIN decisions
         /\ \A t \in DOMAIN minted : minted[t] \in DOMAIN decisions
         /\ \A i \in DOMAIN executions : executions[i].token \in DOMAIN minted
         /\ \A t \in DOMAIN capabilities : t \in DOMAIN minted /\ capabilities[t] \in Token
<1>1. \A d \in DOMAIN decisions : decisions[d] \in [request : Requests, issued : BOOLEAN]
  BY SeqElement DEF TypeOK
<1>2. \A i \in DOMAIN executions :
        executions[i] \in [token : DOMAIN minted, binding : Presented, at : Nat]
  BY SeqElement DEF TypeOK
<1>3. \A t \in DOMAIN minted : minted[t] \in DOMAIN decisions
  BY SeqElement DEF TypeOK
<1>4. QED
  BY <1>1, <1>2, <1>3 DEF TypeOK

-----------------------------------------------------------------------------
(* The inductive invariant, one step lemma per operation.                  *)

\* The inductive invariant holds of the empty store.
LEMMA InitIInv == Init => IInv
  BY InitTypeOK
  DEF Init, IInv, IndexConsistent, MintedOnce, TokensFaithful, ExecutionsBurn, DecisionsValid

\* record_decision keeps it: only a key without a decision gets one.
LEMMA RecordIInv ==
  ASSUME IInv, NEW r \in Requests, RecordDecision(r)
  PROVE  IInv'
<1> USE DEF IInv
<1>1. CASE RecordOutcome(r) # "New"
  BY <1>1, RecordTypeOK
     DEF RecordDecision, IndexConsistent, MintedOnce, TokensFaithful, ExecutionsBurn, DecisionsValid, Canonical
<1>2. CASE RecordOutcome(r) = "New"
  <2> USE <1>2
  <2> DEFINE n == Len(decisions) + 1
  <2>1. /\ n \notin DOMAIN decisions
        /\ DOMAIN decisions' = DOMAIN decisions \cup {n}
        /\ \A d \in DOMAIN decisions : decisions'[d] = decisions[d]
        /\ decisions'[n] = [request |-> r, issued |-> FALSE]
        /\ TxKey(r) \notin DOMAIN decision_by_tx
        /\ DOMAIN decision_by_tx' = DOMAIN decision_by_tx \cup {TxKey(r)}
        /\ \A k \in DOMAIN decision_by_tx : decision_by_tx'[k] = decision_by_tx[k]
        /\ decision_by_tx'[TxKey(r)] = n
        /\ UNCHANGED <<capabilities, minted, executions, now>>
    BY RecordEffect
  <2> HIDE DEF n
  <2>2. TypeOK'
    BY RecordTypeOK
  <2>3. IndexConsistent'
    <3>1. decisions'[n].request = r
      BY <2>1
    <3>2. \A k \in DOMAIN decision_by_tx' :
            /\ decision_by_tx'[k] \in DOMAIN decisions'
            /\ TxKey(decisions'[decision_by_tx'[k]].request) = k
      BY <2>1, <3>1 DEF IndexConsistent
    <3>3. \A d \in DOMAIN decisions' :
            LET k == TxKey(decisions'[d].request) IN
            k \in DOMAIN decision_by_tx' /\ decision_by_tx'[k] = d
      BY <2>1, <3>1 DEF IndexConsistent
    <3>4. QED
      BY <3>2, <3>3 DEF IndexConsistent, TxKey
  <2>4. MintedOnce' /\ DecisionsValid'
    <3>1. Valid(r)
      BY DEF RecordOutcome
    <3>2. decisions'[n].request = r
      BY <2>1
    <3>3. DecisionsValid'
      BY <2>1, <3>1, <3>2 DEF DecisionsValid, Valid
    <3>4. QED
      BY <2>1, <3>3, Elements DEF MintedOnce
  <2>5. TokensFaithful'
    BY <2>1, Elements DEF TokensFaithful, Canonical
  <2>6. ExecutionsBurn'
    BY <2>1, Elements DEF ExecutionsBurn, Covers
  <2>7. QED
    BY <2>2, <2>3, <2>4, <2>5, <2>6
<1>3. QED
  BY <1>1, <1>2

\* issue_after_authorization keeps it: the decision was not issued before.
LEMMA IssueIInv ==
  ASSUME IInv, NEW d \in DOMAIN decisions, IssueAfterAuthorization(d)
  PROVE  IInv'
<1> USE DEF IInv
<1>1. CASE IssueOutcome(d) # "Issued"
  BY <1>1, IssueTypeOK
     DEF IssueAfterAuthorization, IndexConsistent, MintedOnce, TokensFaithful,
         ExecutionsBurn, DecisionsValid, Canonical
<1>2. CASE IssueOutcome(d) = "Issued"
  <2> USE <1>2
  <2> DEFINE n == Len(minted) + 1
  <2>1. /\ ~decisions[d].issued
        /\ DOMAIN decisions' = DOMAIN decisions
        /\ \A c \in DOMAIN decisions :
             /\ decisions'[c].request = decisions[c].request
             /\ decisions'[c].issued = (c = d \/ decisions[c].issued)
        /\ n \notin DOMAIN minted
        /\ DOMAIN minted' = DOMAIN minted \cup {n}
        /\ \A t \in DOMAIN minted : minted'[t] = minted[t]
        /\ minted'[n] = d
        /\ DOMAIN capabilities' = DOMAIN capabilities \cup {n}
        /\ \A t \in DOMAIN capabilities : t # n /\ capabilities'[t] = capabilities[t]
        /\ capabilities'[n] = NewToken(d)
        /\ UNCHANGED <<decision_by_tx, executions, now>>
    BY IssueEffect
  <2>2. TypeOK'
    BY IssueTypeOK
  <2>3. IndexConsistent' /\ DecisionsValid'
    BY <2>1 DEF IndexConsistent, TxKey, DecisionsValid, Valid
  <2>4. MintedOnce'
    <3>1. \A t \in DOMAIN minted : minted[t] # d
      BY <2>1 DEF MintedOnce
    <3>2. QED
      BY <2>1, <3>1, Elements DEF MintedOnce
  <2>5. TokensFaithful'
    <3>1. /\ NewToken(d).decision = d
          /\ NewToken(d).grant = decisions[d].request
          /\ NewToken(d).signature = Canonical(n, NewToken(d))
      BY DEF NewToken, Canonical
    <3>2. QED
      BY <2>1, <3>1, Elements DEF TokensFaithful, Canonical
  <2>6. ExecutionsBurn'
    BY <2>1, Elements DEF ExecutionsBurn, Covers
  <2>7. QED
    BY <2>2, <2>3, <2>4, <2>5, <2>6
<1>3. QED
  BY <1>1, <1>2

\* consume keeps it: the token it burns had not been used.
LEMMA ConsumeIInv ==
  ASSUME IInv, NEW t \in DOMAIN minted, NEW p \in Presented, Consume(t, p)
  PROVE  IInv'
<1> USE DEF IInv
<1>1. CASE ConsumeOutcome(t, p) # "Authorized"
  BY <1>1, ConsumeTypeOK
     DEF Consume, IndexConsistent, MintedOnce, TokensFaithful, ExecutionsBurn, DecisionsValid, Canonical
<1>2. CASE ConsumeOutcome(t, p) = "Authorized"
  <2> USE <1>2
  <2> DEFINE n == Len(executions) + 1
  <2>1. /\ t \in DOMAIN capabilities
        /\ capabilities[t].use_count = 0
        /\ Covers(capabilities[t].grant, p)
        /\ DOMAIN capabilities' = DOMAIN capabilities
        /\ \A u \in DOMAIN capabilities : u # t => capabilities'[u] = capabilities[u]
        /\ capabilities'[t] = [capabilities[t] EXCEPT !.use_count = 1]
        /\ n \notin DOMAIN executions
        /\ DOMAIN executions' = DOMAIN executions \cup {n}
        /\ \A i \in DOMAIN executions : executions'[i] = executions[i]
        /\ executions'[n].token = t /\ executions'[n].binding = p
        /\ UNCHANGED <<decisions, decision_by_tx, minted, now>>
    BY ConsumeEffect
  <2> HIDE DEF n
  <2>2. TypeOK'
    BY ConsumeTypeOK
  <2>3. IndexConsistent' /\ MintedOnce' /\ DecisionsValid'
    BY <2>1 DEF IndexConsistent, MintedOnce, DecisionsValid
  <2>4. /\ capabilities'[t].use_count = 1
        /\ capabilities'[t].decision = capabilities[t].decision
        /\ capabilities'[t].grant = capabilities[t].grant
        /\ capabilities'[t].expires_at = capabilities[t].expires_at
        /\ capabilities'[t].max_uses = capabilities[t].max_uses
        /\ capabilities'[t].signature = capabilities[t].signature
    BY <2>1, Elements DEF Token
  <2>5. TokensFaithful'
    <3>1. ASSUME NEW u \in DOMAIN capabilities
          PROVE  /\ capabilities'[u].decision = capabilities[u].decision
                 /\ capabilities'[u].grant = capabilities[u].grant
                 /\ capabilities'[u].expires_at = capabilities[u].expires_at
                 /\ capabilities'[u].max_uses = capabilities[u].max_uses
                 /\ capabilities'[u].signature = capabilities[u].signature
      BY <2>1, <2>4
    <3>2. QED
      BY <2>1, <3>1 DEF TokensFaithful, Canonical
  <2>6. ExecutionsBurn'
    <3>1. \A i \in DOMAIN executions : executions[i].token # t
      BY <2>1 DEF ExecutionsBurn
    <3>2. Covers(decisions[minted[t]].request, p)
      BY <2>1 DEF TokensFaithful
    <3>3. \A i \in DOMAIN executions' :
            /\ Covers(decisions[minted[executions'[i].token]].request, executions'[i].binding)
            /\ executions'[i].token \in DOMAIN capabilities' =>
                 capabilities'[executions'[i].token].use_count = 1
      <4>1. ASSUME NEW i \in DOMAIN executions
            PROVE  /\ executions'[i] = executions[i]
                   /\ executions[i].token \in DOMAIN capabilities' =>
                        capabilities'[executions[i].token] = capabilities[executions[i].token]
        BY <2>1, <3>1
      <4>2. \A i \in DOMAIN executions :
              /\ Covers(decisions[minted[executions[i].token]].request, executions[i].binding)
              /\ executions[i].token \in DOMAIN capabilities =>
                   capabilities[executions[i].token].use_count = 1
        BY DEF ExecutionsBurn
      <4>3. ASSUME NEW i \in DOMAIN executions
            PROVE  /\ Covers(decisions[minted[executions'[i].token]].request,
                             executions'[i].binding)
                   /\ executions'[i].token \in DOMAIN capabilities' =>
                        capabilities'[executions'[i].token].use_count = 1
        BY <2>1, <4>1, <4>2
      <4>4. /\ Covers(decisions[minted[executions'[n].token]].request, executions'[n].binding)
            /\ capabilities'[executions'[n].token].use_count = 1
        BY <2>1, <2>4, <3>2
      <4> QED
        BY <2>1, <4>3, <4>4
    <3>4. \A i, j \in DOMAIN executions' :
            executions'[i].token = executions'[j].token => i = j
      BY <2>1, <3>1 DEF ExecutionsBurn
    <3>5. QED
      BY <2>1, <3>3, <3>4 DEF ExecutionsBurn, Covers
  <2>7. QED
    BY <2>2, <2>3, <2>5, <2>6
<1>3. QED
  BY <1>1, <1>2

\* prune_expired keeps it: decisions and history stay.
LEMMA PruneIInv == IInv /\ PruneExpired => IInv'
<1> SUFFICES ASSUME IInv, PruneExpired PROVE IInv'
  OBVIOUS
<1> USE DEF IInv
<1>1. TypeOK'
  BY PruneTypeOK
<1>2. QED
  BY <1>1, PruneEffect
     DEF IndexConsistent, MintedOnce, TokensFaithful, ExecutionsBurn, DecisionsValid, Canonical, Covers

\* Time passing keeps it: no part of it mentions the clock.
LEMMA TickIInv == IInv /\ Tick => IInv'
  BY TickTypeOK
     DEF IInv, Tick, store, IndexConsistent, MintedOnce, TokensFaithful, ExecutionsBurn, DecisionsValid,
         Canonical

\* Every step keeps the inductive invariant.
LEMMA StepIInv == IInv /\ [Next]_vars => IInv'
<1> SUFFICES ASSUME IInv, [Next]_vars PROVE IInv'
  OBVIOUS
<1>1. CASE UNCHANGED vars
  BY <1>1, StepTypeOK
     DEF vars, IInv, IndexConsistent, MintedOnce, TokensFaithful, ExecutionsBurn, DecisionsValid, Canonical
<1>2. QED
  BY <1>1, RecordIInv, IssueIInv, ConsumeIInv, PruneIInv, TickIInv DEF Next

\* The inductive invariant holds whatever the callers do, in whatever order.
THEOREM Invariance == Spec => []IInv
  BY InitIInv, StepIInv, PTL DEF Spec

-----------------------------------------------------------------------------
(* The safety properties.                                                  *)

\* A binding that covers a request is of the same transaction and authority.
LEMMA CoversKey ==
  ASSUME NEW r, NEW p, Covers(r, p)
  PROVE  TxKey(p) = TxKey(r)
  BY DEF Covers, TxKey, ProviderFields

\* The index of decisions is never lost or crossed, so the assertion of
\* record_decision cannot fail.
THEOREM IndexCorrect == Spec => []IndexConsistent
  BY Invariance, PTL DEF IInv

\* Different capabilities belong to different transactions or authorities,
\* however many callers retry or compete.
LEMMA OneCapability == IInv => OneCapabilityPerTransaction
  BY Elements DEF IInv, OneCapabilityPerTransaction, MintedOnce, IndexConsistent

\* At most one capability is ever minted for a transaction and authority,
\* under every interleaving of record_decision and issue_after_authorization.
THEOREM OneCapabilityCorrect == Spec => []OneCapabilityPerTransaction
  BY Invariance, OneCapability, PTL

\* The execution boundary is crossed at most once per transaction and
\* authority.
LEMMA OneExecution == IInv => AtMostOneExecution
<1> SUFFICES ASSUME IInv, NEW i \in DOMAIN executions, NEW j \in DOMAIN executions,
                    TxKey(executions[i].binding) = TxKey(executions[j].binding)
             PROVE  i = j
  BY DEF AtMostOneExecution
<1> DEFINE t == executions[i].token
           u == executions[j].token
<1>1. t \in DOMAIN minted /\ u \in DOMAIN minted
  BY Elements DEF IInv
<1>2. /\ TxKey(executions[i].binding) = TxKey(decisions[minted[t]].request)
      /\ TxKey(executions[j].binding) = TxKey(decisions[minted[u]].request)
  BY CoversKey DEF IInv, ExecutionsBurn
<1>3. t = u
  BY <1>1, <1>2, OneCapability DEF OneCapabilityPerTransaction
<1>4. QED
  BY <1>3 DEF IInv, ExecutionsBurn

\* consume answers Authorized at most once for a transaction and authority,
\* whatever is replayed, retried or pruned in between.
THEOREM AtMostOneExecutionCorrect == Spec => []AtMostOneExecution
  BY Invariance, OneExecution, PTL

\* Every execution agrees with the decision recorded for its transaction.
LEMMA ExecutionDecided == IInv => ExecutionsMatchDecision
<1> SUFFICES ASSUME IInv, NEW i \in DOMAIN executions
             PROVE  LET k == TxKey(executions[i].binding) IN
                    /\ k \in DOMAIN decision_by_tx
                    /\ decisions[decision_by_tx[k]].issued
                    /\ Covers(decisions[decision_by_tx[k]].request, executions[i].binding)
  BY DEF ExecutionsMatchDecision
<1> DEFINE t == executions[i].token
           d == minted[t]
<1>1. t \in DOMAIN minted /\ d \in DOMAIN decisions
  BY Elements DEF IInv
<1>2. Covers(decisions[d].request, executions[i].binding) /\ decisions[d].issued
  BY <1>1 DEF IInv, ExecutionsBurn, MintedOnce
<1>3. TxKey(executions[i].binding) = TxKey(decisions[d].request)
  BY <1>2, CoversKey
<1>4. decision_by_tx[TxKey(decisions[d].request)] = d
      /\ TxKey(decisions[d].request) \in DOMAIN decision_by_tx
  BY <1>1 DEF IInv, IndexConsistent
<1>5. QED
  BY <1>2, <1>3, <1>4

\* What consume authorized is what the one recorded decision of the transaction
\* covers.
THEOREM ExecutionsMatchCorrect == Spec => []ExecutionsMatchDecision
  BY Invariance, ExecutionDecided, PTL

\* A capability still unused and in date is honoured for what was authorized.
LEMMA FreshSpendable == IInv => FreshCapabilityIsSpendable
<1> SUFFICES ASSUME IInv, NEW t \in DOMAIN capabilities,
                    capabilities[t].use_count = 0, now < capabilities[t].expires_at
             PROVE  ConsumeOutcome(t, Binding(decisions[minted[t]].request)) = "Authorized"
  BY DEF FreshCapabilityIsSpendable
<1> DEFINE r == decisions[minted[t]].request
<1>1. capabilities[t].grant = r /\ capabilities[t].signature = Canonical(t, capabilities[t])
  BY DEF IInv, TokensFaithful
<1>2. r.authority \in Authorities
  BY Elements DEF IInv, DecisionsValid, Valid
<1>3. Covers(r, Binding(r))
  BY <1>2 DEF Covers, Binding, CheckedFields
<1>4. /\ ~(capabilities[t].use_count >= capabilities[t].max_uses)
      /\ ~(now >= capabilities[t].expires_at)
  <2>1. now \in Nat /\ capabilities[t] \in Token
    BY Elements DEF IInv, TypeOK
  <2>2. capabilities[t].expires_at \in Nat /\ capabilities[t].max_uses = 1
    BY <2>1 DEF Token
  <2>3. QED
    BY <2>1, <2>2
<1>5. QED
  BY <1>1, <1>3, <1>4 DEF ConsumeOutcome

\* consume never refuses an unused capability in date that is presented with
\* what record_decision recorded.
THEOREM FreshSpendableCorrect == Spec => []FreshCapabilityIsSpendable
  BY Invariance, FreshSpendable, PTL

\* prune_expired removes nothing consume would still have honoured.
LEMMA PruneStep == IInv /\ [Next]_vars =>
  [\A t \in DOMAIN capabilities \ DOMAIN capabilities' :
     \A p \in Presented : ConsumeOutcome(t, p) # "Authorized"]_vars
<1> SUFFICES ASSUME IInv, Next,
                    NEW t \in DOMAIN capabilities \ DOMAIN capabilities', NEW p \in Presented
             PROVE  ConsumeOutcome(t, p) # "Authorized"
  OBVIOUS
<1>1. PruneExpired
  BY DEF Next, RecordDecision, IssueAfterAuthorization, Consume, Tick, store
<1>2. now \in Nat /\ capabilities[t].expires_at \in Nat /\ ~(now < capabilities[t].expires_at)
  BY <1>1, PruneEffect, Elements DEF IInv, TypeOK, Token
<1>3. QED
  BY <1>2 DEF ConsumeOutcome

\* prune_expired never removes what consume would have authorized.
THEOREM PruneCorrect == Spec => PruneRemovesOnlyDead
  BY Invariance, PruneStep, PTL DEF Spec, PruneRemovesOnlyDead

-----------------------------------------------------------------------------
(* Refinement: the store implements SingleUseAuthority.                    *)

\* Every decision, and so every key of a capability, is of a known key.
LEMMA KeysKnown ==
  ASSUME IInv
  PROVE  /\ \A d \in DOMAIN decisions : TxKey(decisions[d].request) \in Keys
         /\ \A t \in DOMAIN minted :
              /\ KeyOf(t) \in DOMAIN decision_by_tx
              /\ decision_by_tx[KeyOf(t)] = minted[t]
              /\ decisions[decision_by_tx[KeyOf(t)]].issued
  BY Elements DEF IInv, Keys, KeyOf, IndexConsistent, MintedOnce

\* The empty store is the unclaimed authority.
LEMMA InitRefines == Init => Authority!Init
  BY DEF Init, Authority!Init, BoundTo, PhaseOf, Performed, Phase

\* A step that leaves the maps and the history alone is a stutter.
LEMMA StutterRefines ==
  ASSUME UNCHANGED <<decisions, decision_by_tx, capabilities, minted, executions>>
  PROVE  UNCHANGED <<BoundTo, PhaseOf, Performed>>
  BY DEF BoundTo, PhaseOf, Performed, Phase, KeyOf

\* A new decision binds its key.
LEMMA RecordRefines ==
  ASSUME IInv, NEW r \in Requests, RecordDecision(r), RecordOutcome(r) = "New"
  PROVE  Authority!Bind(TxKey(r), r)
<1> DEFINE n == Len(decisions) + 1
<1>1. /\ n \notin DOMAIN decisions
      /\ \A d \in DOMAIN decisions : decisions'[d] = decisions[d]
      /\ decisions'[n] = [request |-> r, issued |-> FALSE]
      /\ TxKey(r) \notin DOMAIN decision_by_tx
      /\ DOMAIN decision_by_tx' = DOMAIN decision_by_tx \cup {TxKey(r)}
      /\ \A k \in DOMAIN decision_by_tx : decision_by_tx'[k] = decision_by_tx[k]
      /\ decision_by_tx'[TxKey(r)] = n
      /\ UNCHANGED <<capabilities, minted, executions, now>>
  BY RecordEffect DEF IInv
<1> HIDE DEF n
<1>2. TxKey(r) \in Keys /\ PhaseOf[TxKey(r)] = "unclaimed"
  BY <1>1 DEF Keys, PhaseOf, Phase
<1>3. \A t \in DOMAIN minted : KeyOf(t)' = KeyOf(t)
  BY <1>1, Elements DEF IInv, KeyOf, TxKey
<1>4. Performed' = Performed
  BY <1>1, <1>3, Elements DEF IInv, Performed
<1>5. BoundTo' = [BoundTo EXCEPT ![TxKey(r)] = r]
  <2>1. \A k \in Keys : BoundTo'[k] = IF k = TxKey(r) THEN r ELSE BoundTo[k]
    BY <1>1, Elements DEF IInv, BoundTo, Keys
  <2>2. QED
    BY <2>1 DEF BoundTo, Keys
<1>6. ASSUME NEW k \in Keys
      PROVE  Phase(k)' = IF k = TxKey(r) THEN "bound" ELSE Phase(k)
  <2>1. CASE k = TxKey(r)
    BY <1>1, <2>1 DEF Phase
  <2>2. CASE k # TxKey(r) /\ k \notin DOMAIN decision_by_tx
    BY <1>1, <2>2 DEF Phase
  <2>3. CASE k # TxKey(r) /\ k \in DOMAIN decision_by_tx
    <3>1. decision_by_tx[k] \in DOMAIN decisions
      BY <2>3, Elements DEF IInv
    <3>2. (\E i \in DOMAIN executions : KeyOf(executions[i].token) = k)'
            <=> \E i \in DOMAIN executions : KeyOf(executions[i].token) = k
      BY <1>1, <1>3, Elements DEF IInv
    <3>3. (\E t \in DOMAIN capabilities : KeyOf(t) = k)'
            <=> \E t \in DOMAIN capabilities : KeyOf(t) = k
      BY <1>1, <1>3, Elements DEF IInv
    <3>4. QED
      BY <1>1, <2>3, <3>1, <3>2, <3>3 DEF Phase
  <2>4. QED
    BY <2>1, <2>2, <2>3
<1>7. PhaseOf' = [PhaseOf EXCEPT ![TxKey(r)] = "bound"]
  BY <1>6 DEF PhaseOf, Keys
<1>8. QED
  BY <1>2, <1>4, <1>5, <1>7 DEF Authority!Bind

\* Minting grants the key its capability.
LEMMA IssueRefines ==
  ASSUME IInv, NEW d \in DOMAIN decisions, IssueAfterAuthorization(d),
         IssueOutcome(d) = "Issued"
  PROVE  Authority!Grant(TxKey(decisions[d].request))
<1> PICK n : n = Len(minted) + 1
  OBVIOUS
<1> PICK K : K = TxKey(decisions[d].request)
  OBVIOUS
<1>1. /\ ~decisions[d].issued
      /\ \A c \in DOMAIN decisions :
           /\ decisions'[c].request = decisions[c].request
           /\ decisions'[c].issued = (c = d \/ decisions[c].issued)
      /\ n \notin DOMAIN minted
      /\ DOMAIN minted' = DOMAIN minted \cup {n}
      /\ \A t \in DOMAIN minted : minted'[t] = minted[t]
      /\ minted'[n] = d
      /\ DOMAIN capabilities' = DOMAIN capabilities \cup {n}
      /\ UNCHANGED <<decision_by_tx, executions, now>>
  BY IssueEffect DEF IInv
<1>2. K \in Keys /\ K \in DOMAIN decision_by_tx /\ decision_by_tx[K] = d
  BY KeysKnown DEF IInv, IndexConsistent
<1>3. \A t \in DOMAIN minted : KeyOf(t)' = KeyOf(t) /\ KeyOf(t) # K
  <2>1. \A t \in DOMAIN minted : KeyOf(t)' = KeyOf(t)
    BY <1>1, Elements DEF IInv, KeyOf, TxKey
  <2>2. \A t \in DOMAIN minted : KeyOf(t) # K
    BY <1>1, <1>2, KeysKnown
  <2>3. QED
    BY <2>1, <2>2
<1>4. KeyOf(n)' = K
  BY <1>1 DEF KeyOf, TxKey
<1>5. Performed' = Performed
  BY <1>1, <1>3, Elements DEF IInv, Performed
<1>6. BoundTo' = BoundTo
  BY <1>1, Elements DEF IInv, BoundTo
<1>7. ASSUME NEW k \in Keys
      PROVE  Phase(k)' = IF k = K THEN "granted" ELSE Phase(k)
  <2>1. (\E i \in DOMAIN executions : KeyOf(executions[i].token) = k)'
          <=> \E i \in DOMAIN executions : KeyOf(executions[i].token) = k
    BY <1>1, <1>3, Elements DEF IInv
  <2>2. CASE k = K
    <3>1. ~ \E i \in DOMAIN executions : KeyOf(executions[i].token) = k
      BY <1>3, <2>2, Elements DEF IInv
    <3>2. (\E t \in DOMAIN capabilities : KeyOf(t) = k)'
      BY <1>1, <1>4, <2>2
    <3>3. decisions'[decision_by_tx'[k]].issued /\ k \in DOMAIN decision_by_tx'
      BY <1>1, <1>2, <2>2
    <3>4. QED
      BY <2>1, <2>2, <3>1, <3>2, <3>3 DEF Phase
  <2>3. CASE k # K
    <3>1. (\E t \in DOMAIN capabilities : KeyOf(t) = k)'
            <=> \E t \in DOMAIN capabilities : KeyOf(t) = k
      BY <1>1, <1>3, <1>4, <2>3, Elements DEF IInv
    <3>2. CASE k \notin DOMAIN decision_by_tx
      BY <1>1, <2>3, <3>2 DEF Phase
    <3>3. CASE k \in DOMAIN decision_by_tx
      <4>1. decision_by_tx[k] \in DOMAIN decisions /\ decision_by_tx[k] # d
        BY <2>3, <3>3, Elements DEF IInv, IndexConsistent
      <4>2. decision_by_tx'[k] = decision_by_tx[k]
        BY <1>1
      <4>3. decisions'[decision_by_tx[k]].issued
              = (decision_by_tx[k] = d \/ decisions[decision_by_tx[k]].issued)
        BY <1>1, <4>1, Zenon
      <4>4. decisions'[decision_by_tx'[k]].issued <=> decisions[decision_by_tx[k]].issued
        BY <4>1, <4>2, <4>3
      <4>5. QED
        BY <1>1, <2>1, <2>3, <3>1, <3>3, <4>4 DEF Phase
    <3>4. QED
      BY <3>2, <3>3
  <2>4. QED
    BY <2>2, <2>3
<1>8. PhaseOf' = [PhaseOf EXCEPT ![K] = "granted"]
  BY <1>7 DEF PhaseOf, Keys
<1>9. PhaseOf[K] = "bound"
  BY <1>1, <1>2 DEF PhaseOf, Phase, Keys
<1>10. QED
  BY <1>2, <1>5, <1>6, <1>8, <1>9 DEF Authority!Grant

\* Appending to a sequence given position by position.
LEMMA AppendByPosition ==
  ASSUME NEW n \in Nat, NEW f, NEW g, NEW e,
         f = [i \in 1..n |-> f[i]], g = [i \in 1..(n + 1) |-> g[i]],
         \A i \in 1..n : g[i] = f[i], g[n + 1] = e
  PROVE  g = Append(f, e)
<1> DEFINE S == {f[i] : i \in 1..n} \cup {e}
<1>1. f \in Seq(S) /\ Len(f) = n
  <2>1. f \in [1..n -> S]
    OBVIOUS
  <2>2. QED
    BY <2>1
<1>2. g \in Seq(S) /\ Len(g) = n + 1
  <2>1. \A i \in 1..(n + 1) : i \in 1..n \/ i = n + 1
    OBVIOUS
  <2>2. \A i \in 1..n : g[i] \in S
    OBVIOUS
  <2>3. g[n + 1] \in S
    OBVIOUS
  <2>4. g \in [1..(n + 1) -> S]
    BY <2>1, <2>2, <2>3
  <2>5. QED
    BY <2>4
<1> HIDE DEF S
<1>3. e \in S
  BY DEF S
<1>4. /\ Append(f, e) \in Seq(S) /\ Len(Append(f, e)) = n + 1
      /\ \A i \in 1..(n + 1) : Append(f, e)[i] = g[i]
  <2>1. Append(f, e) \in Seq(S) /\ Len(Append(f, e)) = n + 1
    BY <1>1, <1>3
  <2>2. \A i \in 1..n : Append(f, e)[i] = f[i]
    BY <1>1, <1>3
  <2>3. Append(f, e)[n + 1] = e
    BY <1>1, <1>3
  <2>4. \A i \in 1..(n + 1) : i \in 1..n \/ i = n + 1
    OBVIOUS
  <2>5. QED
    BY <2>1, <2>2, <2>3, <2>4
<1>5. QED
  BY <1>2, <1>4, SeqEqual

\* An authorized consume performs the effect, once, within the grant.
LEMMA ConsumeRefines ==
  ASSUME IInv, NEW t \in DOMAIN minted, NEW p \in Presented, Consume(t, p),
         ConsumeOutcome(t, p) = "Authorized"
  PROVE  Authority!Perform(KeyOf(t), p)
<1> PICK n : n = Len(executions) + 1
  OBVIOUS
<1> PICK K : K = KeyOf(t)
  OBVIOUS
<1>1. /\ t \in DOMAIN capabilities
      /\ capabilities[t].use_count = 0
      /\ Covers(capabilities[t].grant, p)
      /\ DOMAIN capabilities' = DOMAIN capabilities
      /\ n \notin DOMAIN executions
      /\ DOMAIN executions' = DOMAIN executions \cup {n}
      /\ \A i \in DOMAIN executions : executions'[i] = executions[i]
      /\ executions'[n].token = t /\ executions'[n].binding = p
      /\ UNCHANGED <<decisions, decision_by_tx, minted, now>>
  BY ConsumeEffect DEF IInv
<1>2. /\ K \in DOMAIN decision_by_tx
      /\ decision_by_tx[K] = minted[t]
      /\ decisions[decision_by_tx[K]].issued
      /\ K \in Keys
  BY KeysKnown, Elements DEF IInv, KeyOf
<1>3. \A u \in DOMAIN minted : KeyOf(u) = K => u = t
  BY <1>2, KeysKnown DEF IInv, MintedOnce
<1>4. \A i \in DOMAIN executions : KeyOf(executions[i].token) # K
  BY <1>1, <1>3, Elements DEF IInv, ExecutionsBurn
<1>5. PhaseOf[K] = "granted"
  BY <1>1, <1>2, <1>4 DEF PhaseOf, Phase, Keys
<1>6. <<BoundTo[K], p>> \in {a \in Requests \X Presented : Covers(a[1], a[2])}
  <2>1. BoundTo[K] = decisions[minted[t]].request
    BY <1>2 DEF BoundTo, Keys
  <2>2. capabilities[t].grant = BoundTo[K] /\ BoundTo[K] \in Requests
    BY <1>1, <2>1, Elements DEF IInv, TokensFaithful
  <2>3. QED
    BY <1>1, <2>2
<1>7. BoundTo' = BoundTo
  BY <1>1 DEF BoundTo
<1>8. \A u : KeyOf(u)' = KeyOf(u)
  BY <1>1 DEF KeyOf, TxKey
<1>9. ASSUME NEW k \in Keys
      PROVE  Phase(k)' = IF k = K THEN "spent" ELSE Phase(k)
  <2>1. (\E i \in DOMAIN executions : KeyOf(executions[i].token) = k)'
          <=> (k = K \/ \E i \in DOMAIN executions : KeyOf(executions[i].token) = k)
    <3>1. KeyOf(t)' = K
      BY <1>8
    <3>2. \A i \in DOMAIN executions :
            KeyOf(executions[i].token)' = KeyOf(executions[i].token)
      BY <1>1 DEF KeyOf, TxKey
    <3>3. KeyOf(executions[n].token)' = K
      BY <1>1, <1>8 DEF KeyOf, TxKey
    <3>4. QED
      BY <1>1, <3>2, <3>3
  <2>2. (\E u \in DOMAIN capabilities : KeyOf(u) = k)'
          <=> \E u \in DOMAIN capabilities : KeyOf(u) = k
    BY <1>1, <1>8
  <2>3. CASE k = K
    BY <1>1, <1>2, <2>1, <2>3 DEF Phase
  <2>4. CASE k # K
    BY <1>1, <2>1, <2>2, <2>4 DEF Phase
  <2>5. QED
    BY <2>3, <2>4
<1>10. PhaseOf' = [PhaseOf EXCEPT ![K] = "spent"]
  BY <1>9 DEF PhaseOf, Keys
<1>11. Performed' = Append(Performed, <<K, p>>)
  <2>1. Len(executions) \in Nat /\ DOMAIN executions = 1..Len(executions)
    BY DEF IInv, TypeOK
  <2>2. DOMAIN executions' = 1..(Len(executions) + 1)
    BY <1>1, <2>1
  <2>3. /\ Performed = [i \in 1..Len(executions) |-> Performed[i]]
        /\ Performed' = [i \in 1..(Len(executions) + 1) |-> Performed'[i]]
    BY <2>1, <2>2 DEF Performed
  <2>4. \A i \in 1..Len(executions) : Performed'[i] = Performed[i]
    BY <1>1, <1>8, <2>1, <2>2 DEF Performed
  <2>5. Performed'[Len(executions) + 1] = <<K, p>>
    BY <1>1, <1>8 DEF Performed
  <2>6. QED
    BY <2>1, <2>3, <2>4, <2>5, AppendByPosition
<1>12. QED
  BY <1>2, <1>5, <1>6, <1>7, <1>10, <1>11 DEF Authority!Perform

\* Pruning lets the keys lapse whose unspent capability it removed.
LEMMA PruneRefines ==
  ASSUME IInv, PruneExpired
  PROVE  \E K \in SUBSET Keys : Authority!Lapse(K)
<1> DEFINE K == {k \in Keys : Phase(k) = "granted" /\ Phase(k)' # "granted"}
<1>1. /\ DOMAIN capabilities' \subseteq DOMAIN capabilities
      /\ UNCHANGED <<decisions, decision_by_tx, minted, executions, now>>
  BY PruneEffect DEF IInv
<1>2. \A u : KeyOf(u)' = KeyOf(u)
  BY <1>1 DEF KeyOf, TxKey
<1>3. BoundTo' = BoundTo /\ Performed' = Performed
  BY <1>1, <1>2 DEF BoundTo, Performed
<1>4. ASSUME NEW k \in Keys
      PROVE  Phase(k)' = IF k \in K THEN "lapsed" ELSE Phase(k)
  <2>1. (\E i \in DOMAIN executions : KeyOf(executions[i].token) = k)'
          <=> \E i \in DOMAIN executions : KeyOf(executions[i].token) = k
    BY <1>1, <1>2
  <2>2. (\E u \in DOMAIN capabilities : KeyOf(u) = k)'
          => \E u \in DOMAIN capabilities : KeyOf(u) = k
    BY <1>1, <1>2
  <2>3. QED
    BY <1>1, <2>1, <2>2 DEF Phase
<1>5. PhaseOf' = [k \in Keys |-> IF k \in K THEN "lapsed" ELSE PhaseOf[k]]
  BY <1>4 DEF PhaseOf, Keys
<1>6. \A k \in K : PhaseOf[k] = "granted"
  BY DEF PhaseOf, Keys
<1> HIDE DEF K
<1>7. Authority!Lapse(K)
  BY <1>3, <1>5, <1>6 DEF Authority!Lapse, Keys
<1>8. K \in SUBSET Keys
  BY DEF K
<1>9. QED
  BY <1>7, <1>8

\* Every step of the store is a step of the authority or a stutter.
LEMMA StepRefines ==
  IInv /\ [Next]_vars => [Authority!Next]_<<BoundTo, PhaseOf, Performed>>
<1> SUFFICES ASSUME IInv, [Next]_vars
             PROVE  Authority!Next \/ UNCHANGED <<BoundTo, PhaseOf, Performed>>
  OBVIOUS
<1>1. ASSUME NEW r \in Requests, RecordDecision(r)
      PROVE  Authority!Next \/ UNCHANGED <<BoundTo, PhaseOf, Performed>>
  <2>1. CASE RecordOutcome(r) = "New"
    BY <1>1, <2>1, RecordRefines DEF Authority!Next
  <2>2. CASE RecordOutcome(r) # "New"
    BY <1>1, <2>2, StutterRefines DEF RecordDecision
  <2>3. QED
    BY <2>1, <2>2
<1>2. ASSUME NEW d \in DOMAIN decisions, IssueAfterAuthorization(d)
      PROVE  Authority!Next \/ UNCHANGED <<BoundTo, PhaseOf, Performed>>
  <2>1. CASE IssueOutcome(d) = "Issued"
    <3>1. TxKey(decisions[d].request) \in Keys
      BY KeysKnown
    <3>2. QED
      BY <1>2, <2>1, <3>1, IssueRefines DEF Authority!Next, Keys
  <2>2. CASE IssueOutcome(d) # "Issued"
    BY <1>2, <2>2, StutterRefines DEF IssueAfterAuthorization
  <2>3. QED
    BY <2>1, <2>2
<1>3. ASSUME NEW t \in DOMAIN minted, NEW p \in Presented, Consume(t, p)
      PROVE  Authority!Next \/ UNCHANGED <<BoundTo, PhaseOf, Performed>>
  <2>1. CASE ConsumeOutcome(t, p) = "Authorized"
    <3>1. KeyOf(t) \in Keys
      BY KeysKnown, Elements DEF IInv, KeyOf
    <3>2. QED
      BY <1>3, <2>1, <3>1, ConsumeRefines DEF Authority!Next, Keys
  <2>2. CASE ConsumeOutcome(t, p) # "Authorized"
    BY <1>3, <2>2, StutterRefines DEF Consume
  <2>3. QED
    BY <2>1, <2>2
<1>4. CASE PruneExpired
  BY <1>4, PruneRefines DEF Authority!Next, Keys
<1>5. CASE Tick \/ UNCHANGED vars
  BY <1>5, StutterRefines DEF Tick, store, vars
<1>6. QED
  BY <1>1, <1>2, <1>3, <1>4, <1>5 DEF Next

\* Under every interleaving the store behaves as one single-use authority per
\* transaction and authority.
THEOREM Refinement == Spec => ImplementsSingleUse
  BY InitRefines, StepRefines, Invariance, PTL
  DEF Spec, ImplementsSingleUse, Authority!Spec
=============================================================================
