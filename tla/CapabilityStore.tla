-------------------------- MODULE CapabilityStore --------------------------
(***************************************************************************)
(* The capability store of capability.rs: decisions, the capabilities      *)
(* minted from them and the (gov_tx_id|authority) index, all three behind  *)
(* one write lock. Each operation takes that lock once, so each is one     *)
(* action; what interleaves is the operations of different callers, which  *)
(* Next leaves free. A caller goes through record_decision and then, under *)
(* a second acquisition of the lock, issue_after_authorization.            *)
(*                                                                         *)
(* An identifier the code draws at random (a UUID) is the position at      *)
(* which its holder was created: decisions are never removed, so they are  *)
(* a sequence; capabilities can be pruned, so they are a partial function  *)
(* on the positions of minted.                                             *)
(***************************************************************************)
EXTENDS Integers, Sequences

CONSTANTS
  Requests,    \* the DecisionRequests callers can make
  Presented,   \* the bindings executors can present, fields of CheckedFields
  Digests,     \* the strings is_sha256_hex accepts
  Empty,       \* a blank field
  Ttl,         \* default_ttl_secs, positive: with_ttl_secs rejects the rest
  MaxTime      \* bound on the clock

AUTHORITY_PROVIDER_EXECUTE == "provider.execute"
AUTHORITY_ACTION_EXECUTE   == "action.execute"
Authorities == {AUTHORITY_PROVIDER_EXECUTE, AUTHORITY_ACTION_EXECUTE}

ASSUME TtlAssumption == Ttl \in Nat \ {0} /\ MaxTime \in Nat

VARIABLES
  decisions,       \* every decision recorded, in order
  decision_by_tx,  \* <<gov_tx_id, authority>> -> position in decisions
  capabilities,    \* token id -> the stored capability
  minted,          \* history: the decision each token id was minted from
  executions,      \* history: every Authorized answer of consume
  now              \* Utc::now

store == <<decisions, decision_by_tx, capabilities, minted>>
vars  == <<decisions, decision_by_tx, capabilities, minted, executions, now>>

-----------------------------------------------------------------------------
(* Requests and what is compared of them. Fields that are always compared  *)
(* together are one: resource is the kind and the locator, action_class    *)
(* the class, the normalized action and its criticality, basis the verdict,*)
(* the disposition, the agency and the DRS the decision was taken at.      *)

TxKey(r) == <<r.gov_tx_id, r.authority>>

\* What a retry must repeat: policy_hash and basis are not among it.
ScopeFields ==
  {"session_id", "principal_fingerprint", "backend", "model", "action_class",
   "run_id", "context_hash", "policy_version", "action_hash", "tool_name",
   "resource", "tool_call_id", "action_plane"}

SameScope(r, q) == \A f \in ScopeFields : r[f] = q[f]

\* What consume compares with the presented binding, action_class apart.
ProviderFields ==
  {"authority", "principal_fingerprint", "gov_tx_id", "session_id", "run_id",
   "context_hash", "policy_version", "policy_hash", "backend", "model"}
ActionFields ==
  {"action_hash", "tool_name", "resource", "tool_call_id", "action_plane"}
CheckedFields == ProviderFields \cup ActionFields

Binding(r) == [f \in CheckedFields |-> r[f]]

\* Does the presented binding agree with the granted request?
Covers(r, p) ==
  /\ r.authority \in Authorities
  /\ \A f \in ProviderFields : r[f] = p[f]
  /\ r.authority = AUTHORITY_ACTION_EXECUTE => \A f \in ActionFields : r[f] = p[f]

RequiredFields(authority) ==
  {"gov_tx_id", "session_id", "principal_fingerprint", "basis", "policy_hash",
   "run_id", "context_hash", "policy_version", "action_class"} \cup
  (IF authority = AUTHORITY_PROVIDER_EXECUTE
   THEN {"backend", "model"}
   ELSE {"action_hash", "tool_name", "resource", "tool_call_id"})

DigestFields(authority) ==
  {"context_hash", "policy_hash"} \cup
  (IF authority = AUTHORITY_ACTION_EXECUTE THEN {"action_hash"} ELSE {})

Valid(r) ==
  /\ r.authority \in Authorities
  /\ \A f \in RequiredFields(r.authority) : r[f] # Empty
  /\ \A f \in DigestFields(r.authority) : r[f] \in Digests

-----------------------------------------------------------------------------
(* record_decision                                                         *)

\* Variant with a fault: a conflicting scope replaces the decision of its transaction.
RecordOutcome_NoConflict(r) ==
  IF ~Valid(r) THEN "Invalid"
  ELSE IF TxKey(r) \in DOMAIN decision_by_tx
          /\ SameScope(r, decisions[decision_by_tx[TxKey(r)]].request)
       THEN "Existing" ELSE "New"

RecordOutcome(r) ==
  IF ~Valid(r) THEN "Invalid"
  ELSE IF TxKey(r) \notin DOMAIN decision_by_tx THEN "New"
  ELSE IF SameScope(r, decisions[decision_by_tx[TxKey(r)]].request) THEN "Existing"
  ELSE "TransactionScopeConflict"

\* The decision id record_decision hands back when it succeeds.
RecordedId(r) ==
  IF TxKey(r) \in DOMAIN decision_by_tx THEN decision_by_tx[TxKey(r)]
  ELSE Len(decisions) + 1

RecordDecision(r) ==
  /\ IF RecordOutcome(r) = "New"
     THEN /\ decisions' = Append(decisions, [request |-> r, issued |-> FALSE])
          /\ decision_by_tx' =
               [k \in DOMAIN decision_by_tx \cup {TxKey(r)} |->
                  IF k = TxKey(r) THEN Len(decisions) + 1 ELSE decision_by_tx[k]]
     ELSE UNCHANGED <<decisions, decision_by_tx>>
  /\ UNCHANGED <<capabilities, minted, executions, now>>

-----------------------------------------------------------------------------
(* issue_after_authorization                                               *)

\* Variant with a fault: a decision is issued a capability whenever it is asked for.
IssueOutcome_Reissues(d) ==
  IF d \notin DOMAIN decisions THEN "DecisionNotFound" ELSE "Issued"

IssueOutcome(d) ==
  IF d \notin DOMAIN decisions THEN "DecisionNotFound"
  ELSE IF decisions[d].issued THEN "AlreadyIssued"
  ELSE "Issued"

\* The signature covers every field but use_count.
Canonical(t, tok) == <<t, tok.decision, tok.grant, tok.expires_at, tok.max_uses>>

NewToken(d) ==
  LET t   == Len(minted) + 1
      tok == [decision |-> d, grant |-> decisions[d].request,
              expires_at |-> now + Ttl, max_uses |-> 1]
  IN [decision |-> tok.decision, grant |-> tok.grant, expires_at |-> tok.expires_at,
      max_uses |-> tok.max_uses, use_count |-> 0, signature |-> Canonical(t, tok)]

IssueAfterAuthorization(d) ==
  /\ IF IssueOutcome(d) = "Issued"
     THEN /\ decisions' = [decisions EXCEPT ![d].issued = TRUE]
          /\ minted' = Append(minted, d)
          /\ capabilities' =
               [t \in DOMAIN capabilities \cup {Len(minted) + 1} |->
                  IF t = Len(minted) + 1 THEN NewToken(d) ELSE capabilities[t]]
     ELSE UNCHANGED <<decisions, minted, capabilities>>
  /\ UNCHANGED <<decision_by_tx, executions, now>>

-----------------------------------------------------------------------------
(* consume: every check and the burn under one write guard. The checks on  *)
(* the binding differ only in the error they name, so they are one outcome.*)

\* Variant with a fault: expired one tick early.
ConsumeOutcome_EarlyExpiry(t, p) ==
  IF t \notin DOMAIN capabilities THEN "NotFound"
  ELSE LET tok == capabilities[t] IN
       IF tok.signature # Canonical(t, tok) THEN "SignatureInvalid"
       ELSE IF tok.use_count >= tok.max_uses THEN "AlreadyConsumed"
       ELSE IF now + 1 >= tok.expires_at THEN "Expired"
       ELSE IF ~Covers(tok.grant, p) THEN "Mismatch"
       ELSE "Authorized"

\* Variant with a fault: the use count is not looked at.
ConsumeOutcome_NoUseCheck(t, p) ==
  IF t \notin DOMAIN capabilities THEN "NotFound"
  ELSE LET tok == capabilities[t] IN
       IF tok.signature # Canonical(t, tok) THEN "SignatureInvalid"
       ELSE IF now >= tok.expires_at THEN "Expired"
       ELSE IF ~Covers(tok.grant, p) THEN "Mismatch"
       ELSE "Authorized"

ConsumeOutcome(t, p) ==
  IF t \notin DOMAIN capabilities THEN "NotFound"
  ELSE LET tok == capabilities[t] IN
       IF tok.signature # Canonical(t, tok) THEN "SignatureInvalid"
       ELSE IF tok.use_count >= tok.max_uses THEN "AlreadyConsumed"
       ELSE IF now >= tok.expires_at THEN "Expired"
       ELSE IF ~Covers(tok.grant, p) THEN "Mismatch"
       ELSE "Authorized"

Consume(t, p) ==
  /\ IF ConsumeOutcome(t, p) = "Authorized"
     THEN /\ capabilities' = [capabilities EXCEPT ![t].use_count = @ + 1]
          /\ executions' = Append(executions, [token |-> t, binding |-> p, at |-> now])
     ELSE UNCHANGED <<capabilities, executions>>
  /\ UNCHANGED <<decisions, decision_by_tx, minted, now>>

-----------------------------------------------------------------------------
(* prune_expired keeps the capabilities still valid.                       *)

PruneExpired ==
  /\ capabilities' = [t \in {u \in DOMAIN capabilities : now < capabilities[u].expires_at} |->
                        capabilities[t]]
  /\ UNCHANGED <<decisions, decision_by_tx, minted, executions, now>>

Tick ==
  /\ now < MaxTime
  /\ now' = now + 1
  /\ UNCHANGED <<store, executions>>

-----------------------------------------------------------------------------
Init ==
  /\ decisions = <<>>
  /\ decision_by_tx = [k \in {} |-> 0]
  /\ capabilities = [t \in {} |-> 0]
  /\ minted = <<>>
  /\ executions = <<>>
  /\ now = 0

Next ==
  \/ \E r \in Requests : RecordDecision(r)
  \/ \E d \in DOMAIN decisions : IssueAfterAuthorization(d)
  \/ \E t \in DOMAIN minted, p \in Presented : Consume(t, p)
  \/ PruneExpired
  \/ Tick

Spec == Init /\ [][Next]_vars

-----------------------------------------------------------------------------
(* Type invariant. Token ids and decision ids are positions.               *)

Token ==
  [decision : Nat, grant : Requests, expires_at : Nat, max_uses : {1},
   use_count : {0, 1}, signature : Nat \X Nat \X Requests \X Nat \X {1}]

\* The maps of CapabilityState refer to each other, and a stored capability is
\* good for one use.
TypeOK ==
  /\ decisions \in Seq([request : Requests, issued : BOOLEAN])
  /\ DOMAIN decision_by_tx \subseteq {TxKey(r) : r \in Requests}
  /\ decision_by_tx \in [DOMAIN decision_by_tx -> DOMAIN decisions]
  /\ minted \in Seq(DOMAIN decisions)
  /\ DOMAIN capabilities \subseteq DOMAIN minted
  /\ capabilities \in [DOMAIN capabilities -> Token]
  /\ executions \in Seq([token : DOMAIN minted, binding : Presented, at : Nat])
  /\ now \in Nat

-----------------------------------------------------------------------------
(* Safety.                                                                 *)

\* The assertion of record_decision, .expect("index/decision invariant"): an
\* indexed decision exists and is the one of its key, and no decision is
\* outside the index (a lost entry would let a second scope in).
IndexConsistent ==
  /\ \A k \in DOMAIN decision_by_tx :
       /\ decision_by_tx[k] \in DOMAIN decisions
       /\ TxKey(decisions[decision_by_tx[k]].request) = k
  /\ \A d \in DOMAIN decisions :
       LET k == TxKey(decisions[d].request) IN
       k \in DOMAIN decision_by_tx /\ decision_by_tx[k] = d

\* However retries, conflicting requests and issue calls interleave, a
\* transaction gets at most one capability per authority, pruned ones included.
OneCapabilityPerTransaction ==
  \A t, u \in DOMAIN minted :
    t # u => TxKey(decisions[minted[t]].request) # TxKey(decisions[minted[u]].request)

\* consume answers Authorized at most once per transaction and authority:
\* neither a replay nor a retry crosses the execution boundary twice.
AtMostOneExecution ==
  \A i, j \in DOMAIN executions :
    i # j => TxKey(executions[i].binding) # TxKey(executions[j].binding)

\* What was executed is what the one decision recorded for its transaction
\* allowed, in every field consume is meant to compare.
ExecutionsMatchDecision ==
  \A i \in DOMAIN executions :
    LET k == TxKey(executions[i].binding) IN
    /\ k \in DOMAIN decision_by_tx
    /\ decisions[decision_by_tx[k]].issued
    /\ Covers(decisions[decision_by_tx[k]].request, executions[i].binding)

\* The converse of the checks of consume: a capability still unused and in
\* date is honoured for the executor that presents what was authorized.
FreshCapabilityIsSpendable ==
  \A t \in DOMAIN capabilities :
    (capabilities[t].use_count = 0 /\ now < capabilities[t].expires_at) =>
      ConsumeOutcome(t, Binding(decisions[minted[t]].request)) = "Authorized"

\* prune_expired and consume agree on the boundary of validity: what pruning
\* removes no presentation could have spent any more.
PruneRemovesOnlyDead ==
  [][\A t \in DOMAIN capabilities \ DOMAIN capabilities' :
       \A p \in Presented : ConsumeOutcome(t, p) # "Authorized"]_vars

-----------------------------------------------------------------------------
(* The inductive invariant behind the safety properties.                   *)

\* Only a validated request becomes a decision.
DecisionsValid == \A d \in DOMAIN decisions : Valid(decisions[d].request)

\* A decision is marked issued in the same critical section that mints its
\* capability, hence at most once.
MintedOnce ==
  /\ \A t \in DOMAIN minted : decisions[minted[t]].issued
  /\ \A t, u \in DOMAIN minted : minted[t] = minted[u] => t = u

\* A stored capability is an authentic copy of the decision it came from.
TokensFaithful ==
  \A t \in DOMAIN capabilities :
    /\ capabilities[t].decision = minted[t]
    /\ capabilities[t].grant = decisions[minted[t]].request
    /\ capabilities[t].signature = Canonical(t, capabilities[t])

\* An execution leaves its capability burnt, or pruned, never usable.
ExecutionsBurn ==
  /\ \A i \in DOMAIN executions :
       /\ Covers(decisions[minted[executions[i].token]].request, executions[i].binding)
       /\ executions[i].token \in DOMAIN capabilities =>
            capabilities[executions[i].token].use_count = 1
  /\ \A i, j \in DOMAIN executions : executions[i].token = executions[j].token => i = j

IInv ==
  /\ TypeOK /\ IndexConsistent /\ DecisionsValid
  /\ MintedOnce /\ TokensFaithful /\ ExecutionsBurn

-----------------------------------------------------------------------------
(* The store implements one single-use authority per transaction.          *)

NoGrant == "none"

KeyOf(t) == TxKey(decisions[minted[t]].request)

Phase(k) ==
  IF k \notin DOMAIN decision_by_tx THEN "unclaimed"
  ELSE IF ~decisions[decision_by_tx[k]].issued THEN "bound"
  ELSE IF \E i \in DOMAIN executions : KeyOf(executions[i].token) = k THEN "spent"
  ELSE IF \E t \in DOMAIN capabilities : KeyOf(t) = k THEN "granted"
  ELSE "lapsed"

BoundTo == [k \in {TxKey(r) : r \in Requests} |->
              IF k \in DOMAIN decision_by_tx
              THEN decisions[decision_by_tx[k]].request ELSE NoGrant]
PhaseOf == [k \in {TxKey(r) : r \in Requests} |-> Phase(k)]
Performed == [i \in DOMAIN executions |->
                <<KeyOf(executions[i].token), executions[i].binding>>]

Authority == INSTANCE SingleUseAuthority WITH
  Keys      <- {TxKey(r) : r \in Requests},
  Grants    <- Requests,
  Effects   <- Presented,
  Allowed   <- {a \in Requests \X Presented : Covers(a[1], a[2])},
  bound     <- BoundTo,
  phase     <- PhaseOf,
  performed <- Performed

\* Refinement: whatever the callers do, a transaction goes from unclaimed to
\* bound to granted to spent or lapsed, and its grant never changes.
ImplementsSingleUse == Authority!Spec
=============================================================================
