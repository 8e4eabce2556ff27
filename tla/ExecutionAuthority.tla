------------------------- MODULE ExecutionAuthority -------------------------
(***************************************************************************)
(* How an approved context becomes an execution: pipeline.rs over the      *)
(* verdict ledger and the capability store, with the HTTP threads of       *)
(* server.rs interleaved at every lock they take. A context inspection     *)
(* that ends APPROVED publishes a verdict; /provider/authorize and         *)
(* /action/authorize look the verdict up, resolve it, record a decision    *)
(* and issue a capability; the response may be lost; the capability is     *)
(* consumed by whoever holds it. The security state of a session moves     *)
(* under all of this: it is the Arbiter's, here only its value.            *)
(***************************************************************************)
EXTENDS VerdictLedger, ActionPolicy, FiniteSets

CONSTANTS
  Calls,      \* authorization requests, their basis and plane still to be filled in
  Found,      \* the patterns in the arguments and the locator of each call
  Levels,     \* the security states layers raise a session to, 2 (S2) to 4 (S4)
  MaxVerdicts,                              \* bound on the verdicts recorded
  Presented, Digests, Empty, Ttl, MaxTime   \* as in CapabilityStore

ASSUME BoundsAssumption == MaxVerdicts \in Nat /\ Levels \subseteq 2..4

ASSUME FoundAssumption == Found \in [Calls -> SUBSET Patterns]

\* The hash of a context seals the run it belongs to.
ASSUME HashAssumption ==
  \A a, b \in Approvals :
    a.context_hash = b.context_hash /\ a.context_hash # NoContext => a.run_id = b.run_id

VARIABLES
  decisions, decision_by_tx, capabilities, minted, executions, now,
  job,      \* what each thread is doing
  state,    \* the security state of each session, 1 (S1) to 4 (S4)
  told,     \* history: the approvals callers were told of
  handed    \* history: <<token, call>>, the capabilities delivered and to what

\* The plane is the server's, derived from the tool name and never taken from a
\* caller; a provider call, which names no tool, is on the tool plane too.
OnItsPlane(r) == [r EXCEPT !.action_plane = derive_action_semantics(r.tool_name)]

\* The request as recorded, with the verdict it rests on.
OnVerdict(r, v) == [OnItsPlane(r) EXCEPT !.basis = v]

Store == INSTANCE CapabilityStore WITH
  Requests  <- {OnVerdict(r, v) : r \in Calls, v \in 1..MaxVerdicts},
  Presented <- {OnItsPlane(p) : p \in Presented}

\* as in CapabilityStore
ASSUME StoreAssumption == Ttl \in Nat \ {0} /\ MaxTime \in Nat

\* A request has the fields a retry must repeat, and those filled in here.
ASSUME CallsAssumption ==
  \A r \in Calls : Store!ScopeFields \cup {"gov_tx_id", "authority", "basis"} \subseteq DOMAIN r

\* An executor has to present every field that is compared.
ASSUME PresentedAssumption == \A p \in Presented : Store!CheckedFields \subseteq DOMAIN p

stores == <<decisions, decision_by_tx, capabilities, minted, executions, now>>
vars   == <<ledger, stores, job, state, told, handed>>

Sessions == {r.session_id : r \in Calls} \cup {a.session_id : a \in Approvals}

Idle == [pc |-> "idle"]

Become(t, j) == job' = [job EXCEPT ![t] = j]

-----------------------------------------------------------------------------
(* POST /inspect and /context/inspect, from the decision on. What the      *)
(* layers did before it is Degrade.                                        *)

\* The final state is read: S1 is APPROVED.
DecideApproved(t, a) ==
  /\ job[t] = Idle
  /\ state[a.session_id] = 1
  /\ Len(verdicts) + Cardinality({u \in Threads : job[u].pc = "approved"}) < MaxVerdicts
  /\ Become(t, [pc |-> "approved", approval |-> a])
  /\ UNCHANGED <<ledger, stores, state, told, handed>>

RecordApproval(t) ==
  /\ job[t].pc = "approved"
  /\ RecordFinalApproved(t, job[t].approval)
  /\ Become(t, [job[t] EXCEPT !.pc = "publishing"])
  /\ UNCHANGED <<stores, state, told, handed>>

IndexApproval(t) ==
  /\ job[t].pc = "publishing"
  /\ IndexByTx(t) \/ IndexByContext(t)
  /\ UNCHANGED <<stores, job, state, told, handed>>

\* Variant with a fault: the caller is told before the indexes are written.
ReplyApproved_Early(t) ==
  /\ job[t].pc = "publishing"
  /\ told' = told \cup {job[t].approval}
  /\ Become(t, Idle)
  /\ UNCHANGED <<ledger, stores, state, handed>>

ReplyApproved(t) ==
  /\ job[t].pc = "publishing"
  /\ publishing[t] = NotPublishing
  /\ told' = told \cup {job[t].approval}
  /\ Become(t, Idle)
  /\ UNCHANGED <<ledger, stores, state, handed>>

-----------------------------------------------------------------------------
(* authorize_provider_execution and authorize_action_execution.            *)

\* approved_verdict_id_by_context: no approved context, no authorization.
BeginAuthorize(t, r) ==
  /\ job[t] = Idle
  /\ r.context_hash \in Digests
  /\ LET v == approved_verdict_id_by_context(r.context_hash, r.session_id) IN
     /\ v # NoVerdict
     /\ Become(t, [pc |-> "resolve", call |-> r, verdict |-> v])
  /\ UNCHANGED <<ledger, stores, state, told, handed>>

Denied ==
  {r \in Calls : r.authority = "action.execute" /\
                 evaluate_strict(r.tool_name, Found[r]) = "Deny"}

\* Variant with a fault: any run may use the approval.
MayAuthorize_AnyRun(r, v) ==
  /\ resolve_by_context(v, r.session_id) = "Found"
  /\ verdicts[v].final_approved /\ verdicts[v].direction = "Inbound"
  /\ verdicts[v].context_hash = r.context_hash
  /\ r \notin Denied

\* The checks on the resolved record; the action path then seals the
\* ActionEnvelope and has it evaluated.
MayAuthorize(r, v) ==
  /\ resolve_by_context(v, r.session_id) = "Found"
  /\ verdicts[v].final_approved
  /\ verdicts[v].direction = "Inbound"
  /\ verdicts[v].context_hash = r.context_hash
  /\ verdicts[v].run_id = r.run_id
  /\ r \notin Denied

ResolveVerdict(t) ==
  /\ job[t].pc = "resolve"
  /\ Become(t, IF MayAuthorize(job[t].call, job[t].verdict)
               THEN [job[t] EXCEPT !.pc = "record"] ELSE Idle)
  /\ UNCHANGED <<ledger, stores, state, told, handed>>

\* Variant with a fault: a conflict is taken for a retry.
Accepted_Conflict == {"New", "Existing", "TransactionScopeConflict"}

Accepted == {"New", "Existing"}

RecordAuthorization(t) ==
  /\ job[t].pc = "record"
  /\ LET r == OnVerdict(job[t].call, job[t].verdict) IN
     /\ Store!RecordDecision(r)
     /\ Become(t, IF Store!RecordOutcome(r) \in Accepted
                  THEN [pc |-> "issue", call |-> job[t].call,
                        decision |-> Store!RecordedId(r)]
                  ELSE Idle)
  /\ UNCHANGED <<ledger, state, told, handed>>

IssueCapability(t) ==
  /\ job[t].pc = "issue"
  /\ LET d == job[t].decision IN
     /\ Store!IssueAfterAuthorization(d)
     /\ Become(t, IF Store!IssueOutcome(d) = "Issued"
                  THEN [pc |-> "respond", call |-> job[t].call, token |-> Len(minted) + 1]
                  ELSE Idle)
  /\ UNCHANGED <<ledger, state, told, handed>>

Deliver(t) ==
  /\ job[t].pc = "respond"
  /\ handed' = handed \cup {<<job[t].token, job[t].call>>}
  /\ Become(t, Idle)
  /\ UNCHANGED <<ledger, stores, state, told>>

\* The connection breaks before the response: the caller never learns the
\* capability id.
LoseResponse(t) ==
  /\ job[t].pc = "respond"
  /\ Become(t, Idle)
  /\ UNCHANGED <<ledger, stores, state, told, handed>>

-----------------------------------------------------------------------------
(* /provider/consume and /action/consume: one lock, no lookup of the       *)
(* verdict or of the state of the session. The plane is derived again.     *)

ConsumeCapability(h, p) ==
  /\ Store!Consume(h[1], OnItsPlane(p))
  /\ UNCHANGED <<ledger, job, state, told, handed>>

-----------------------------------------------------------------------------
(* The session around it: any layer may raise the state; operator_reset    *)
(* and end_session bring it back to S1 and touch neither store.            *)

Degrade(s) ==
  /\ \E n \in Levels : n > state[s] /\ state' = [state EXCEPT ![s] = n]
  /\ UNCHANGED <<ledger, stores, job, told, handed>>

\* Variant with a fault: the decisions are forgotten with the session, their index is not.
Forget_DropsDecisions(s) ==
  /\ state[s] # 1
  /\ state' = [state EXCEPT ![s] = 1]
  /\ decisions' = <<>>
  /\ UNCHANGED <<ledger, decision_by_tx, capabilities, minted, executions, now, job, told, handed>>

Forget(s) ==
  /\ state[s] # 1
  /\ state' = [state EXCEPT ![s] = 1]
  /\ UNCHANGED <<ledger, stores, job, told, handed>>

TimePasses ==
  /\ Store!Tick
  /\ UNCHANGED <<ledger, job, state, told, handed>>

-----------------------------------------------------------------------------
Init ==
  /\ LedgerInit
  /\ Store!Init
  /\ job = [t \in Threads |-> Idle]
  /\ state = [s \in Sessions |-> 1]
  /\ told = {}
  /\ handed = {}

Serve(t) ==
  \/ RecordApproval(t) \/ IndexApproval(t) \/ ReplyApproved(t)
  \/ ResolveVerdict(t) \/ RecordAuthorization(t) \/ IssueCapability(t)
  \/ Deliver(t) \/ LoseResponse(t)

Next ==
  \/ \E t \in Threads :
       \/ \E a \in Approvals : DecideApproved(t, a)
       \/ \E r \in Calls : BeginAuthorize(t, r)
       \/ Serve(t)
  \/ \E h \in handed, p \in Presented : ConsumeCapability(h, p)
  \/ \E s \in Sessions : Degrade(s) \/ Forget(s)
  \/ TimePasses

Spec == Init /\ [][Next]_vars

-----------------------------------------------------------------------------
\* The shape of the ledger, of the threads and of the session states.
TypeOK ==
  /\ verdicts \in Seq({Verdict(a) : a \in Approvals})
  /\ \A k \in DOMAIN approved_by_tx : approved_by_tx[k] \in DOMAIN verdicts
  /\ \A t \in Threads :
       /\ publishing[t].next \in {"none", "tx", "context"}
       /\ job[t].pc \in {"idle", "approved", "publishing", "resolve", "record",
                         "issue", "respond"}
  /\ state \in [Sessions -> 1..4]
  /\ told \subseteq Approvals
  /\ handed \subseteq (Nat \X Calls)

-----------------------------------------------------------------------------
(* Safety.                                                                 *)

\* Every capability rests on an inbound verdict that approved the very
\* context and run it names, in its session, and is for a call that the policy
\* did not deny, on the plane the server derived: also when the decision was
\* recorded by an earlier call than the one that was issued the capability.
CapabilityTracesToApproval ==
  \A i \in DOMAIN minted :
    LET r == decisions[minted[i]].request IN
    /\ r.basis \in DOMAIN verdicts
    /\ verdicts[r.basis] =
         Verdict([gov_tx_id |-> verdicts[r.basis].gov_tx_id, session_id |-> r.session_id,
                  direction |-> "Inbound", context_hash |-> r.context_hash,
                  run_id |-> r.run_id])
    /\ \E c \in Calls \ Denied : r = OnVerdict(c, r.basis)

\* A caller that was told APPROVED can go on: its context is found, resolves
\* and passes every check on the record.
ToldIsUsable ==
  \A a \in told : a.context_hash # NoContext =>
    LET v == approved_verdict_id_by_context(a.context_hash, a.session_id) IN
    /\ resolve_by_context(v, a.session_id) = "Found"
    /\ verdicts[v].context_hash = a.context_hash /\ verdicts[v].run_id = a.run_id

\* A capability is delivered to one caller, and allows what that caller asked
\* for, though retries and conflicting requests race for the decision.
DeliveredToItsCall ==
  \A h \in handed :
    /\ h[1] \in DOMAIN minted
    /\ Store!SameScope(decisions[minted[h[1]]].request, OnItsPlane(h[2]))
    /\ Store!TxKey(decisions[minted[h[1]]].request) = Store!TxKey(h[2])
    /\ \A g \in handed : g[1] = h[1] => g = h

\* The pipeline uses the store as the store is specified, so what is proved
\* of CapabilityStore holds here.
UsesStore == Store!Spec
=============================================================================
