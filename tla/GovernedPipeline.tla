-------------------------- MODULE GovernedPipeline --------------------------
(***************************************************************************)
(* EvidenceGovernedPipeline of evidence.rs: ExecutionAuthority with the    *)
(* evidence of it. Each wrapper makes the call of the pipeline and then,   *)
(* under another lock, appends what came of it; the caller is answered     *)
(* after that, with the receipt of the very event. Between the call and    *)
(* the append every other thread runs, so the order of the events is not   *)
(* the order of what they report. How the event is chained, signed and     *)
(* handed to a sink is EvidencePlane.                                      *)
(***************************************************************************)
EXTENDS ExecutionAuthority

CONSTANT MaxEvents   \* bound on the events

ASSUME EventsAssumption == MaxEvents \in Nat

VARIABLES
  evidence,  \* the events of the epoch, in order
  owed       \* the event each thread has yet to append

gvars == <<vars, evidence, owed>>

Nothing == [type |-> "none"]

\* The payload: who and what, without what is a digest of these or of the text.
Event(type, f, capability) ==
  [type |-> type, capability |-> capability, gov_tx_id |-> f.gov_tx_id,
   session_id |-> f.session_id, run_id |-> f.run_id, context_hash |-> f.context_hash]

NoCapability == 0

\* A thread that has nothing to append may go on, or begin if there is room.
Clear(t) == owed[t] = Nothing

Busy == {t \in Threads : job[t] # Idle \/ ~Clear(t)}

Room(t) == Clear(t) /\ Len(evidence) + Cardinality(Busy) < MaxEvents

Owe(t, e) == owed' = [owed EXCEPT ![t] = e] /\ UNCHANGED evidence

Inner == UNCHANGED <<evidence, owed>>

-----------------------------------------------------------------------------
(* inbound_context: approvals, refusals, and envelopes that do not verify, *)
(* whose fields are not put into evidence. /inspect, without a context,    *)
(* goes to the pipeline itself and leaves no evidence.                     *)

BeginApproval(t, a) == Room(t) /\ DecideApproved(t, a) /\ Inner

PublishApproval(t) ==
  /\ Clear(t)
  /\ RecordApproval(t) \/ IndexApproval(t)
  /\ IF publishing'[t] = NotPublishing /\ job[t].approval.context_hash # NoContext
     THEN Owe(t, Event("ContextApproved", job[t].approval, NoCapability))
     ELSE Inner

AnswerApproval(t) == Clear(t) /\ ReplyApproved(t) /\ Inner

RefuseContext(t, a) ==
  /\ Room(t) /\ job[t] = Idle
  /\ a.context_hash # NoContext /\ state[a.session_id] # 1
  /\ Owe(t, Event("ContextRefused", a, NoCapability))
  /\ UNCHANGED vars

Unverified ==
  [gov_tx_id |-> Empty, session_id |-> Empty, run_id |-> Empty, context_hash |-> Empty]

RefuseEnvelope(t) ==
  /\ Room(t) /\ job[t] = Idle
  /\ Owe(t, Event("ContextRefused", Unverified, NoCapability))
  /\ UNCHANGED vars

-----------------------------------------------------------------------------
(* authorize_provider_execution, authorize_action_execution, consume.      *)

BeginAuthorization(t, r) ==
  /\ Room(t)
  /\ \/ BeginAuthorize(t, r) /\ Inner
     \/ /\ job[t] = Idle
        /\ approved_verdict_id_by_context(r.context_hash, r.session_id) = NoVerdict
        /\ Owe(t, Event("Refused", r, NoCapability))
        /\ UNCHANGED vars

\* A token is reported with what it grants, a refusal with what was asked for.
Authorize(t) ==
  /\ Clear(t)
  /\ ResolveVerdict(t) \/ RecordAuthorization(t) \/ IssueCapability(t)
  /\ CASE job'[t] = Idle -> Owe(t, Event("Refused", job[t].call, NoCapability))
       [] job'[t].pc = "respond" ->
            Owe(t, Event("Authorized", decisions[job[t].decision].request, job'[t].token))
       [] OTHER -> Inner

\* Variant with a fault: the capability is answered before it is reported.
AnswerAuthorization_Early(t) == (Deliver(t) \/ LoseResponse(t)) /\ Inner

AnswerAuthorization(t) == Clear(t) /\ (Deliver(t) \/ LoseResponse(t)) /\ Inner

\* Variant with a fault: a token that was unused is reported as consumed.
ConsumptionEvent_Unused(h, p) ==
  Event(IF h[1] \in DOMAIN capabilities /\ capabilities[h[1]].use_count = 0
        THEN "CapabilityConsumed" ELSE "CapabilityRejected", p, h[1])

\* What was presented is reported, also when it does not agree with the token.
ConsumptionEvent(h, p) ==
  Event(IF Store!ConsumeOutcome(h[1], OnItsPlane(p)) = "Authorized"
        THEN "CapabilityConsumed" ELSE "CapabilityRejected", p, h[1])

ConsumeGoverned(t, h, p) ==
  /\ Room(t) /\ job[t] = Idle
  /\ ConsumeCapability(h, p)
  /\ Owe(t, ConsumptionEvent(h, p))

-----------------------------------------------------------------------------
(* outbound_with_evidence: the context named is resolved in the ledger,    *)
(* and the event names the record's transaction, not the caller's.         *)

\* resolve_outbound_context_binding makes the checks of authorize_*.
ResolvesOutbound(r, v) ==
  /\ v # NoVerdict
  /\ resolve_by_context(v, r.session_id) = "Found"
  /\ verdicts[v].final_approved /\ verdicts[v].direction = "Inbound"
  /\ verdicts[v].context_hash = r.context_hash /\ verdicts[v].run_id = r.run_id

\* Variant with a fault: the caller's transaction is reported.
OutboundEvent_Callers(r, v, type) == Event(type, r, NoCapability)

OutboundEvent(r, v, type) == Event(type, verdicts[v], NoCapability)

\* Layers release the answer or withhold it; uncorrelated it is not reviewed.
Outbound(t, r) ==
  /\ Room(t) /\ job[t] = Idle
  /\ LET v == approved_verdict_id_by_context(r.context_hash, r.session_id) IN
     IF ResolvesOutbound(r, v)
     THEN \E type \in {"OutboundReleased", "OutboundWithheld"} : Owe(t, OutboundEvent(r, v, type))
     ELSE Owe(t, Event("OutboundWithheld", Unverified, NoCapability))
  /\ UNCHANGED vars

-----------------------------------------------------------------------------
AppendEvidence(t) ==
  /\ ~Clear(t)
  /\ evidence' = Append(evidence, owed[t])
  /\ owed' = [owed EXCEPT ![t] = Nothing]
  /\ UNCHANGED vars

-----------------------------------------------------------------------------
GInit == Init /\ evidence = <<>> /\ owed = [t \in Threads |-> Nothing]

GNext ==
  \/ \E t \in Threads, a \in Approvals : BeginApproval(t, a) \/ RefuseContext(t, a)
  \/ \E t \in Threads, r \in Calls : BeginAuthorization(t, r) \/ Outbound(t, r)
  \/ \E t \in Threads, h \in handed, p \in Presented : ConsumeGoverned(t, h, p)
  \/ \E t \in Threads :
       \/ PublishApproval(t) \/ AnswerApproval(t) \/ RefuseEnvelope(t)
       \/ Authorize(t) \/ AnswerAuthorization(t) \/ AppendEvidence(t)
  \/ \E s \in Sessions : (Degrade(s) \/ Forget(s)) /\ Inner
  \/ TimePasses /\ Inner

GSpec == GInit /\ [][GNext]_gvars

-----------------------------------------------------------------------------
\* The shape of the log and of what is owed to it.
GTypeOK ==
  LET Types == {"ContextApproved", "ContextRefused", "Authorized", "Refused",
                "CapabilityConsumed", "CapabilityRejected",
                "OutboundReleased", "OutboundWithheld"} IN
  /\ \A i \in DOMAIN evidence : evidence[i].type \in Types
  /\ \A t \in Threads : owed[t].type \in Types \cup {"none"}
  /\ Len(evidence) <= MaxEvents

-----------------------------------------------------------------------------
(* Safety.                                                                 *)

InLog(type, capability) ==
  {i \in DOMAIN evidence : evidence[i].type = type /\ evidence[i].capability = capability}

Owing(type, capability) ==
  {t \in Threads : owed[t].type = type /\ owed[t].capability = capability}

Reported(type, capability) ==
  Cardinality(InLog(type, capability)) + Cardinality(Owing(type, capability))

\* What is certain of the order, though each event is appended after the fact
\* under a lock of its own: whoever can spend a capability was answered, so its
\* authorization is already in the log when its consumption is; they agree, and
\* the approval of the context is in the log too or about to be.
EvidenceFollowsCause ==
  \A i \in DOMAIN evidence : evidence[i].type = "CapabilityConsumed" =>
    LET e == evidence[i] IN
    /\ \E j \in InLog("Authorized", e.capability) :
         j < i /\ evidence[j] = [e EXCEPT !.type = "Authorized"]
    /\ \/ \E k \in DOMAIN evidence :
            [evidence[k] EXCEPT !.gov_tx_id = e.gov_tx_id]
              = [e EXCEPT !.type = "ContextApproved", !.capability = NoCapability]
       \/ \E t \in Threads :
            owed[t].type = "ContextApproved" /\ owed[t].context_hash = e.context_hash

\* Nothing that took effect is missing from the evidence or in it twice: every
\* capability minted, every execution and every approval a caller was told of has
\* its event, or a thread that is about to append it.
EvidenceIsComplete ==
  /\ \A c \in DOMAIN minted : Reported("Authorized", c) = 1
  /\ \A c \in DOMAIN minted :
       Reported("CapabilityConsumed", c)
         = Cardinality({x \in DOMAIN executions : executions[x].token = c})
  /\ \A a \in told : a.context_hash # NoContext =>
       \E i \in DOMAIN evidence : evidence[i] = Event("ContextApproved", a, NoCapability)

\* A released or withheld answer that is correlated names the transaction, the run
\* and the context of one verdict of its session that the ledger holds.
OutboundNamesItsApproval ==
  \A i \in DOMAIN evidence :
    LET e == evidence[i] IN
    e.type = "OutboundReleased" \/ (e.type = "OutboundWithheld" /\ e.context_hash # Empty) =>
      \E v \in DOMAIN verdicts : e = Event(e.type, verdicts[v], NoCapability)
=============================================================================
