----------------------- MODULE GovernedPipelineProofs -----------------------
(***************************************************************************)
(* Proofs about ExecutionAuthority, for every set of threads, approvals    *)
(* and calls, and about GovernedPipeline, which extends it by the log of   *)
(* evidence: what that says of what the pipeline did, however many threads *)
(* append to it after the fact. What CapabilityStoreProofs shows of the    *)
(* store is used for the store as the pipeline uses it, and the invariant  *)
(* of the pipeline holds with the log too, every step being one of the     *)
(* pipeline or none of it.                                                 *)
(***************************************************************************)
EXTENDS GovernedPipeline, FiniteSetTheorems, TLAPS

StoreProofs == INSTANCE CapabilityStoreProofs WITH
  Requests  <- {OnVerdict(r, v) : r \in Calls, v \in 1..MaxVerdicts},
  Presented <- {OnItsPlane(p) : p \in Presented}

-----------------------------------------------------------------------------
(* The pipeline over ledger and store: the inductive invariant.            *)

Jobs ==
  {Idle} \cup
  [pc : {"approved", "publishing"}, approval : Approvals] \cup
  [pc : {"resolve", "record"}, call : Calls, verdict : Nat] \cup
  [pc : {"issue"}, call : Calls, decision : Nat] \cup
  [pc : {"respond"}, call : Calls, token : Nat]

Verdicts == {Verdict(a) : a \in Approvals}

Approving == {t \in Threads : job[t].pc = "approved"}

\* The shape of the state, and a verdict left for every thread that is to
\* record one.
Shape ==
  /\ verdicts \in Seq(Verdicts)
  /\ publishing \in [Threads -> [next : {"none", "tx", "context"}, id : Nat]]
  /\ job \in [Threads -> Jobs]
  /\ state \in [Sessions -> 1..4]
  /\ told \subseteq Approvals
  /\ handed \subseteq Nat \X Calls
  /\ IsFiniteSet(Approving)
  /\ Len(verdicts) + Cardinality(Approving) <= MaxVerdicts

\* The indexes point at recorded verdicts, the one by context at one of the
\* context and session it is asked for.
Indexed ==
  /\ \A k \in DOMAIN approved_by_tx : approved_by_tx[k] \in DOMAIN verdicts
  /\ \A k \in DOMAIN approved_by_context :
       LET v == approved_by_context[k] IN
       /\ v \in DOMAIN verdicts
       /\ verdicts[v].context_hash = k[1] /\ verdicts[v].session_id = k[2]

Published(a) ==
  a.context_hash # NoContext => <<a.context_hash, a.session_id>> \in DOMAIN approved_by_context

\* A thread publishes the verdict of the approval it serves, and is through
\* with it when the approval is published.
Publishes(t) ==
  \/ publishing[t] = NotPublishing /\ (job[t].pc = "publishing" => Published(job[t].approval))
  \/ /\ publishing[t].next # "none" /\ job[t].pc = "publishing"
     /\ publishing[t].id \in DOMAIN verdicts
     /\ verdicts[publishing[t].id] = Verdict(job[t].approval)
     /\ publishing[t].next = "context" => job[t].approval.context_hash # NoContext

Publishing == \A t \in Threads : Publishes(t)

\* A decision rests on the verdict that allowed it, for good.
Rests(r) ==
  /\ r.basis \in DOMAIN verdicts
  /\ \E c \in Calls : r = OnVerdict(c, r.basis) /\ MayAuthorize(c, r.basis)

DecisionsRest == \A d \in DOMAIN decisions : Rests(decisions[d].request)

\* The decision is one the call may be granted a capability from.
Serves(d, c) ==
  /\ d \in DOMAIN decisions
  /\ Store!SameScope(decisions[d].request, OnItsPlane(c))
  /\ Store!TxKey(decisions[d].request) = Store!TxKey(c)

\* What a thread has read or been answered still stands.
Stands(t) ==
  /\ job[t].pc \in {"resolve", "record"} => job[t].verdict \in DOMAIN verdicts
  /\ job[t].pc = "record" => MayAuthorize(job[t].call, job[t].verdict)
  /\ job[t].pc = "issue" => Serves(job[t].decision, job[t].call)
  /\ job[t].pc = "respond" =>
       /\ job[t].token \in DOMAIN minted
       /\ Serves(minted[job[t].token], job[t].call)

JobsStand == \A t \in Threads : Stands(t)

\* A capability is in the hands of one thread or of one caller.
OneHolder ==
  /\ \A h \in handed : h[1] \in DOMAIN minted /\ Serves(minted[h[1]], h[2])
  /\ \A g, h \in handed : g[1] = h[1] => g = h
  /\ \A t \in Threads : job[t].pc = "respond" =>
       /\ \A h \in handed : h[1] # job[t].token
       /\ \A u \in Threads : job[u].pc = "respond" /\ job[u].token = job[t].token => u = t

ToldIsPublished == \A a \in told : Published(a)

IInv ==
  /\ StoreProofs!IInv
  /\ Shape /\ Indexed /\ Publishing /\ DecisionsRest
  /\ JobsStand /\ OneHolder /\ ToldIsPublished

-----------------------------------------------------------------------------
(* The store of the pipeline is the store of CapabilityStoreProofs.        *)

\* The two instances are one specification.
LEMMA SameStore ==
  /\ Store!Init <=> StoreProofs!Init
  /\ \A r : Store!RecordDecision(r) <=> StoreProofs!RecordDecision(r)
  /\ \A d : Store!IssueAfterAuthorization(d) <=> StoreProofs!IssueAfterAuthorization(d)
  /\ \A t, p : Store!Consume(t, p) <=> StoreProofs!Consume(t, p)
  /\ Store!PruneExpired <=> StoreProofs!PruneExpired
  /\ Store!Tick <=> StoreProofs!Tick
  /\ Store!vars = StoreProofs!vars
<1>1. Store!Init <=> StoreProofs!Init
  BY DEF Store!Init, StoreProofs!Init
<1>2. \A r : Store!RecordDecision(r) <=> StoreProofs!RecordDecision(r)
  BY DEF Store!RecordDecision, StoreProofs!RecordDecision, Store!RecordOutcome,
         StoreProofs!RecordOutcome, Store!Valid, StoreProofs!Valid, Store!TxKey,
         StoreProofs!TxKey, Store!SameScope, StoreProofs!SameScope, Store!ScopeFields,
         StoreProofs!ScopeFields, Store!Authorities, StoreProofs!Authorities,
         Store!RequiredFields, StoreProofs!RequiredFields, Store!DigestFields,
         StoreProofs!DigestFields, Store!AUTHORITY_PROVIDER_EXECUTE,
         StoreProofs!AUTHORITY_PROVIDER_EXECUTE, Store!AUTHORITY_ACTION_EXECUTE,
         StoreProofs!AUTHORITY_ACTION_EXECUTE
<1>3. \A d : Store!IssueAfterAuthorization(d) <=> StoreProofs!IssueAfterAuthorization(d)
  BY DEF Store!IssueAfterAuthorization, StoreProofs!IssueAfterAuthorization,
         Store!IssueOutcome, StoreProofs!IssueOutcome, Store!NewToken, StoreProofs!NewToken,
         Store!Canonical, StoreProofs!Canonical
<1>4. \A t, p : Store!Consume(t, p) <=> StoreProofs!Consume(t, p)
  BY DEF Store!Consume, StoreProofs!Consume, Store!ConsumeOutcome,
         StoreProofs!ConsumeOutcome, Store!Canonical, StoreProofs!Canonical, Store!Covers,
         StoreProofs!Covers, Store!Authorities, StoreProofs!Authorities,
         Store!ProviderFields, StoreProofs!ProviderFields, Store!ActionFields,
         StoreProofs!ActionFields, Store!AUTHORITY_PROVIDER_EXECUTE,
         StoreProofs!AUTHORITY_PROVIDER_EXECUTE, Store!AUTHORITY_ACTION_EXECUTE,
         StoreProofs!AUTHORITY_ACTION_EXECUTE
<1>5. Store!PruneExpired <=> StoreProofs!PruneExpired
  BY DEF Store!PruneExpired, StoreProofs!PruneExpired
<1>6. (Store!Tick <=> StoreProofs!Tick) /\ Store!vars = StoreProofs!vars
  BY DEF Store!Tick, StoreProofs!Tick, Store!vars, StoreProofs!vars, Store!store,
         StoreProofs!store
<1> QED BY <1>1, <1>2, <1>3, <1>4, <1>5, <1>6

\* So are their next-state relations.
LEMMA SameNext == [Store!Next]_(Store!vars) <=> [StoreProofs!Next]_(StoreProofs!vars)
<1> DEFINE R == {OnVerdict(r, v) : r \in Calls, v \in 1..MaxVerdicts}
           P == {OnItsPlane(p) : p \in Presented}
<1>1. Store!Next <=> \/ \E r \in R : Store!RecordDecision(r)
                     \/ \E d \in DOMAIN decisions : Store!IssueAfterAuthorization(d)
                     \/ \E t \in DOMAIN minted, p \in P : Store!Consume(t, p)
                     \/ Store!PruneExpired \/ Store!Tick
  BY DEF Store!Next
<1>2. StoreProofs!Next <=>
        \/ \E r \in R : StoreProofs!RecordDecision(r)
        \/ \E d \in DOMAIN decisions : StoreProofs!IssueAfterAuthorization(d)
        \/ \E t \in DOMAIN minted, p \in P : StoreProofs!Consume(t, p)
        \/ StoreProofs!PruneExpired \/ StoreProofs!Tick
  BY DEF StoreProofs!Next
<1> HIDE DEF R, P
<1>3. Store!Next <=> StoreProofs!Next
  BY <1>1, <1>2, SameStore
<1>4. (Store!vars' = Store!vars) <=> (StoreProofs!vars' = StoreProofs!vars)
  BY DEF Store!vars, StoreProofs!vars
<1> QED BY <1>3, <1>4

-----------------------------------------------------------------------------
(* What is kept by every step.                                             *)

\* The fields of a request as it is recorded.
LEMMA RequestFields ==
  ASSUME NEW c \in Calls, NEW v
  PROVE  /\ OnVerdict(c, v).basis = v
         /\ \A f \in Store!ScopeFields : OnVerdict(c, v)[f] = OnItsPlane(c)[f]
         /\ OnVerdict(c, v).session_id = c.session_id
         /\ OnVerdict(c, v).context_hash = c.context_hash
         /\ OnVerdict(c, v).run_id = c.run_id
         /\ Store!TxKey(OnVerdict(c, v)) = Store!TxKey(c)
  BY CallsAssumption DEF OnVerdict, OnItsPlane, Store!ScopeFields, Store!TxKey

\* The steps of the store alone, or none of it, keep its invariant, and what a
\* decision is for and what a capability was minted from.
LEMMA StoreKept ==
  ASSUME StoreProofs!IInv, [Store!Next]_(Store!vars)
  PROVE  /\ StoreProofs!IInv'
         /\ \A d \in DOMAIN decisions :
              d \in DOMAIN decisions' /\ decisions'[d].request = decisions[d].request
         /\ \A i \in DOMAIN minted : i \in DOMAIN minted' /\ minted'[i] = minted[i]
<1> DEFINE R == {OnVerdict(r, v) : r \in Calls, v \in 1..MaxVerdicts}
           P == {OnItsPlane(p) : p \in Presented}
           K == /\ \A d \in DOMAIN decisions :
                     d \in DOMAIN decisions' /\ decisions'[d].request = decisions[d].request
                /\ \A i \in DOMAIN minted : i \in DOMAIN minted' /\ minted'[i] = minted[i]
<1>1. [StoreProofs!Next]_(StoreProofs!vars)
  BY SameNext
<1>2. StoreProofs!IInv'
  BY <1>1, StoreAssumption, StoreProofs!StepIInv
<1>3. StoreProofs!TypeOK
  BY DEF StoreProofs!IInv
<1>4. ASSUME UNCHANGED decisions, UNCHANGED minted PROVE K
  BY <1>4
<1>5. ASSUME NEW r \in R, StoreProofs!RecordDecision(r) PROVE K
  <2>1. CASE StoreProofs!RecordOutcome(r) = "New"
    <3> DEFINE e == [request |-> r, issued |-> FALSE]
    <3>1. decisions' = Append(decisions, e)
      BY <1>5, <2>1 DEF StoreProofs!RecordDecision
    <3> HIDE DEF e
    <3>2. \A d \in DOMAIN decisions : d \in DOMAIN decisions' /\ decisions'[d] = decisions[d]
      BY <1>3, <3>1 DEF StoreProofs!TypeOK
    <3>3. UNCHANGED minted
      BY <1>5 DEF StoreProofs!RecordDecision
    <3> QED BY <3>2, <3>3
  <2>2. CASE StoreProofs!RecordOutcome(r) # "New"
    BY <1>5, <2>2, <1>4 DEF StoreProofs!RecordDecision
  <2> QED BY <2>1, <2>2
<1>6. ASSUME NEW d \in DOMAIN decisions, StoreProofs!IssueAfterAuthorization(d) PROVE K
  <2>1. CASE StoreProofs!IssueOutcome(d) = "Issued"
    BY <1>3, <1>6, <2>1, StoreAssumption, StoreProofs!IssueEffect
  <2>2. CASE StoreProofs!IssueOutcome(d) # "Issued"
    BY <1>6, <2>2, <1>4 DEF StoreProofs!IssueAfterAuthorization
  <2> QED BY <2>1, <2>2
<1>7. ASSUME NEW t \in DOMAIN minted, NEW p \in P, StoreProofs!Consume(t, p) PROVE K
  BY <1>7, <1>4 DEF StoreProofs!Consume
<1>8. ASSUME StoreProofs!PruneExpired \/ StoreProofs!Tick \/ UNCHANGED StoreProofs!vars PROVE K
  BY <1>8, <1>4
     DEF StoreProofs!PruneExpired, StoreProofs!Tick, StoreProofs!vars, StoreProofs!store
<1>9. \/ \E r \in R : StoreProofs!RecordDecision(r)
      \/ \E d \in DOMAIN decisions : StoreProofs!IssueAfterAuthorization(d)
      \/ \E t \in DOMAIN minted, p \in P : StoreProofs!Consume(t, p)
      \/ StoreProofs!PruneExpired \/ StoreProofs!Tick \/ UNCHANGED StoreProofs!vars
  BY <1>1 DEF StoreProofs!Next
<1> HIDE DEF R, P, K
<1>10. K
  BY <1>5, <1>6, <1>7, <1>8, <1>9
<1> QED BY <1>2, <1>10 DEF K

\* Verdicts, decisions, capabilities and indexed contexts stay what they are.
Kept ==
  /\ \A v \in DOMAIN verdicts : v \in DOMAIN verdicts' /\ verdicts'[v] = verdicts[v]
  /\ \A d \in DOMAIN decisions :
       d \in DOMAIN decisions' /\ decisions'[d].request = decisions[d].request
  /\ \A i \in DOMAIN minted : i \in DOMAIN minted' /\ minted'[i] = minted[i]
  /\ DOMAIN approved_by_context \subseteq DOMAIN approved_by_context'

\* So what rests on them goes on doing so.
LEMMA KeptFacts ==
  ASSUME Kept
  PROVE  /\ \A c, v : MayAuthorize(c, v) => MayAuthorize(c, v)'
         /\ \A r : Rests(r) => Rests(r)'
         /\ \A a : Published(a) => Published(a)'
<1>1. \A c, v : MayAuthorize(c, v) => MayAuthorize(c, v)'
  BY DEF Kept, MayAuthorize, resolve_by_context
<1>2. \A r : Rests(r) => Rests(r)'
  BY <1>1 DEF Kept, Rests
<1>3. \A a : Published(a) => Published(a)'
  BY DEF Kept, Published
<1> QED BY <1>1, <1>2, <1>3

-----------------------------------------------------------------------------
(* The pipeline takes the steps of the store.                              *)

\* The fields of a job.
LEMMA JobFields ==
  ASSUME Shape, NEW t \in Threads
  PROVE  /\ job[t] \in Jobs
         /\ job[t].pc \in {"approved", "publishing"} => job[t].approval \in Approvals
         /\ job[t].pc \in {"resolve", "record", "issue", "respond"} => job[t].call \in Calls
         /\ job[t].pc \in {"resolve", "record"} =>
              job[t] = [pc |-> job[t].pc, call |-> job[t].call, verdict |-> job[t].verdict]
         /\ job[t].pc = "approved" => job[t] = [pc |-> "approved", approval |-> job[t].approval]
<1>1. job[t] \in Jobs
  BY DEF Shape
<1> QED BY <1>1 DEF Jobs, Idle

\* The requests the pipeline records are among those of the store.
LEMMA RecordStep ==
  ASSUME IInv, NEW t \in Threads, RecordAuthorization(t)
  PROVE  Store!Next
<1> DEFINE r == OnVerdict(job[t].call, job[t].verdict)
<1>1. job[t].pc = "record" /\ Store!RecordDecision(r)
  BY DEF RecordAuthorization
<1>2. job[t].call \in Calls
  BY <1>1, JobFields DEF IInv
<1>3. job[t].verdict \in 1..MaxVerdicts
  <2>1. job[t].verdict \in DOMAIN verdicts
    BY <1>1 DEF IInv, JobsStand, Stands
  <2>2. /\ Len(verdicts) \in Nat /\ DOMAIN verdicts = 1..Len(verdicts)
        /\ Cardinality(Approving) \in Nat
        /\ Len(verdicts) + Cardinality(Approving) <= MaxVerdicts
    BY FS_CardinalityType DEF IInv, Shape
  <2> QED BY <2>1, <2>2, BoundsAssumption DEF BoundsAssumption
<1> QED BY <1>1, <1>2, <1>3 DEF Store!Next

\* Every step of the pipeline is one of the store, or leaves it alone.
LEMMA StoreStep == IInv /\ [Next]_vars => [Store!Next]_(Store!vars)
<1> SUFFICES ASSUME IInv, [Next]_vars PROVE [Store!Next]_(Store!vars)
  OBVIOUS
<1>1. ASSUME UNCHANGED stores PROVE UNCHANGED Store!vars
  BY <1>1 DEF stores, Store!vars
<1>2. ASSUME NEW t \in Threads, NEW a \in Approvals, DecideApproved(t, a)
      PROVE  UNCHANGED Store!vars
  BY <1>2, <1>1 DEF DecideApproved
<1>3. ASSUME NEW t \in Threads, NEW r \in Calls, BeginAuthorize(t, r)
      PROVE  UNCHANGED Store!vars
  BY <1>3, <1>1 DEF BeginAuthorize
<1>4. ASSUME NEW t \in Threads, Serve(t) PROVE [Store!Next]_(Store!vars)
  <2>1. CASE RecordAuthorization(t)
    BY <2>1, RecordStep
  <2>2. CASE IssueCapability(t)
    <3>1. /\ job[t].pc = "issue"
          /\ Store!IssueAfterAuthorization(job[t].decision)
      BY <2>2 DEF IssueCapability
    <3>2. job[t].decision \in DOMAIN decisions
      BY <3>1 DEF IInv, JobsStand, Stands, Serves
    <3> QED BY <3>1, <3>2 DEF Store!Next
  <2>3. CASE ~RecordAuthorization(t) /\ ~IssueCapability(t)
    BY <1>4, <2>3, <1>1
       DEF Serve, RecordApproval, IndexApproval, ReplyApproved, ResolveVerdict, Deliver,
           LoseResponse
  <2> QED BY <2>1, <2>2, <2>3
<1>5. ASSUME NEW h \in handed, NEW p \in Presented, ConsumeCapability(h, p)
      PROVE  Store!Next
  <2>1. h[1] \in DOMAIN minted
    BY DEF IInv, OneHolder
  <2> QED BY <1>5, <2>1 DEF ConsumeCapability, Store!Next
<1>6. ASSUME NEW s \in Sessions, Degrade(s) \/ Forget(s) PROVE UNCHANGED Store!vars
  BY <1>6, <1>1 DEF Degrade, Forget
<1>7. ASSUME TimePasses PROVE Store!Next
  BY <1>7 DEF TimePasses, Store!Next
<1>8. ASSUME UNCHANGED vars PROVE UNCHANGED Store!vars
  BY <1>8, <1>1 DEF vars
<1> QED BY <1>2, <1>3, <1>4, <1>5, <1>6, <1>7, <1>8 DEF Next

\* Every step of the ledger keeps the verdicts and the contexts in the index.
LEMMA StepKept == IInv /\ [Next]_vars => Kept
<1> SUFFICES ASSUME IInv, [Next]_vars PROVE Kept
  OBVIOUS
<1>1. /\ \A d \in DOMAIN decisions :
           d \in DOMAIN decisions' /\ decisions'[d].request = decisions[d].request
      /\ \A i \in DOMAIN minted : i \in DOMAIN minted' /\ minted'[i] = minted[i]
  BY StoreStep, StoreKept DEF IInv
<1> DEFINE L == /\ \A v \in DOMAIN verdicts : v \in DOMAIN verdicts' /\ verdicts'[v] = verdicts[v]
                /\ DOMAIN approved_by_context \subseteq DOMAIN approved_by_context'
<1>2. ASSUME UNCHANGED ledger PROVE L
  BY <1>2 DEF ledger
<1>3. ASSUME NEW t \in Threads, RecordApproval(t) PROVE L
  <2>1. /\ verdicts' = Append(verdicts, Verdict(job[t].approval))
        /\ UNCHANGED approved_by_context
    BY <1>3 DEF RecordApproval, RecordFinalApproved
  <2>2. verdicts \in Seq(Verdicts)
    BY DEF IInv, Shape
  <2> QED BY <2>1, <2>2
<1>4. ASSUME NEW t \in Threads, IndexApproval(t) PROVE L
  <2>1. CASE IndexByTx(t)
    BY <2>1 DEF IndexByTx
  <2>2. CASE IndexByContext(t)
    BY <2>2 DEF IndexByContext, Put
  <2> QED BY <1>4, <2>1, <2>2 DEF IndexApproval
<1>5. ASSUME NEW t \in Threads, Serve(t) PROVE L
  BY <1>2, <1>3, <1>4, <1>5
     DEF Serve, ReplyApproved, ResolveVerdict, RecordAuthorization, IssueCapability, Deliver,
         LoseResponse
<1>6. L
  BY <1>2, <1>5
     DEF Next, DecideApproved, BeginAuthorize, ConsumeCapability, Degrade, Forget, TimePasses,
         vars
<1> QED BY <1>1, <1>6 DEF Kept

-----------------------------------------------------------------------------
(* What a step of one thread leaves standing.                              *)

\* A thread takes up a job, the others go on with theirs.
LEMMA Moved ==
  ASSUME Shape, NEW t \in Threads, NEW j \in Jobs, Become(t, j)
  PROVE  /\ job' \in [Threads -> Jobs]
         /\ job'[t] = j
         /\ \A u \in Threads : u # t => job'[u] = job[u]
  BY DEF Shape, Become

\* A thread that is not to record a verdict, before and after, leaves the count.
LEMMA CountKept ==
  ASSUME Shape, NEW t \in Threads, job[t].pc # "approved", job'[t].pc # "approved",
         \A u \in Threads : u # t => job'[u] = job[u]
  PROVE  Approving' = Approving
  BY DEF Approving

\* The jobs of the other threads stand.
LEMMA OthersStand ==
  ASSUME JobsStand, Kept, NEW t \in Threads, Stands(t)',
         \A u \in Threads : u # t => job'[u] = job[u]
  PROVE  JobsStand'
<1> SUFFICES ASSUME NEW u \in Threads, u # t PROVE Stands(u)'
  BY DEF JobsStand
<1>1. Stands(u) /\ job'[u] = job[u]
  BY DEF JobsStand
<1>2. job[u].pc = "record" => MayAuthorize(job[u].call, job[u].verdict)'
  BY <1>1 DEF Stands, Kept, MayAuthorize, resolve_by_context
<1>3. job[u].pc = "issue" => Serves(job[u].decision, job[u].call)'
  BY <1>1 DEF Stands, Kept, Serves
<1>4. job[u].pc = "respond" => /\ job[u].token \in DOMAIN minted'
                               /\ Serves(minted[job[u].token], job[u].call)'
  BY <1>1 DEF Stands, Kept, Serves
<1>5. job[u].pc \in {"resolve", "record"} => job[u].verdict \in DOMAIN verdicts'
  BY <1>1 DEF Stands, Kept
<1> QED BY <1>1, <1>2, <1>3, <1>4, <1>5 DEF Stands, Serves, MayAuthorize, resolve_by_context

\* What the other threads publish is theirs.
LEMMA OthersPublish ==
  ASSUME Publishing, Kept, NEW t \in Threads, Publishes(t)',
         \A u \in Threads : u # t => job'[u] = job[u] /\ publishing'[u] = publishing[u]
  PROVE  Publishing'
<1> SUFFICES ASSUME NEW u \in Threads, u # t PROVE Publishes(u)'
  BY DEF Publishing
<1>1. Publishes(u) /\ job'[u] = job[u] /\ publishing'[u] = publishing[u]
  BY DEF Publishing
<1>2. Published(job[u].approval) => Published(job[u].approval)'
  BY KeptFacts
<1> QED BY <1>1, <1>2 DEF Publishes, Kept

\* A thread that holds no capability, and none is delivered.
LEMMA HoldersKept ==
  ASSUME OneHolder, Kept, UNCHANGED handed, NEW t \in Threads, job'[t].pc # "respond",
         \A u \in Threads : u # t => job'[u] = job[u]
  PROVE  OneHolder'
<1>1. \A h \in handed : h[1] \in DOMAIN minted' /\ Serves(minted[h[1]], h[2])'
  BY DEF OneHolder, Kept, Serves
<1>2. \A g, h \in handed : g[1] = h[1] => g = h
  BY DEF OneHolder
<1>3. \A u \in Threads : job'[u].pc = "respond" => u # t /\ job[u].pc = "respond" /\ job'[u] = job[u]
  OBVIOUS
<1>4. \A u \in Threads : job'[u].pc = "respond" =>
         /\ \A h \in handed : h[1] # job'[u].token
         /\ \A w \in Threads : job'[w].pc = "respond" /\ job'[w].token = job'[u].token => w = u
  BY <1>3 DEF OneHolder
<1> QED BY <1>1, <1>2, <1>4 DEF OneHolder, Serves

\* No decision is recorded.
LEMMA DecisionsKept ==
  ASSUME DecisionsRest, Kept, DOMAIN decisions' = DOMAIN decisions
  PROVE  DecisionsRest'
  BY KeptFacts DEF DecisionsRest, Kept

\* The ledger is left alone.
LEMMA IndexKept ==
  ASSUME Indexed, UNCHANGED ledger
  PROVE  Indexed'
  BY DEF Indexed, ledger

\* Nobody is told anything.
LEMMA ToldKept ==
  ASSUME ToldIsPublished, Kept, UNCHANGED told
  PROVE  ToldIsPublished'
  BY KeptFacts DEF ToldIsPublished

\* The invariant of the pipeline around the store.
PInv ==
  Shape /\ Indexed /\ Publishing /\ DecisionsRest /\ JobsStand /\ OneHolder /\ ToldIsPublished

\* A thread that touches neither the ledger nor the store, and is told and
\* handed nothing, keeps it when it keeps what is said of itself.
LEMMA ThreadStep ==
  ASSUME PInv, Kept, NEW t \in Threads, NEW j \in Jobs, Become(t, j),
         UNCHANGED <<ledger, state, told, handed>>, DecisionsRest',
         job[t].pc # "publishing", j.pc \notin {"publishing", "respond"},
         Stands(t)', job[t].pc # "approved", j.pc # "approved"
  PROVE  PInv'
<1>1. /\ job' \in [Threads -> Jobs] /\ job'[t] = j
      /\ \A u \in Threads : u # t => job'[u] = job[u]
  BY Moved DEF PInv
<1>2. Shape'
  BY <1>1, CountKept DEF PInv, Shape, ledger
<1>3. Publishing'
  <2>1. Publishes(t)'
    BY <1>1 DEF PInv, Publishing, Publishes, ledger
  <2> QED BY <1>1, <2>1, OthersPublish DEF PInv, ledger
<1>4. JobsStand'
  BY <1>1, OthersStand DEF PInv
<1>5. OneHolder'
  BY <1>1, HoldersKept DEF PInv
<1> QED BY <1>2, <1>3, <1>4, <1>5, IndexKept, ToldKept DEF PInv

-----------------------------------------------------------------------------
(* The invariant of the pipeline, one step lemma per action.               *)

\* A thread that decides takes one of the verdicts that are left.
LEMMA DecidePInv ==
  ASSUME PInv, Kept, NEW t \in Threads, NEW a \in Approvals, DecideApproved(t, a)
  PROVE  PInv'
<1> DEFINE j == [pc |-> "approved", approval |-> a]
<1>1. j \in Jobs /\ job[t] = Idle /\ Become(t, j)
  BY DEF DecideApproved, Jobs
<1>2. /\ job' \in [Threads -> Jobs] /\ job'[t] = j
      /\ \A u \in Threads : u # t => job'[u] = job[u]
  BY <1>1, Moved DEF PInv
<1>3. Approving' = Approving \cup {t} /\ t \notin Approving
  BY <1>1, <1>2 DEF Approving, Idle
<1>4. UNCHANGED <<ledger, stores, state, told, handed>>
  BY DEF DecideApproved
<1>5. Shape'
  <2>1. IsFiniteSet(Approving') /\ Cardinality(Approving') = Cardinality(Approving) + 1
    BY <1>3, FS_AddElement DEF PInv, Shape
  <2>2. Len(verdicts) + Cardinality(Approving) < MaxVerdicts
    BY DEF DecideApproved, Approving
  <2>3. Len(verdicts) \in Nat /\ Cardinality(Approving) \in Nat /\ MaxVerdicts \in Nat
    BY FS_CardinalityType, BoundsAssumption DEF PInv, Shape, BoundsAssumption
  <2>4. Len(verdicts') + Cardinality(Approving') <= MaxVerdicts
    BY <2>1, <2>2, <2>3, <1>4 DEF ledger
  <2> QED BY <1>2, <1>4, <2>1, <2>4 DEF PInv, Shape, ledger
<1>6. Publishing'
  <2>1. publishing[t] = NotPublishing
    BY <1>1 DEF PInv, Publishing, Publishes, Idle
  <2>2. Publishes(t)'
    BY <1>2, <1>4, <2>1 DEF Publishes, ledger
  <2> QED BY <1>2, <1>4, <2>2, OthersPublish DEF PInv, ledger
<1>7. JobsStand'
  <2>1. Stands(t)'
    BY <1>2 DEF Stands
  <2> QED BY <1>2, <2>1, OthersStand DEF PInv
<1>8. OneHolder'
  BY <1>2, <1>4, HoldersKept DEF PInv
<1>9. Indexed' /\ DecisionsRest' /\ ToldIsPublished'
  BY <1>4, IndexKept, DecisionsKept, ToldKept DEF PInv, stores
<1> QED BY <1>5, <1>6, <1>7, <1>8, <1>9 DEF PInv

\* The verdict recorded is that of the approval, and uses up the one left for it.
LEMMA RecordApprovalPInv ==
  ASSUME PInv, Kept, NEW t \in Threads, RecordApproval(t)
  PROVE  PInv'
<1> DEFINE a == job[t].approval
           n == Len(verdicts) + 1
           j == [pc |-> "publishing", approval |-> a]
<1>1. job[t].pc = "approved" /\ a \in Approvals /\ job[t] = [pc |-> "approved", approval |-> a]
  BY JobFields DEF RecordApproval, PInv
<1>2. j \in Jobs /\ Become(t, j)
  <2>1. [job[t] EXCEPT !.pc = "publishing"] = j
    BY <1>1
  <2> QED BY <1>1, <2>1 DEF RecordApproval, Jobs
<1>3. /\ job' \in [Threads -> Jobs] /\ job'[t] = j
      /\ \A u \in Threads : u # t => job'[u] = job[u]
  BY <1>2, Moved DEF PInv
<1>4. /\ UNCHANGED <<stores, state, told, handed, approved_by_tx, approved_by_context>>
      /\ verdicts' = Append(verdicts, Verdict(a))
      /\ publishing[t] = NotPublishing
      /\ publishing' = [publishing EXCEPT ![t] = [next |-> "tx", id |-> n]]
  BY DEF RecordApproval, RecordFinalApproved
<1>5. /\ verdicts \in Seq(Verdicts) /\ Len(verdicts) \in Nat
      /\ Verdict(a) \in Verdicts
  BY <1>1 DEF PInv, Shape, Verdicts
<1>6. /\ verdicts' \in Seq(Verdicts) /\ Len(verdicts') = n
      /\ n \in DOMAIN verdicts' /\ verdicts'[n] = Verdict(a)
  BY <1>4, <1>5
<1>7. Approving' = Approving \ {t} /\ t \in Approving
  BY <1>1, <1>3 DEF Approving
<1>8. Shape'
  <2>1. IsFiniteSet(Approving') /\ Cardinality(Approving') = Cardinality(Approving) - 1
    BY <1>7, FS_RemoveElement DEF PInv, Shape
  <2>2. Cardinality(Approving) \in Nat /\ MaxVerdicts \in Nat
    BY FS_CardinalityType, BoundsAssumption DEF PInv, Shape, BoundsAssumption
  <2>3. Len(verdicts') + Cardinality(Approving') <= MaxVerdicts
    BY <1>5, <1>6, <2>1, <2>2 DEF PInv, Shape
  <2>4. publishing' \in [Threads -> [next : {"none", "tx", "context"}, id : Nat]]
    BY <1>4, <1>5 DEF PInv, Shape
  <2> QED BY <1>3, <1>4, <1>6, <2>1, <2>3, <2>4 DEF PInv, Shape
<1>9. Indexed'
  <2>1. \A v \in DOMAIN verdicts : v \in DOMAIN verdicts' /\ verdicts'[v] = verdicts[v]
    BY DEF Kept
  <2> QED BY <1>4, <2>1 DEF PInv, Indexed
<1>10. Publishing'
  <2>1. publishing'[t] = [next |-> "tx", id |-> n]
        /\ \A u \in Threads : u # t => publishing'[u] = publishing[u]
    BY <1>4 DEF PInv, Shape
  <2>2. Publishes(t)'
    BY <1>3, <1>6, <2>1 DEF Publishes
  <2> QED BY <1>3, <2>1, <2>2, OthersPublish DEF PInv
<1>11. JobsStand'
  <2>1. Stands(t)'
    BY <1>3 DEF Stands
  <2> QED BY <1>3, <2>1, OthersStand DEF PInv
<1>12. OneHolder' /\ DecisionsRest' /\ ToldIsPublished'
  BY <1>3, <1>4, HoldersKept, DecisionsKept, ToldKept DEF PInv, stores
<1> QED BY <1>8, <1>9, <1>10, <1>11, <1>12 DEF PInv

\* A step of the index writes the verdict of the approval the thread serves.
LEMMA IndexPInv ==
  ASSUME PInv, Kept, NEW t \in Threads, IndexApproval(t)
  PROVE  PInv'
<1> DEFINE a == job[t].approval
           v == publishing[t].id
<1>1. /\ job[t].pc = "publishing"
      /\ UNCHANGED <<stores, job, state, told, handed, verdicts>>
      /\ publishing[t].next # "none"
  BY DEF IndexApproval, IndexByTx, IndexByContext
<1>2. v \in DOMAIN verdicts /\ verdicts[v] = Verdict(a)
  BY <1>1 DEF PInv, Publishing, Publishes, NotPublishing
<1>3. verdicts[v].context_hash = a.context_hash /\ verdicts[v].session_id = a.session_id
  BY <1>2 DEF Verdict
<1>4. publishing \in [Threads -> [next : {"none", "tx", "context"}, id : Nat]]
  BY DEF PInv, Shape
<1>5. CASE IndexByTx(t)
  <2>1. /\ approved_by_tx' = Put(approved_by_tx, <<verdicts[v].gov_tx_id, verdicts[v].session_id>>, v)
        /\ publishing' = [publishing EXCEPT ![t] =
                            IF a.context_hash = NoContext THEN NotPublishing
                            ELSE [publishing[t] EXCEPT !.next = "context"]]
        /\ UNCHANGED approved_by_context
    BY <1>3, <1>5 DEF IndexByTx, OwnVerdict
  <2>2. /\ publishing' \in [Threads -> [next : {"none", "tx", "context"}, id : Nat]]
        /\ \A u \in Threads : u # t => publishing'[u] = publishing[u]
        /\ publishing'[t] = IF a.context_hash = NoContext THEN NotPublishing
                            ELSE [next |-> "context", id |-> v]
    BY <1>4, <2>1 DEF NotPublishing
  <2>3. Publishes(t)'
    BY <1>1, <1>2, <2>2 DEF Publishes, Published
  <2>4. Indexed'
    BY <1>1, <1>2, <2>1 DEF PInv, Indexed, Put
  <2> QED
    BY <1>1, <2>2, <2>3, <2>4, OthersPublish, DecisionsKept, OthersStand, HoldersKept, ToldKept
       DEF PInv, Shape, Approving, stores, JobsStand, Stands
<1>6. CASE IndexByContext(t)
  <2>1. /\ approved_by_context' = Put(approved_by_context, <<a.context_hash, a.session_id>>, v)
        /\ publishing' = [publishing EXCEPT ![t] = NotPublishing]
        /\ UNCHANGED approved_by_tx
    BY <1>3, <1>6 DEF IndexByContext, OwnVerdict
  <2>2. /\ publishing' \in [Threads -> [next : {"none", "tx", "context"}, id : Nat]]
        /\ \A u \in Threads : u # t => publishing'[u] = publishing[u]
        /\ publishing'[t] = NotPublishing
    BY <1>4, <2>1 DEF NotPublishing
  <2>3. Publishes(t)'
    <3>1. <<a.context_hash, a.session_id>> \in DOMAIN approved_by_context'
      BY <2>1 DEF Put
    <3> QED BY <1>1, <2>2, <3>1 DEF Publishes, Published
  <2>4. Indexed'
    <3>1. \A k \in DOMAIN approved_by_context' :
            LET w == approved_by_context'[k] IN
            /\ w \in DOMAIN verdicts
            /\ verdicts[w].context_hash = k[1] /\ verdicts[w].session_id = k[2]
      BY <1>2, <1>3, <2>1 DEF PInv, Indexed, Put
    <3> QED BY <1>1, <2>1, <3>1 DEF PInv, Indexed
  <2> QED
    BY <1>1, <2>2, <2>3, <2>4, OthersPublish, DecisionsKept, OthersStand, HoldersKept, ToldKept
       DEF PInv, Shape, Approving, stores, JobsStand, Stands
<1> QED BY <1>5, <1>6 DEF IndexApproval

\* Whoever is told has an approval that is published.
LEMMA ReplyPInv ==
  ASSUME PInv, Kept, NEW t \in Threads, ReplyApproved(t)
  PROVE  PInv'
<1> DEFINE a == job[t].approval
<1>1. /\ job[t].pc = "publishing" /\ publishing[t] = NotPublishing
      /\ told' = told \cup {a} /\ Become(t, Idle)
      /\ UNCHANGED <<ledger, stores, state, handed>>
  BY DEF ReplyApproved
<1>2. a \in Approvals /\ Idle \in Jobs
  BY <1>1, JobFields DEF PInv, Jobs
<1>3. /\ job' \in [Threads -> Jobs] /\ job'[t] = Idle
      /\ \A u \in Threads : u # t => job'[u] = job[u]
  BY <1>1, <1>2, Moved DEF PInv
<1>4. Published(a)
  BY <1>1 DEF PInv, Publishing, Publishes, NotPublishing
<1>5. Shape'
  <2>1. Approving' = Approving
    BY <1>1, <1>3, CountKept DEF PInv, Idle
  <2> QED BY <1>1, <1>2, <1>3, <2>1 DEF PInv, Shape, ledger
<1>6. Publishing'
  <2>1. Publishes(t)'
    BY <1>1, <1>3 DEF Publishes, ledger, Idle
  <2> QED BY <1>1, <1>3, <2>1, OthersPublish DEF PInv, ledger
<1>7. JobsStand'
  <2>1. Stands(t)'
    BY <1>3 DEF Stands, Idle
  <2> QED BY <1>3, <2>1, OthersStand DEF PInv
<1>8. OneHolder'
  BY <1>1, <1>3, HoldersKept DEF PInv, Idle
<1>9. ToldIsPublished'
  BY <1>1, <1>4 DEF PInv, ToldIsPublished, Published, ledger
<1> QED BY <1>1, <1>5, <1>6, <1>7, <1>8, <1>9, IndexKept, DecisionsKept DEF PInv, stores

\* A request starts from a verdict that is there.
LEMMA BeginPInv ==
  ASSUME PInv, Kept, NEW t \in Threads, NEW r \in Calls, BeginAuthorize(t, r)
  PROVE  PInv'
<1> DEFINE v == approved_verdict_id_by_context(r.context_hash, r.session_id)
           j == [pc |-> "resolve", call |-> r, verdict |-> v]
<1>1. /\ job[t] = Idle /\ v # NoVerdict /\ Become(t, j)
      /\ UNCHANGED <<ledger, stores, state, told, handed>>
  BY DEF BeginAuthorize
<1>2. v \in DOMAIN verdicts
  BY <1>1 DEF PInv, Indexed, approved_verdict_id_by_context, Lookup
<1>3. j \in Jobs
  BY <1>2 DEF PInv, Shape, Jobs
<1>4. job'[t] = j
  BY <1>1, <1>3, Moved DEF PInv
<1>5. Stands(t)'
  BY <1>1, <1>2, <1>4 DEF Stands, ledger
<1> QED BY <1>1, <1>3, <1>5, ThreadStep, DecisionsKept DEF stores, Idle, PInv

\* What was checked of the verdict is what is relied on when it is recorded.
LEMMA ResolvePInv ==
  ASSUME PInv, Kept, NEW t \in Threads, ResolveVerdict(t)
  PROVE  PInv'
<1> DEFINE c == job[t].call
           v == job[t].verdict
           j == IF MayAuthorize(c, v) THEN [pc |-> "record", call |-> c, verdict |-> v] ELSE Idle
<1>1. /\ job[t].pc = "resolve"
      /\ c \in Calls /\ job[t] = [pc |-> "resolve", call |-> c, verdict |-> v]
      /\ job[t] \in Jobs
  BY JobFields DEF ResolveVerdict, PInv
<1>2. v \in Nat /\ v \in DOMAIN verdicts
  BY <1>1 DEF PInv, JobsStand, Stands, Shape
<1>3. [job[t] EXCEPT !.pc = "record"] = [pc |-> "record", call |-> c, verdict |-> v]
  BY <1>1
<1>4. Become(t, j) /\ UNCHANGED <<ledger, stores, state, told, handed>>
  BY <1>3 DEF ResolveVerdict
<1>5. j \in Jobs /\ j.pc \in {"record", "idle"}
  BY <1>1, <1>2 DEF Jobs, Idle
<1>6. job'[t] = j
  BY <1>4, <1>5, Moved DEF PInv
<1>7. Stands(t)'
  BY <1>2, <1>4, <1>6 DEF Stands, ledger, Idle, MayAuthorize, resolve_by_context
<1>8. DecisionsRest'
  BY <1>4, DecisionsKept DEF PInv, stores
<1> QED BY <1>1, <1>4, <1>5, <1>7, <1>8, ThreadStep

\* A decision recorded now rests on the verdict just checked; one recorded
\* earlier allows the same and rests on its own.
LEMMA AuthorizationPInv ==
  ASSUME StoreProofs!IInv, PInv, Kept, NEW t \in Threads, RecordAuthorization(t)
  PROVE  PInv'
<1> DEFINE c == job[t].call
           v == job[t].verdict
           r == OnVerdict(c, v)
           d == Store!RecordedId(r)
           j == IF Store!RecordOutcome(r) \in Accepted
                THEN [pc |-> "issue", call |-> c, decision |-> d] ELSE Idle
<1>1. /\ job[t].pc = "record" /\ c \in Calls
      /\ Store!RecordDecision(r) /\ Become(t, j)
      /\ UNCHANGED <<ledger, state, told, handed>>
  BY JobFields DEF RecordAuthorization, PInv
<1>2. v \in DOMAIN verdicts /\ MayAuthorize(c, v)
  BY <1>1 DEF PInv, JobsStand, Stands
<1>3. /\ r.basis = v
      /\ Store!SameScope(r, OnItsPlane(c)) /\ Store!TxKey(r) = Store!TxKey(c)
  BY <1>1, RequestFields DEF Store!SameScope
<1>4. CASE Store!RecordOutcome(r) = "New"
  <2>1. /\ d = Len(decisions) + 1
        /\ decisions' = Append(decisions, [request |-> r, issued |-> FALSE])
    BY <1>1, <1>4 DEF Store!RecordDecision, Store!RecordOutcome, Store!RecordedId
  <2>2. \E S : decisions \in Seq(S)
    BY DEF StoreProofs!IInv, StoreProofs!TypeOK
  <2> HIDE DEF r
  <2>3. /\ d \in Nat /\ DOMAIN decisions' = DOMAIN decisions \cup {d}
        /\ \A e \in DOMAIN decisions : decisions'[e] = decisions[e]
        /\ decisions'[d] = [request |-> r, issued |-> FALSE]
    BY <2>1, <2>2
  <2>4. decisions'[d].request = r
    BY <2>3
  <2>5. j = [pc |-> "issue", call |-> c, decision |-> d] /\ j \in Jobs
    BY <1>1, <1>4, <2>3 DEF Accepted, Jobs
  <2>6. job'[t] = j
    BY <1>1, <2>5, Moved DEF PInv
  <2>7. DecisionsRest'
    <3>1. ASSUME NEW q, q = r PROVE Rests(q)'
      BY <1>1, <1>2, <1>3, <3>1 DEF Rests, r, ledger, MayAuthorize, resolve_by_context
    <3>2. ASSUME NEW e \in DOMAIN decisions', NEW q, q = decisions'[e].request
          PROVE  Rests(q)'
      <4>1. CASE e \in DOMAIN decisions
        <5>1. Rests(q)
          BY <2>3, <3>2, <4>1 DEF PInv, DecisionsRest
        <5> QED BY <5>1, KeptFacts
      <4>2. CASE e = d
        BY <2>4, <3>1, <3>2, <4>2
      <4> QED BY <2>3, <4>1, <4>2
    <3> QED BY <3>2 DEF DecisionsRest, Rests, MayAuthorize, resolve_by_context
  <2>8. Stands(t)'
    <3>1. /\ d \in DOMAIN decisions'
          /\ Store!SameScope(decisions'[d].request, OnItsPlane(c))
          /\ Store!TxKey(decisions'[d].request) = Store!TxKey(c)
      BY <1>3, <2>3, <2>4
    <3>2. /\ job'[t].pc = "issue" /\ job'[t].call = c /\ job'[t].decision = d
      BY <2>5, <2>6
    <3> QED BY <3>1, <3>2 DEF Stands, Serves
  <2> QED BY <1>1, <2>5, <2>7, <2>8, ThreadStep
<1>5. CASE Store!RecordOutcome(r) # "New"
  <2>1. UNCHANGED decisions
    BY <1>1, <1>5 DEF Store!RecordDecision
  <2>2. DecisionsRest'
    BY <2>1, DecisionsKept DEF PInv
  <2>3. CASE Store!RecordOutcome(r) = "Existing"
    <3>1. /\ d = decision_by_tx[Store!TxKey(r)] /\ Store!TxKey(r) \in DOMAIN decision_by_tx
          /\ Store!SameScope(r, decisions[d].request)
      BY <2>3 DEF Store!RecordOutcome, Store!RecordedId
    <3>2. d \in DOMAIN decisions /\ Store!TxKey(decisions[d].request) = Store!TxKey(r)
      BY <3>1 DEF StoreProofs!IInv, StoreProofs!IndexConsistent, Store!TxKey, StoreProofs!TxKey
    <3>3. Serves(d, c)
      BY <1>3, <3>1, <3>2 DEF Serves, Store!SameScope
    <3>4. d \in Nat
      BY <3>2 DEF StoreProofs!IInv, StoreProofs!TypeOK
    <3>5. j = [pc |-> "issue", call |-> c, decision |-> d] /\ j \in Jobs
      BY <1>1, <2>3, <3>4 DEF Accepted, Jobs
    <3>6. job'[t] = j
      BY <1>1, <3>5, Moved DEF PInv
    <3>7. Stands(t)'
      <4>1. /\ job'[t].pc = "issue" /\ job'[t].call = c /\ job'[t].decision = d
        BY <3>5, <3>6
      <4> QED BY <2>1, <3>3, <4>1 DEF Stands, Serves
    <3> QED BY <1>1, <2>2, <3>5, <3>7, ThreadStep
  <2>4. CASE Store!RecordOutcome(r) # "Existing"
    <3>1. j = Idle /\ Idle \in Jobs
      BY <1>5, <2>4 DEF Accepted, Jobs, Store!RecordOutcome
    <3>2. Stands(t)'
      <4>1. job'[t] = Idle
        BY <1>1, <3>1, Moved DEF PInv
      <4> QED BY <4>1 DEF Stands, Idle
    <3> QED BY <1>1, <2>2, <3>1, <3>2, ThreadStep DEF Idle
  <2> QED BY <2>3, <2>4
<1> QED BY <1>4, <1>5

\* The token minted is new, so nobody holds it yet.
LEMMA IssuePInv ==
  ASSUME StoreProofs!IInv, PInv, Kept, NEW t \in Threads, IssueCapability(t)
  PROVE  PInv'
<1> DEFINE c == job[t].call
           d == job[t].decision
           n == Len(minted) + 1
           j == IF Store!IssueOutcome(d) = "Issued"
                THEN [pc |-> "respond", call |-> c, token |-> n] ELSE Idle
<1>1. /\ job[t].pc = "issue" /\ c \in Calls
      /\ Store!IssueAfterAuthorization(d) /\ Become(t, j)
      /\ UNCHANGED <<ledger, state, told, handed>>
  BY JobFields DEF IssueCapability, PInv
<1>2. Serves(d, c)
  BY <1>1 DEF PInv, JobsStand, Stands
<1>3. minted \in Seq(DOMAIN decisions) /\ \E S : decisions \in Seq(S)
  BY DEF StoreProofs!IInv, StoreProofs!TypeOK
<1>4. DOMAIN decisions' = DOMAIN decisions
  BY <1>1, <1>3 DEF Store!IssueAfterAuthorization
<1>5. DecisionsRest'
  BY <1>4, DecisionsKept DEF PInv
<1>6. CASE Store!IssueOutcome(d) # "Issued"
  <2>1. j = Idle /\ Idle \in Jobs
    BY <1>6 DEF Jobs
  <2>2. Stands(t)'
    <3>1. job'[t] = Idle
      BY <1>1, <2>1, Moved DEF PInv
    <3> QED BY <3>1 DEF Stands, Idle
  <2> QED BY <1>1, <1>5, <2>1, <2>2, ThreadStep DEF Idle
<1>7. CASE Store!IssueOutcome(d) = "Issued"
  <2>1. minted' = Append(minted, d)
    BY <1>1, <1>7 DEF Store!IssueAfterAuthorization
  <2>2. /\ n \in Nat /\ n \notin DOMAIN minted
        /\ n \in DOMAIN minted' /\ minted'[n] = d
    BY <1>3, <2>1
  <2>3. j = [pc |-> "respond", call |-> c, token |-> n] /\ j \in Jobs
    BY <1>1, <1>7, <2>2 DEF Jobs
  <2>4. /\ job' \in [Threads -> Jobs] /\ job'[t] = j
        /\ \A u \in Threads : u # t => job'[u] = job[u]
    BY <1>1, <2>3, Moved DEF PInv
  <2>5. job'[t].pc = "respond" /\ job'[t].call = c /\ job'[t].token = n
    BY <2>3, <2>4
  <2>6. Shape'
    <3>1. Approving' = Approving
      BY <1>1, <2>4, <2>5, CountKept DEF PInv
    <3> QED BY <1>1, <2>4, <3>1 DEF PInv, Shape, ledger
  <2>7. Publishing'
    <3>1. Publishes(t)'
      BY <1>1, <2>5 DEF PInv, Publishing, Publishes, ledger
    <3> QED BY <1>1, <2>4, <3>1, OthersPublish DEF PInv, ledger
  <2>8. JobsStand'
    <3>1. Stands(t)'
      BY <1>2, <2>2, <2>5 DEF Stands, Serves, Kept
    <3> QED BY <2>4, <3>1, OthersStand DEF PInv
  <2>9. OneHolder'
    <3>1. \A h \in handed : h[1] \in DOMAIN minted /\ h[1] # n
      BY <2>2 DEF PInv, OneHolder
    <3>2. \A h \in handed : h[1] \in DOMAIN minted' /\ Serves(minted[h[1]], h[2])'
      BY DEF PInv, OneHolder, Kept, Serves
    <3>3. \A u \in Threads : u # t /\ job[u].pc = "respond" => job[u].token # n
      BY <2>2 DEF PInv, JobsStand, Stands
    <3>4. \A u \in Threads : job'[u].pc = "respond" =>
            /\ \A h \in handed : h[1] # job'[u].token
            /\ \A w \in Threads :
                 job'[w].pc = "respond" /\ job'[w].token = job'[u].token => w = u
      BY <2>4, <2>5, <3>1, <3>3 DEF PInv, OneHolder
    <3> QED BY <1>1, <3>2, <3>4 DEF PInv, OneHolder, Serves
  <2> QED BY <1>1, <1>5, <2>6, <2>7, <2>8, <2>9, IndexKept, ToldKept DEF PInv
<1> QED BY <1>6, <1>7

\* The capability goes from the thread to its caller, and to no other.
LEMMA DeliverPInv ==
  ASSUME PInv, Kept, NEW t \in Threads, Deliver(t)
  PROVE  PInv'
<1> DEFINE c == job[t].call
           n == job[t].token
<1>1. /\ job[t].pc = "respond" /\ c \in Calls
      /\ handed' = handed \cup {<<n, c>>} /\ Become(t, Idle)
      /\ UNCHANGED <<ledger, stores, state, told>>
  BY JobFields DEF Deliver, PInv
<1>2. /\ job' \in [Threads -> Jobs] /\ job'[t] = Idle
      /\ \A u \in Threads : u # t => job'[u] = job[u]
  BY <1>1, Moved DEF PInv, Jobs
<1>3. n \in DOMAIN minted /\ Serves(minted[n], c)
  BY <1>1 DEF PInv, JobsStand, Stands
<1>4. n \in Nat
  <2>1. job[t] \in Jobs
    BY JobFields DEF PInv
  <2> QED BY <1>1, <2>1 DEF Jobs, Idle
<1>5. Shape'
  <2>1. Approving' = Approving
    BY <1>1, <1>2, CountKept DEF PInv, Idle
  <2> QED BY <1>1, <1>2, <1>4, <2>1 DEF PInv, Shape, ledger
<1>6. Publishing'
  <2>1. Publishes(t)'
    BY <1>1, <1>2 DEF PInv, Publishing, Publishes, ledger, Idle
  <2> QED BY <1>1, <1>2, <2>1, OthersPublish DEF PInv, ledger
<1>7. JobsStand'
  <2>1. Stands(t)'
    BY <1>2 DEF Stands, Idle
  <2> QED BY <1>2, <2>1, OthersStand DEF PInv
<1>8. OneHolder'
  <2>1. \A h \in handed' : h[1] \in DOMAIN minted /\ Serves(minted[h[1]], h[2])
    BY <1>1, <1>3 DEF PInv, OneHolder
  <2>2. \A g, h \in handed' : g[1] = h[1] => g = h
    BY <1>1 DEF PInv, OneHolder
  <2>3. \A u \in Threads : job'[u].pc = "respond" => u # t /\ job'[u] = job[u]
    BY <1>2 DEF Idle
  <2>4. \A u \in Threads : job'[u].pc = "respond" =>
          /\ \A h \in handed' : h[1] # job'[u].token
          /\ \A w \in Threads :
               job'[w].pc = "respond" /\ job'[w].token = job'[u].token => w = u
    BY <1>1, <2>3 DEF PInv, OneHolder
  <2> QED BY <1>1, <2>1, <2>2, <2>4 DEF OneHolder, Serves, stores
<1> QED BY <1>1, <1>5, <1>6, <1>7, <1>8, IndexKept, DecisionsKept, ToldKept DEF PInv, stores

\* A response that is lost is held by nobody.
LEMMA LosePInv ==
  ASSUME PInv, Kept, NEW t \in Threads, LoseResponse(t)
  PROVE  PInv'
<1>1. /\ job[t].pc = "respond" /\ Become(t, Idle)
      /\ UNCHANGED <<ledger, stores, state, told, handed>>
  BY DEF LoseResponse
<1>2. Idle \in Jobs
  BY DEF Jobs
<1>3. job'[t] = Idle
  BY <1>1, <1>2, Moved DEF PInv
<1>4. Stands(t)'
  BY <1>3 DEF Stands, Idle
<1> QED BY <1>1, <1>2, <1>4, ThreadStep, DecisionsKept DEF Idle, stores, PInv

\* Executors, the clock and the session around it move none of it.
LEMMA AroundPInv ==
  ASSUME PInv, Kept, UNCHANGED <<ledger, job, told, handed>>,
         DOMAIN decisions' = DOMAIN decisions, state' \in [Sessions -> 1..4]
  PROVE  PInv'
<1>1. Shape'
  BY DEF PInv, Shape, Approving, ledger
<1>2. Publishing'
  BY DEF PInv, Publishing, Publishes, Published, ledger
<1>3. JobsStand'
  BY DEF PInv, JobsStand, Stands, Serves, MayAuthorize, resolve_by_context, Kept, ledger
<1>4. OneHolder'
  BY DEF PInv, OneHolder, Serves, Kept
<1> QED BY <1>1, <1>2, <1>3, <1>4, IndexKept, DecisionsKept, ToldKept DEF PInv

-----------------------------------------------------------------------------
(* The inductive invariant.                                                *)

\* It holds of the empty ledger and the empty store.
LEMMA InitIInv == Init => IInv
<1> SUFFICES ASSUME Init PROVE IInv
  OBVIOUS
<1>1. StoreProofs!IInv
  BY SameStore, StoreAssumption, StoreProofs!InitIInv DEF Init
<1>2. \A t \in Threads : job[t].pc = "idle" /\ publishing[t] = NotPublishing
  BY DEF Init, LedgerInit, Idle
<1>3. Shape
  <2>1. Approving = {}
    BY <1>2 DEF Approving
  <2>2. Len(verdicts) = 0 /\ verdicts \in Seq(Verdicts)
    BY DEF Init, LedgerInit
  <2>3. Len(verdicts) + Cardinality(Approving) <= MaxVerdicts
    BY <2>1, <2>2, FS_EmptySet, BoundsAssumption DEF BoundsAssumption
  <2> QED
    BY <2>1, <2>2, <2>3, FS_EmptySet DEF Init, LedgerInit, Shape, Jobs, NotPublishing
<1>4. Indexed
  BY DEF Init, LedgerInit, Indexed
<1>5. Publishing
  BY <1>2 DEF Publishing, Publishes
<1>6. JobsStand
  BY <1>2 DEF JobsStand, Stands
<1>8. OneHolder
  <2>1. handed = {} /\ \A t \in Threads : job[t].pc # "respond"
    BY <1>2 DEF Init
  <2> QED BY <2>1 DEF OneHolder
<1>7. DecisionsRest /\ ToldIsPublished
  BY DEF Init, Store!Init, DecisionsRest, ToldIsPublished
<1> QED BY <1>1, <1>3, <1>4, <1>5, <1>6, <1>7, <1>8 DEF IInv

\* Every step of every thread, executor and session keeps it.
LEMMA StepIInv == IInv /\ [Next]_vars => IInv'
<1> SUFFICES ASSUME IInv, [Next]_vars PROVE IInv'
  OBVIOUS
<1>1. StoreProofs!IInv /\ PInv
  BY DEF IInv, PInv
<1>2. StoreProofs!IInv' /\ Kept
  BY <1>1, StoreStep, StoreKept, StepKept
<1>3. ASSUME UNCHANGED <<ledger, stores, job, told, handed>>, state' \in [Sessions -> 1..4]
      PROVE  PInv'
  BY <1>1, <1>2, <1>3, AroundPInv DEF stores
<1>4. ASSUME NEW t \in Threads, Serve(t) PROVE PInv'
  BY <1>1, <1>2, <1>4, RecordApprovalPInv, IndexPInv, ReplyPInv, ResolvePInv,
     AuthorizationPInv, IssuePInv, DeliverPInv, LosePInv DEF Serve
<1>5. ASSUME NEW t \in Threads, NEW a \in Approvals, DecideApproved(t, a) PROVE PInv'
  BY <1>1, <1>2, <1>5, DecidePInv
<1>6. ASSUME NEW t \in Threads, NEW r \in Calls, BeginAuthorize(t, r) PROVE PInv'
  BY <1>1, <1>2, <1>6, BeginPInv
<1>7. ASSUME NEW h \in handed, NEW p \in Presented, ConsumeCapability(h, p) PROVE PInv'
  <2>1. UNCHANGED <<ledger, job, state, told, handed, decisions>>
    BY <1>7 DEF ConsumeCapability, Store!Consume
  <2> QED BY <1>1, <1>2, <2>1, AroundPInv DEF PInv, Shape
<1>8. ASSUME NEW s \in Sessions, Degrade(s) PROVE PInv'
  <2>1. UNCHANGED <<ledger, stores, job, told, handed>>
    BY <1>8 DEF Degrade
  <2>2. PICK n \in Levels : state' = [state EXCEPT ![s] = n]
    BY <1>8 DEF Degrade
  <2>3. n \in 1..4
    BY BoundsAssumption DEF BoundsAssumption
  <2>4. state' \in [Sessions -> 1..4]
    BY <1>1, <2>2, <2>3 DEF PInv, Shape
  <2> QED BY <1>3, <2>1, <2>4
<1>9. ASSUME NEW s \in Sessions, Forget(s) PROVE PInv'
  BY <1>1, <1>3, <1>9 DEF Forget, PInv, Shape
<1>10. ASSUME TimePasses PROVE PInv'
  <2>1. UNCHANGED <<ledger, job, state, told, handed, decisions>>
    BY <1>10 DEF TimePasses, Store!Tick, Store!store
  <2> QED BY <1>1, <1>2, <2>1, AroundPInv DEF PInv, Shape
<1>11. ASSUME UNCHANGED vars PROVE PInv'
  BY <1>1, <1>3, <1>11 DEF vars, PInv, Shape
<1>12. PInv'
  BY <1>4, <1>5, <1>6, <1>7, <1>8, <1>9, <1>10, <1>11 DEF Next
<1> QED BY <1>2, <1>12 DEF IInv, PInv

\* The inductive invariant holds however threads, executors and the sessions
\* around them interleave.
THEOREM Invariance == Spec => []IInv
  BY InitIInv, StepIInv, PTL DEF Spec

-----------------------------------------------------------------------------
(* The theorems.                                                           *)

\* The ledger, the threads and the session states keep their shape.
THEOREM TypeCorrect == Spec => []TypeOK
<1>1. IInv => TypeOK
  <2> SUFFICES ASSUME IInv PROVE TypeOK
    OBVIOUS
  <2>1. \A t \in Threads :
          /\ publishing[t].next \in {"none", "tx", "context"}
          /\ job[t].pc \in {"idle", "approved", "publishing", "resolve", "record", "issue",
                           "respond"}
    <3> SUFFICES ASSUME NEW t \in Threads
                 PROVE  /\ publishing[t].next \in {"none", "tx", "context"}
                        /\ job[t].pc \in {"idle", "approved", "publishing", "resolve", "record",
                                         "issue", "respond"}
      OBVIOUS
    <3>1. job[t] \in Jobs
      BY JobFields DEF IInv
    <3>2. publishing[t] \in [next : {"none", "tx", "context"}, id : Nat]
      BY DEF IInv, Shape
    <3> QED BY <3>1, <3>2 DEF Jobs, Idle
  <2> QED BY <2>1 DEF IInv, Shape, Indexed, TypeOK, Verdicts
<1> QED BY <1>1, Invariance, PTL

\* The pipeline takes no step of the capability store that the store is not
\* specified to take.
THEOREM UsesStoreCorrect == Spec => UsesStore
<1>1. Init => Store!Init
  BY DEF Init
<1>2. Spec => Store!Init /\ [][Store!Next]_(Store!vars)
  BY <1>1, StoreStep, Invariance, PTL DEF Spec
<1> QED BY <1>2 DEF UsesStore, Store!Spec

\* A capability can be traced to the approval of its context, in its session
\* and run, and to a call that was not denied.
THEOREM CapabilityTracesCorrect == Spec => []CapabilityTracesToApproval
<1>1. IInv => CapabilityTracesToApproval
  <2> SUFFICES ASSUME IInv, NEW i \in DOMAIN minted
               PROVE  LET r == decisions[minted[i]].request IN
                      /\ r.basis \in DOMAIN verdicts
                      /\ verdicts[r.basis] =
                           Verdict([gov_tx_id |-> verdicts[r.basis].gov_tx_id,
                                    session_id |-> r.session_id, direction |-> "Inbound",
                                    context_hash |-> r.context_hash, run_id |-> r.run_id])
                      /\ \E c \in Calls \ Denied : r = OnVerdict(c, r.basis)
    BY DEF CapabilityTracesToApproval
  <2> DEFINE r == decisions[minted[i]].request
             v == r.basis
  <2>1. minted[i] \in DOMAIN decisions
    BY StoreAssumption, StoreProofs!Elements DEF IInv, StoreProofs!IInv
  <2>2. Rests(r)
    BY <2>1 DEF IInv, DecisionsRest
  <2>3. PICK c \in Calls : r = OnVerdict(c, v) /\ MayAuthorize(c, v)
    BY <2>2 DEF Rests
  <2>4. r.session_id = c.session_id /\ r.context_hash = c.context_hash /\ r.run_id = c.run_id
    BY <2>3, RequestFields
  <2>5. v \in DOMAIN verdicts /\ verdicts[v] \in Verdicts
    BY <2>2 DEF Rests, IInv, Shape
  <2>6. /\ verdicts[v].session_id = c.session_id /\ verdicts[v].direction = "Inbound"
        /\ verdicts[v].context_hash = c.context_hash /\ verdicts[v].run_id = c.run_id
        /\ c \notin Denied
    BY <2>3, <2>5 DEF MayAuthorize, resolve_by_context
  <2>7. PICK a \in Approvals : verdicts[v] = Verdict(a)
    BY <2>5 DEF Verdicts
  <2>8. verdicts[v] = Verdict([gov_tx_id |-> verdicts[v].gov_tx_id,
                              session_id |-> r.session_id, direction |-> "Inbound",
                              context_hash |-> r.context_hash, run_id |-> r.run_id])
    <3> DEFINE w == verdicts[v]
    <3>1. w = [gov_tx_id |-> w.gov_tx_id, session_id |-> w.session_id,
               direction |-> w.direction, context_hash |-> w.context_hash,
               run_id |-> w.run_id, final_approved |-> TRUE]
      BY <2>7 DEF Verdict
    <3> HIDE DEF w, r
    <3>2. w = [gov_tx_id |-> w.gov_tx_id, session_id |-> r.session_id,
               direction |-> "Inbound", context_hash |-> r.context_hash,
               run_id |-> r.run_id, final_approved |-> TRUE]
      BY <2>4, <2>6, <3>1 DEF w
    <3> QED BY <3>2 DEF Verdict, w, r
  <2> QED BY <2>3, <2>5, <2>6, <2>8
<1> QED BY <1>1, Invariance, PTL

\* A caller that was told APPROVED finds its context approved, in its run.
THEOREM ToldIsUsableCorrect == Spec => []ToldIsUsable
<1>1. IInv => ToldIsUsable
  <2> SUFFICES ASSUME IInv, NEW a \in told, a.context_hash # NoContext
               PROVE  LET v == approved_verdict_id_by_context(a.context_hash, a.session_id) IN
                      /\ resolve_by_context(v, a.session_id) = "Found"
                      /\ verdicts[v].context_hash = a.context_hash
                      /\ verdicts[v].run_id = a.run_id
    BY DEF ToldIsUsable
  <2> DEFINE k == <<a.context_hash, a.session_id>>
             v == approved_by_context[k]
  <2>1. k \in DOMAIN approved_by_context /\ a \in Approvals
    BY DEF IInv, ToldIsPublished, Published, Shape
  <2>2. /\ v \in DOMAIN verdicts /\ verdicts[v].context_hash = a.context_hash
        /\ verdicts[v].session_id = a.session_id
    BY <2>1 DEF IInv, Indexed
  <2>3. verdicts[v] \in Verdicts
    BY <2>2 DEF IInv, Shape
  <2>4. PICK b \in Approvals : verdicts[v] = Verdict(b)
    BY <2>3 DEF Verdicts
  <2>5. verdicts[v].run_id = a.run_id
    BY <2>1, <2>2, <2>4, HashAssumption DEF Verdict
  <2>6. approved_verdict_id_by_context(a.context_hash, a.session_id) = v
    BY <2>1 DEF approved_verdict_id_by_context, Lookup
  <2> QED BY <2>2, <2>5, <2>6 DEF resolve_by_context
<1> QED BY <1>1, Invariance, PTL

\* Of the calls that race for a decision one is handed its capability, and it is
\* for what that call asked.
THEOREM DeliveredCorrect == Spec => []DeliveredToItsCall
<1>1. IInv => DeliveredToItsCall
  BY DEF IInv, OneHolder, Serves, DeliveredToItsCall
<1> QED BY <1>1, Invariance, PTL

\* An execution presented what was asked for by a call that was not denied, on a
\* verdict that approved its context and run in its session.
ExecutedOnlyIfApproved ==
  \A i \in DOMAIN executions :
    \E c \in Calls \ Denied, v \in DOMAIN verdicts :
      /\ MayAuthorize(c, v)
      /\ Store!Covers(OnVerdict(c, v), executions[i].binding)

\* So it is for every execution, whatever raced, was retried or was lost since.
THEOREM ExecutedOnlyIfApprovedCorrect == Spec => []ExecutedOnlyIfApproved
<1>1. IInv => ExecutedOnlyIfApproved
  <2> SUFFICES ASSUME IInv, NEW i \in DOMAIN executions
               PROVE  \E c \in Calls \ Denied, v \in DOMAIN verdicts :
                        /\ MayAuthorize(c, v)
                        /\ Store!Covers(OnVerdict(c, v), executions[i].binding)
    BY DEF ExecutedOnlyIfApproved
  <2> DEFINE d == minted[executions[i].token]
             r == decisions[d].request
  <2>1. d \in DOMAIN decisions
    BY StoreAssumption, StoreProofs!Elements DEF IInv, StoreProofs!IInv
  <2>2. StoreProofs!Covers(r, executions[i].binding)
    BY DEF IInv, StoreProofs!IInv, StoreProofs!ExecutionsBurn
  <2>3. Store!Covers(r, executions[i].binding)
    BY <2>2 DEF Store!Covers, StoreProofs!Covers, Store!Authorities, StoreProofs!Authorities,
         Store!ProviderFields, StoreProofs!ProviderFields, Store!ActionFields,
         StoreProofs!ActionFields, Store!AUTHORITY_PROVIDER_EXECUTE,
         StoreProofs!AUTHORITY_PROVIDER_EXECUTE, Store!AUTHORITY_ACTION_EXECUTE,
         StoreProofs!AUTHORITY_ACTION_EXECUTE
  <2>4. Rests(r)
    BY <2>1 DEF IInv, DecisionsRest
  <2>5. PICK c \in Calls : r = OnVerdict(c, r.basis) /\ MayAuthorize(c, r.basis)
    BY <2>4 DEF Rests
  <2>6. c \notin Denied
    BY <2>5 DEF MayAuthorize
  <2> QED BY <2>3, <2>4, <2>5, <2>6 DEF Rests
<1> QED BY <1>1, Invariance, PTL

\* What is proved of the store alone holds of the store the pipeline uses: at
\* most one execution for a transaction and authority.
THEOREM OneExecutionCorrect == Spec => []Store!AtMostOneExecution
<1>1. StoreProofs!IInv => StoreProofs!AtMostOneExecution
  BY StoreAssumption, StoreProofs!OneExecution
<1>2. StoreProofs!AtMostOneExecution => Store!AtMostOneExecution
  BY DEF StoreProofs!AtMostOneExecution, Store!AtMostOneExecution, StoreProofs!TxKey,
         Store!TxKey
<1>3. IInv => Store!AtMostOneExecution
  BY <1>1, <1>2 DEF IInv
<1> QED BY <1>3, Invariance, PTL

-----------------------------------------------------------------------------
(* The log of evidence: the inductive invariant.                           *)

LogShape ==
  /\ \E S : evidence \in Seq(S)
  /\ owed = [t \in Threads |-> owed[t]]
  /\ IsFiniteSet(Busy)

InEvidence(e) == \E i \in DOMAIN evidence : evidence[i] = e

\* It is in the log, or about to be.
Appears(e) == InEvidence(e) \/ \E t \in Threads : owed[t] = e

Approved(a) == Event("ContextApproved", a, NoCapability)

\* The approval of a context is reported as soon as it can be used, and is in the
\* log before its caller is told.
ApprovalsReported ==
  /\ \A t \in Threads :
       job[t].pc = "publishing" /\ publishing[t] = NotPublishing
         /\ job[t].approval.context_hash # NoContext
       => owed[t] = Approved(job[t].approval) \/ InEvidence(Approved(job[t].approval))
  /\ \A a \in told : a.context_hash # NoContext => InEvidence(Approved(a))
  /\ \A k \in DOMAIN approved_by_context :
       \E a \in Approvals :
         /\ k = <<a.context_hash, a.session_id>> /\ a.context_hash # NoContext
         /\ Appears(Approved(a))

\* Requests go on from a context that is in the index.
Known(f) == <<f.context_hash, f.session_id>> \in DOMAIN approved_by_context

ContextsKnown ==
  /\ \A t \in Threads : job[t].pc \in {"resolve", "record"} => Known(job[t].call)
  /\ \A d \in DOMAIN decisions : Known(decisions[d].request)

Grant(c) == Event("Authorized", decisions[minted[c]].request, c)

\* A capability is reported by the thread that was issued it, and is in the log
\* before anyone holds it.
GrantsReported ==
  /\ \A t \in Threads :
       job[t].pc = "respond" =>
         owed[t] = Grant(job[t].token) \/ InEvidence(Grant(job[t].token))
  /\ \A h \in handed : InEvidence(Grant(h[1]))

IsEvent(e) ==
  e = [type |-> e.type, capability |-> e.capability, gov_tx_id |-> e.gov_tx_id,
       session_id |-> e.session_id, run_id |-> e.run_id, context_hash |-> e.context_hash]

\* A consumption agrees with an approval that was reported ...
Approval(e) ==
  IsEvent(e) /\ \E a \in Approvals :
    /\ a.context_hash = e.context_hash /\ a.session_id = e.session_id /\ a.run_id = e.run_id
    /\ Appears(Approved(a))

\* ... and with an authorization that is in the log, before it.
ConsumptionsFollow ==
  /\ \A t \in Threads : owed[t].type = "CapabilityConsumed" =>
       Approval(owed[t]) /\ InEvidence([owed[t] EXCEPT !.type = "Authorized"])
  /\ \A i \in DOMAIN evidence : evidence[i].type = "CapabilityConsumed" =>
       /\ Approval(evidence[i])
       /\ \E j \in DOMAIN evidence :
            j < i /\ evidence[j] = [evidence[i] EXCEPT !.type = "Authorized"]

\* An answer that was reviewed names a verdict.
Named(e) ==
  e.type = "OutboundReleased" \/ (e.type = "OutboundWithheld" /\ e.context_hash # Empty) =>
    \E v \in DOMAIN verdicts : e = Event(e.type, verdicts[v], NoCapability)

AnswersNamed ==
  /\ \A i \in DOMAIN evidence : Named(evidence[i])
  /\ \A t \in Threads : Named(owed[t])

Spent(c) == {x \in DOMAIN executions : executions[x].token = c}

\* One report for every capability and for every execution, none for another.
Counted ==
  \A c \in Nat :
    /\ Reported("Authorized", c) = IF c \in DOMAIN minted THEN 1 ELSE 0
    /\ Reported("CapabilityConsumed", c) = Cardinality(Spent(c))

GInv ==
  /\ LogShape /\ ApprovalsReported /\ ContextsKnown /\ GrantsReported
  /\ ConsumptionsFollow /\ AnswersNamed /\ Counted

GIInv == IInv /\ GInv

-----------------------------------------------------------------------------
(* What a step does to the log.                                            *)

\* A thread that owes none is given an event to append.
Owes(t, e) ==
  e.type # "none" /\ Clear(t) /\ owed' = [owed EXCEPT ![t] = e] /\ UNCHANGED evidence

LogStep ==
  \/ Inner
  \/ \E t \in Threads : \E e : Owes(t, e)
  \/ \E t \in Threads : AppendEvidence(t)

\* Owing touches one thread.
LEMMA OwesEffect ==
  ASSUME LogShape, NEW t \in Threads, NEW e, Owes(t, e)
  PROVE  /\ owed[t] = Nothing /\ owed'[t] = e /\ evidence' = evidence
         /\ \A u \in Threads : u # t => owed'[u] = owed[u]
  BY DEF LogShape, Owes, Clear

\* The event goes from the thread to the end of the log.
LEMMA AppendEffect ==
  ASSUME LogShape, NEW t \in Threads, AppendEvidence(t)
  PROVE  /\ owed[t] # Nothing /\ owed'[t] = Nothing
         /\ \A u \in Threads : u # t => owed'[u] = owed[u]
         /\ Len(evidence) + 1 \notin DOMAIN evidence
         /\ DOMAIN evidence' = DOMAIN evidence \cup {Len(evidence) + 1}
         /\ evidence'[Len(evidence) + 1] = owed[t]
         /\ \A i \in DOMAIN evidence :
              /\ i \in Nat /\ i < Len(evidence) + 1
              /\ evidence'[i] = evidence[i]
         /\ \E S : evidence' \in Seq(S)
<1>1. /\ owed[t] # Nothing /\ owed'[t] = Nothing
      /\ \A u \in Threads : u # t => owed'[u] = owed[u]
  BY DEF LogShape, AppendEvidence, Clear
<1>2. PICK S : evidence \in Seq(S)
  BY DEF LogShape
<1> DEFINE R == S \cup {owed[t]}
<1>3. evidence \in Seq(R) /\ owed[t] \in R
  <2>1. evidence \in [1..Len(evidence) -> R] /\ Len(evidence) \in Nat
    BY <1>2
  <2> QED BY <2>1
<1>4. evidence' = Append(evidence, owed[t])
  BY DEF AppendEvidence
<1> HIDE DEF R
<1>5. /\ Len(evidence) + 1 \notin DOMAIN evidence
      /\ DOMAIN evidence' = DOMAIN evidence \cup {Len(evidence) + 1}
      /\ evidence'[Len(evidence) + 1] = owed[t]
      /\ \A i \in DOMAIN evidence :
           /\ i \in Nat /\ i < Len(evidence) + 1
           /\ evidence'[i] = evidence[i]
      /\ evidence' \in Seq(R)
  BY <1>3, <1>4
<1> QED BY <1>1, <1>5

\* Nothing leaves the log, and what appears goes on appearing.
LEMMA LogGrows ==
  ASSUME LogShape, LogStep
  PROVE  /\ \A e : InEvidence(e) => InEvidence(e)'
         /\ \A e : e.type # "none" /\ Appears(e) => Appears(e)'
         /\ \A e : \A u \in Threads : e.type # "none" /\ (owed[u] = e \/ InEvidence(e)) =>
              owed'[u] = e \/ InEvidence(e)'
<1> DEFINE P == /\ \A e : InEvidence(e) => InEvidence(e)'
                /\ \A e : \A u \in Threads : e.type # "none" /\ (owed[u] = e \/ InEvidence(e)) =>
                     owed'[u] = e \/ InEvidence(e)'
<1>1. ASSUME Inner PROVE P
  BY <1>1 DEF Inner, InEvidence
<1>2. ASSUME NEW t \in Threads, NEW f, Owes(t, f) PROVE P
  BY <1>2, OwesEffect DEF InEvidence, Nothing
<1>3. ASSUME NEW t \in Threads, AppendEvidence(t) PROVE P
  BY <1>3, AppendEffect DEF InEvidence
<1>4. P
  BY <1>1, <1>2, <1>3 DEF LogStep
<1>5. \A e : e.type # "none" /\ Appears(e) => Appears(e)'
  BY <1>4 DEF Appears
<1> QED BY <1>4, <1>5

\* Every step is one of the pipeline, or leaves it alone.
LEMMA PipelineStep == GNext => [Next]_vars
<1> SUFFICES ASSUME GNext PROVE [Next]_vars
  OBVIOUS
<1>1. ASSUME NEW t \in Threads, NEW a \in Approvals, BeginApproval(t, a) PROVE Next
  BY <1>1 DEF BeginApproval, Next
<1>2. ASSUME NEW t \in Threads, NEW r \in Calls, BeginAuthorization(t, r) PROVE [Next]_vars
  BY <1>2 DEF BeginAuthorization, Next
<1>3. ASSUME NEW t \in Threads, NEW h \in handed, NEW p \in Presented, ConsumeGoverned(t, h, p)
      PROVE  Next
  BY <1>3 DEF ConsumeGoverned, Next
<1>4. ASSUME NEW t \in Threads,
             PublishApproval(t) \/ AnswerApproval(t) \/ Authorize(t) \/ AnswerAuthorization(t)
      PROVE  Next
  BY <1>4 DEF PublishApproval, AnswerApproval, Authorize, AnswerAuthorization, Serve, Next
<1>5. ASSUME NEW s \in Sessions, Degrade(s) \/ Forget(s) PROVE Next
  BY <1>5 DEF Next
<1>6. TimePasses => Next
  BY DEF Next
<1> QED
  BY <1>1, <1>2, <1>3, <1>4, <1>5, <1>6
     DEF GNext, RefuseContext, Outbound, RefuseEnvelope, AppendEvidence

\* The fields of an event.
LEMMA EventFields ==
  \A type, f, c : LET e == Event(type, f, c) IN
    /\ e.type = type /\ e.capability = c /\ e.gov_tx_id = f.gov_tx_id
    /\ e.session_id = f.session_id /\ e.run_id = f.run_id /\ e.context_hash = f.context_hash
  BY DEF Event

\* What a step does to the log when it mints no capability and executes nothing,
\* when it executes, and when it mints.
Plain ==
  /\ UNCHANGED <<minted, executions>>
  /\ \/ Inner
     \/ \E t \in Threads : AppendEvidence(t)
     \/ \E t \in Threads : \E e :
          Owes(t, e) /\ Named(e) /\ e.type \notin {"Authorized", "CapabilityConsumed"}

Executes(t, h, p) ==
  /\ ConsumptionEvent(h, p).type = "CapabilityConsumed" /\ Owes(t, ConsumptionEvent(h, p))
  /\ Store!Consume(h[1], OnItsPlane(p)) /\ UNCHANGED minted

Mints(t, e) ==
  /\ e.type = "Authorized" /\ e.capability = Len(minted) + 1 /\ Owes(t, e)
  /\ \E d : minted' = Append(minted, d)
  /\ UNCHANGED executions

\* Whatever it is of the pipeline, a step does one of these.
LEMMA LogEffect ==
  ASSUME GIInv, GNext
  PROVE  \/ Plain
         \/ \E t \in Threads, h \in handed, p \in Presented : Executes(t, h, p)
         \/ \E t \in Threads : \E e : Mints(t, e)
<1> DEFINE P == \/ Plain
                \/ \E t \in Threads, h \in handed, p \in Presented : Executes(t, h, p)
                \/ \E t \in Threads : \E e : Mints(t, e)
<1>0. ASSUME UNCHANGED <<minted, executions>>,
             NEW t \in Threads, NEW type, NEW f, NEW c, Clear(t), Owe(t, Event(type, f, c)),
             type \in {"ContextApproved", "ContextRefused", "Refused", "CapabilityRejected"}
      PROVE  Plain
  <2> DEFINE e == Event(type, f, c)
  <2>1. e.type = type
    BY EventFields
  <2> HIDE DEF e
  <2>2. Owes(t, e)
    BY <1>0, <2>1 DEF Owes, Owe, e
  <2> QED BY <1>0, <2>1, <2>2 DEF Plain, Named
<1>1. ASSUME UNCHANGED <<minted, executions>>, Inner PROVE Plain
  BY <1>1 DEF Plain
<1>2. ASSUME NEW t \in Threads, NEW a \in Approvals, BeginApproval(t, a) \/ RefuseContext(t, a)
      PROVE  Plain
  BY <1>0, <1>1, <1>2 DEF BeginApproval, DecideApproved, RefuseContext, Room, vars, stores
<1>3. ASSUME NEW t \in Threads, NEW r \in Calls, BeginAuthorization(t, r) PROVE Plain
  BY <1>0, <1>1, <1>3 DEF BeginAuthorization, BeginAuthorize, Room, vars, stores
<1>4. ASSUME NEW t \in Threads, NEW r \in Calls, Outbound(t, r) PROVE Plain
  <2> DEFINE v == approved_verdict_id_by_context(r.context_hash, r.session_id)
  <2>1. UNCHANGED <<minted, executions>> /\ Clear(t)
    BY <1>4 DEF Outbound, Room, vars, stores
  <2>2. ASSUME NEW e, Owe(t, e), Named(e), e.type \in {"OutboundReleased", "OutboundWithheld"}
        PROVE  Plain
    BY <2>1, <2>2 DEF Plain, Owes, Owe
  <2>3. CASE ResolvesOutbound(r, v)
    <3>1. v \in DOMAIN verdicts
      BY <2>3 DEF ResolvesOutbound, resolve_by_context
    <3>2. PICK type \in {"OutboundReleased", "OutboundWithheld"} : Owe(t, OutboundEvent(r, v, type))
      BY <1>4, <2>3 DEF Outbound
    <3>3. OutboundEvent(r, v, type) = Event(type, verdicts[v], NoCapability)
      BY DEF OutboundEvent
    <3>4. Event(type, verdicts[v], NoCapability).type = type
      BY EventFields
    <3>5. Named(Event(type, verdicts[v], NoCapability))
      BY <3>1, <3>4 DEF Named
    <3> QED BY <2>2, <3>2, <3>3, <3>4, <3>5
  <2>4. CASE ~ResolvesOutbound(r, v)
    <3> DEFINE e == Event("OutboundWithheld", Unverified, NoCapability)
    <3>1. e.type = "OutboundWithheld" /\ e.context_hash = Empty
      BY EventFields DEF Unverified
    <3>2. Owe(t, e)
      BY <1>4, <2>4 DEF Outbound
    <3> HIDE DEF e
    <3> QED BY <2>2, <3>1, <3>2 DEF Named
  <2> QED BY <2>3, <2>4
<1>5. ASSUME NEW t \in Threads, NEW h \in handed, NEW p \in Presented, ConsumeGoverned(t, h, p)
      PROVE  P
  <2>1. /\ Clear(t) /\ Owe(t, ConsumptionEvent(h, p)) /\ Store!Consume(h[1], OnItsPlane(p))
        /\ UNCHANGED minted
    BY <1>5 DEF ConsumeGoverned, ConsumeCapability, Room, Store!Consume
  <2>2. CASE Store!ConsumeOutcome(h[1], OnItsPlane(p)) = "Authorized"
    <3>1. ConsumptionEvent(h, p).type = "CapabilityConsumed"
      BY <2>2, EventFields DEF ConsumptionEvent
    <3>2. Owes(t, ConsumptionEvent(h, p))
      BY <2>1, <3>1 DEF Owes, Owe
    <3> QED BY <2>1, <3>1, <3>2 DEF Executes
  <2>3. CASE Store!ConsumeOutcome(h[1], OnItsPlane(p)) # "Authorized"
    <3>1. ConsumptionEvent(h, p) = Event("CapabilityRejected", p, h[1])
      BY <2>3 DEF ConsumptionEvent
    <3>2. UNCHANGED executions
      BY <2>1, <2>3 DEF Store!Consume
    <3> QED BY <1>0, <2>1, <3>1, <3>2
  <2> QED BY <2>2, <2>3
<1>6. ASSUME NEW t \in Threads, PublishApproval(t) PROVE Plain
  <2>1. UNCHANGED <<minted, executions>> /\ Clear(t)
    BY <1>6 DEF PublishApproval, RecordApproval, IndexApproval, stores
  <2> QED BY <1>0, <1>1, <1>6, <2>1 DEF PublishApproval
<1>7. ASSUME NEW t \in Threads, Authorize(t) PROVE P
  <2>1. /\ Clear(t) /\ UNCHANGED executions
        /\ \/ Inner /\ job'[t] # Idle /\ job'[t].pc # "respond"
           \/ Owe(t, Event("Refused", job[t].call, NoCapability)) /\ job'[t] = Idle
           \/ /\ job'[t].pc = "respond"
              /\ Owe(t, Event("Authorized", decisions[job[t].decision].request, job'[t].token))
    BY <1>7
       DEF Authorize, ResolveVerdict, RecordAuthorization, IssueCapability, stores,
           Store!RecordDecision, Store!IssueAfterAuthorization
  <2>2. CASE ResolveVerdict(t) \/ RecordAuthorization(t)
    <3>1. UNCHANGED minted
      BY <2>2 DEF ResolveVerdict, RecordAuthorization, stores, Store!RecordDecision
    <3>2. job'[t].pc # "respond"
      <4>1. job[t] = [pc |-> job[t].pc, call |-> job[t].call, verdict |-> job[t].verdict]
        BY <2>2, JobFields DEF ResolveVerdict, RecordAuthorization, GIInv, IInv
      <4>2. [job[t] EXCEPT !.pc = "record"].pc = "record"
        BY <4>1
      <4>3. \E j : Become(t, j) /\ j.pc # "respond"
        <5>1. \A d : [pc |-> "issue", call |-> job[t].call, decision |-> d].pc = "issue"
          OBVIOUS
        <5>2. Idle.pc # "respond"
          BY DEF Idle
        <5> QED BY <2>2, <4>2, <5>1, <5>2 DEF ResolveVerdict, RecordAuthorization
      <4> QED BY <4>3 DEF Become, GIInv, IInv, Shape
    <3> QED BY <1>0, <1>1, <2>1, <3>1, <3>2
  <2>3. CASE IssueCapability(t)
    <3> DEFINE d == job[t].decision
               n == Len(minted) + 1
               j == [pc |-> "respond", call |-> job[t].call, token |-> n]
               e == Event("Authorized", decisions[d].request, n)
    <3>1. CASE Store!IssueOutcome(d) = "Issued"
      <4>1. minted' = Append(minted, d) /\ Become(t, j)
        BY <2>3, <3>1 DEF IssueCapability, Store!IssueAfterAuthorization
      <4>2. job'[t] = j
        BY <4>1 DEF Become, GIInv, IInv, Shape
      <4>3. job'[t].token = n /\ job'[t].pc = "respond" /\ job'[t] # Idle
        BY <4>2 DEF Idle
      <4>4. Owe(t, e)
        BY <1>7, <4>3 DEF Authorize
      <4>5. e.type = "Authorized" /\ e.capability = n
        BY EventFields
      <4> HIDE DEF e
      <4>6. Owes(t, e)
        BY <2>1, <4>4, <4>5 DEF Owes, Owe
      <4>7. Mints(t, e)
        BY <2>1, <4>1, <4>5, <4>6 DEF Mints
      <4> QED BY <4>7
    <3>2. CASE Store!IssueOutcome(d) # "Issued"
      <4>1. UNCHANGED minted /\ Become(t, Idle)
        BY <2>3, <3>2 DEF IssueCapability, Store!IssueAfterAuthorization
      <4>2. job'[t] = Idle /\ Idle.pc # "respond"
        BY <4>1 DEF Become, GIInv, IInv, Shape, Idle
      <4> QED BY <1>0, <1>1, <2>1, <4>1, <4>2
    <3> QED BY <3>1, <3>2
  <2> QED BY <1>7, <2>2, <2>3 DEF Authorize
<1>8. ASSUME NEW t \in Threads, AnswerApproval(t) \/ AnswerAuthorization(t) PROVE Plain
  BY <1>1, <1>8 DEF AnswerApproval, AnswerAuthorization, ReplyApproved, Deliver, LoseResponse, stores
<1>9. ASSUME NEW t \in Threads, RefuseEnvelope(t) PROVE Plain
  BY <1>0, <1>9 DEF RefuseEnvelope, Room, vars, stores
<1>10. ASSUME NEW t \in Threads, AppendEvidence(t) PROVE Plain
  BY <1>10 DEF AppendEvidence, Plain, vars, stores
<1>11. ASSUME NEW s \in Sessions, Degrade(s) \/ Forget(s), Inner PROVE Plain
  BY <1>1, <1>11 DEF Degrade, Forget, stores
<1>12. ASSUME TimePasses, Inner PROVE Plain
  BY <1>1, <1>12 DEF TimePasses, Store!Tick, Store!store
<1> QED
  BY <1>2, <1>3, <1>4, <1>5, <1>6, <1>7, <1>8, <1>9, <1>10, <1>11, <1>12 DEF GNext

\* In each case it does one thing to the log.
LEMMA StepOfLog == GIInv /\ GNext => LogStep
  BY LogEffect DEF Plain, Executes, Mints, LogStep

\* One thread at most changes its job in a step.
LEMMA OneJob ==
  ASSUME IInv, [Next]_vars
  PROVE  \E t : \A u \in Threads \ {t} : job'[u] = job[u]
<1>1. job = [u \in Threads |-> job[u]]
  BY DEF IInv, Shape
<1> DEFINE P == \E t : \A u \in Threads \ {t} : job'[u] = job[u]
<1>2. ASSUME NEW t \in Threads, NEW j, Become(t, j) PROVE P
  BY <1>1, <1>2 DEF Become
<1>3. ASSUME UNCHANGED job PROVE P
  BY <1>3
<1>4. ASSUME NEW t \in Threads, Serve(t) PROVE P
  BY <1>2, <1>3, <1>4
     DEF Serve, RecordApproval, IndexApproval, ReplyApproved, ResolveVerdict, RecordAuthorization,
         IssueCapability, Deliver, LoseResponse
<1> QED
  BY <1>2, <1>3, <1>4
     DEF Next, DecideApproved, BeginAuthorize, ConsumeCapability, Degrade, Forget, TimePasses, vars

\* So the threads that are busy stay finitely many.
LEMMA ShapeStep ==
  ASSUME GIInv, GNext
  PROVE  LogShape'
<1>1. LogShape /\ LogStep /\ [Next]_vars
  BY StepOfLog, PipelineStep DEF GIInv, GInv
<1>2. /\ \E S : evidence' \in Seq(S)
      /\ owed' = [t \in Threads |-> owed'[t]]
      /\ \E t : \A u \in Threads \ {t} : owed'[u] = owed[u]
  <2> DEFINE P == /\ \E S : evidence' \in Seq(S)
                  /\ owed' = [t \in Threads |-> owed'[t]]
                  /\ \E t : \A u \in Threads \ {t} : owed'[u] = owed[u]
  <2>1. ASSUME Inner PROVE P
    BY <1>1, <2>1 DEF Inner, LogShape
  <2>2. ASSUME NEW t \in Threads, NEW e, Owes(t, e) PROVE P
    BY <1>1, <2>2 DEF Owes, LogShape
  <2>3. ASSUME NEW t \in Threads, AppendEvidence(t) PROVE P
    <3>1. owed' = [u \in Threads |-> owed'[u]]
      BY <1>1, <2>3 DEF AppendEvidence, LogShape
    <3> QED BY <1>1, <2>3, <3>1, AppendEffect
  <2> QED BY <1>1, <2>1, <2>2, <2>3 DEF LogStep
<1>3. PICK t : \A u \in Threads \ {t} : owed'[u] = owed[u]
  BY <1>2
<1>4. PICK w : \A u \in Threads \ {w} : job'[u] = job[u]
  BY <1>1, OneJob DEF GIInv
<1>5. Busy' \subseteq (Busy \cup {t}) \cup {w}
  BY <1>3, <1>4 DEF Busy, Clear
<1>6. IsFiniteSet((Busy \cup {t}) \cup {w})
  <2>1. IsFiniteSet(Busy)
    BY <1>1 DEF LogShape
  <2>2. IsFiniteSet(Busy \cup {t})
    BY <2>1, FS_AddElement
  <2> QED BY <2>2, FS_AddElement
<1>7. IsFiniteSet(Busy')
  BY <1>5, <1>6, FS_Subset
<1> QED BY <1>2, <1>7 DEF LogShape

-----------------------------------------------------------------------------
(* Approvals.                                                              *)

\* A step that publishes no approval and tells of none.
LEMMA ApprovalsQuiet ==
  ASSUME ApprovalsReported, LogShape, LogStep, UNCHANGED <<told, approved_by_context>>,
         \A u \in Threads :
           job'[u].pc = "publishing" /\ publishing'[u] = NotPublishing
             /\ job'[u].approval.context_hash # NoContext
           => job'[u] = job[u] /\ publishing'[u] = publishing[u]
  PROVE  ApprovalsReported'
<1>1. \A a : Approved(a).type # "none"
  BY EventFields DEF Approved
<1>2. ASSUME NEW u \in Threads, NEW a, a = job'[u].approval,
             job'[u].pc = "publishing", publishing'[u] = NotPublishing, a.context_hash # NoContext
      PROVE  owed'[u] = Approved(a) \/ InEvidence(Approved(a))'
  <2>1. owed[u] = Approved(a) \/ InEvidence(Approved(a))
    BY <1>2 DEF ApprovalsReported
  <2> QED BY <1>1, <2>1, LogGrows
<1>3. \A a \in told : a.context_hash # NoContext => InEvidence(Approved(a))'
  BY LogGrows DEF ApprovalsReported
<1>4. ASSUME NEW k \in DOMAIN approved_by_context
      PROVE  \E a \in Approvals :
               /\ k = <<a.context_hash, a.session_id>> /\ a.context_hash # NoContext
               /\ Appears(Approved(a))'
  BY <1>1, LogGrows DEF ApprovalsReported
<1> QED BY <1>2, <1>3, <1>4 DEF ApprovalsReported, InEvidence, Appears

\* The step that puts a context into the index owes the report of its approval.
LEMMA ApprovalsPublish ==
  ASSUME GIInv, LogStep, NEW t \in Threads, PublishApproval(t)
  PROVE  ApprovalsReported'
<1> DEFINE a == job[t].approval
<1>1. LogShape /\ ApprovalsReported /\ PInv
  BY DEF GIInv, GInv, IInv, PInv
<1>2. publishing \in [Threads -> [next : {"none", "tx", "context"}, id : Nat]]
      /\ job \in [Threads -> Jobs]
  BY <1>1 DEF PInv, Shape
<1>3. CASE RecordApproval(t)
  <2>1. /\ publishing' = [publishing EXCEPT ![t] = [next |-> "tx", id |-> Len(verdicts) + 1]]
        /\ UNCHANGED <<told, approved_by_context>>
        /\ job' = [job EXCEPT ![t] = [job[t] EXCEPT !.pc = "publishing"]]
    BY <1>3 DEF RecordApproval, RecordFinalApproved, Become
  <2>2. publishing'[t] # NotPublishing
        /\ \A u \in Threads : u # t => publishing'[u] = publishing[u] /\ job'[u] = job[u]
    BY <1>2, <2>1 DEF NotPublishing
  <2> QED BY <1>1, <2>1, <2>2, ApprovalsQuiet
<1>4. CASE IndexApproval(t)
  <2> DEFINE v == publishing[t].id
  <2>1. /\ job[t].pc = "publishing" /\ UNCHANGED <<job, told, verdicts>>
        /\ publishing[t].next # "none"
    BY <1>4 DEF IndexApproval, IndexByTx, IndexByContext
  <2>2. v \in DOMAIN verdicts /\ verdicts[v] = Verdict(a) /\ a \in Approvals
    <3>1. a \in Approvals
      BY <1>1, <2>1, JobFields DEF PInv
    <3>2. publishing[t] # NotPublishing
      BY <2>1 DEF NotPublishing
    <3> QED BY <1>1, <3>1, <3>2 DEF PInv, Publishing, Publishes
  <2>3. verdicts[v].context_hash = a.context_hash /\ verdicts[v].session_id = a.session_id
    BY <2>2 DEF Verdict
  <2>4. CASE IndexByTx(t)
    <3>1. /\ UNCHANGED approved_by_context
          /\ \A u \in Threads : u # t => publishing'[u] = publishing[u]
          /\ publishing' = [publishing EXCEPT ![t] =
                 IF a.context_hash = NoContext THEN NotPublishing
                 ELSE [publishing[t] EXCEPT !.next = "context"]]
      BY <1>2, <2>3, <2>4 DEF IndexByTx
    <3>2. a.context_hash # NoContext => publishing'[t] # NotPublishing
      BY <1>2, <3>1 DEF NotPublishing
    <3> QED BY <1>1, <2>1, <3>1, <3>2, ApprovalsQuiet
  <2>5. CASE IndexByContext(t)
    <3>1. /\ approved_by_context' = Put(approved_by_context, <<a.context_hash, a.session_id>>, v)
          /\ publishing' = [publishing EXCEPT ![t] = NotPublishing]
      BY <2>3, <2>5 DEF IndexByContext, OwnVerdict
    <3>2. publishing'[t] = NotPublishing
          /\ \A u \in Threads : u # t => publishing'[u] = publishing[u]
      BY <1>2, <3>1
    <3>3. a.context_hash # NoContext
      BY <1>1, <2>5 DEF PInv, Publishing, Publishes, IndexByContext, NotPublishing
    <3>4. owed'[t] = Approved(a)
      <4>1. Owe(t, Approved(a))
        BY <2>1, <3>2, <3>3 DEF PublishApproval, Approved
      <4> QED BY <1>1, <4>1 DEF Owe, LogShape
    <3>5. \A b : Approved(b).type # "none"
      BY EventFields DEF Approved
    <3>6. ASSUME NEW u \in Threads, NEW b, b = job[u].approval,
                 job[u].pc = "publishing", publishing'[u] = NotPublishing, b.context_hash # NoContext
          PROVE  owed'[u] = Approved(b) \/ InEvidence(Approved(b))'
      <4>1. CASE u = t
        BY <3>4, <3>6, <4>1
      <4>2. CASE u # t
        <5>1. owed[u] = Approved(b) \/ InEvidence(Approved(b))
          BY <1>1, <3>2, <3>6, <4>2 DEF ApprovalsReported
        <5> QED BY <1>1, <3>5, <5>1, LogGrows
      <4> QED BY <4>1, <4>2
    <3>7. \A b \in told : b.context_hash # NoContext => InEvidence(Approved(b))'
      BY <1>1, LogGrows DEF ApprovalsReported
    <3>8. ASSUME NEW k \in DOMAIN approved_by_context'
          PROVE  \E b \in Approvals :
                   /\ k = <<b.context_hash, b.session_id>> /\ b.context_hash # NoContext
                   /\ Appears(Approved(b))'
      <4>1. CASE k = <<a.context_hash, a.session_id>>
        <5>1. \A b : b = a => Appears(Approved(b))'
          BY <3>4 DEF Appears
        <5> QED BY <2>2, <3>3, <4>1, <5>1
      <4>2. CASE k # <<a.context_hash, a.session_id>>
        <5>1. k \in DOMAIN approved_by_context
          BY <3>1, <4>2 DEF Put
        <5> QED BY <1>1, <3>5, <5>1, LogGrows DEF ApprovalsReported
      <4> QED BY <4>1, <4>2
    <3> QED BY <2>1, <3>6, <3>7, <3>8 DEF ApprovalsReported, InEvidence, Appears
  <2> QED BY <1>4, <2>4, <2>5 DEF IndexApproval
<1> QED BY <1>3, <1>4 DEF PublishApproval

\* The caller is told when the thread owes nothing any more.
LEMMA ApprovalsAnswer ==
  ASSUME GIInv, LogStep, NEW t \in Threads, AnswerApproval(t)
  PROVE  ApprovalsReported'
<1> DEFINE a == job[t].approval
<1>1. LogShape /\ ApprovalsReported /\ Shape
  BY DEF GIInv, GInv, IInv
<1>2. /\ owed[t] = Nothing /\ Inner /\ Become(t, Idle)
      /\ job[t].pc = "publishing" /\ publishing[t] = NotPublishing
      /\ told' = told \cup {a} /\ UNCHANGED ledger
  BY DEF AnswerApproval, ReplyApproved, Clear
<1>3. /\ job'[t] = Idle
      /\ \A u \in Threads : u # t => job'[u] = job[u]
  BY <1>1, <1>2 DEF Shape, Become
<1>4. a.context_hash # NoContext => InEvidence(Approved(a))
  <2>1. Approved(a).type # "none"
    BY EventFields DEF Approved
  <2> QED BY <1>1, <1>2, <2>1 DEF ApprovalsReported, Nothing
<1>5. \A b \in told' : b.context_hash # NoContext => InEvidence(Approved(b))
  BY <1>1, <1>2, <1>4 DEF ApprovalsReported
<1>6. \A u \in Threads : job'[u].pc = "publishing" => job'[u] = job[u]
  BY <1>3 DEF Idle
<1> QED
  BY <1>1, <1>2, <1>5, <1>6 DEF ApprovalsReported, InEvidence, Appears, Inner, ledger

\* Approvals are reported under every step.
LEMMA ApprovalsStep ==
  ASSUME GIInv, GNext
  PROVE  ApprovalsReported'
<1>1. LogStep /\ LogShape /\ ApprovalsReported /\ Shape
  BY StepOfLog DEF GIInv, GInv, IInv
<1>2. ASSUME NEW t \in Threads, NEW j, Become(t, j), j.pc # "publishing",
             UNCHANGED <<told, ledger>>
      PROVE  ApprovalsReported'
  <2>1. \A u \in Threads : job'[u].pc = "publishing" => job'[u] = job[u]
    BY <1>1, <1>2 DEF Shape, Become
  <2> QED BY <1>1, <1>2, <2>1, ApprovalsQuiet DEF ledger
<1>3. ASSUME UNCHANGED <<job, told, ledger>> PROVE ApprovalsReported'
  BY <1>1, <1>3, ApprovalsQuiet DEF ledger
<1>4. ASSUME NEW t \in Threads, NEW a \in Approvals, BeginApproval(t, a) \/ RefuseContext(t, a)
      PROVE  ApprovalsReported'
  <2>1. [pc |-> "approved", approval |-> a].pc # "publishing"
    OBVIOUS
  <2> QED BY <1>2, <1>3, <1>4, <2>1 DEF BeginApproval, DecideApproved, RefuseContext, vars
<1>5. ASSUME NEW t \in Threads, NEW r \in Calls, BeginAuthorization(t, r) \/ Outbound(t, r)
      PROVE  ApprovalsReported'
  <2>1. \A v : [pc |-> "resolve", call |-> r, verdict |-> v].pc # "publishing"
    OBVIOUS
  <2> QED
    BY <1>2, <1>3, <1>5, <2>1 DEF BeginAuthorization, BeginAuthorize, Outbound, vars
<1>6. ASSUME NEW t \in Threads, NEW h \in handed, NEW p \in Presented, ConsumeGoverned(t, h, p)
      PROVE  ApprovalsReported'
  BY <1>3, <1>6 DEF ConsumeGoverned, ConsumeCapability
<1>7. ASSUME NEW t \in Threads, Authorize(t) PROVE ApprovalsReported'
  <2>1. UNCHANGED <<told, ledger>>
    BY <1>7 DEF Authorize, ResolveVerdict, RecordAuthorization, IssueCapability
  <2>2. \E j : Become(t, j) /\ j.pc # "publishing"
    <3>1. ResolveVerdict(t) => [job[t] EXCEPT !.pc = "record"].pc # "publishing"
      <4>1. ResolveVerdict(t) =>
              job[t] = [pc |-> "resolve", call |-> job[t].call, verdict |-> job[t].verdict]
        BY <1>1, JobFields DEF ResolveVerdict
      <4> QED BY <4>1
    <3>2. Idle.pc # "publishing"
      BY DEF Idle
    <3>3. CASE ResolveVerdict(t)
      BY <3>1, <3>2, <3>3 DEF ResolveVerdict
    <3>4. CASE RecordAuthorization(t)
      <4>1. \A d : [pc |-> "issue", call |-> job[t].call, decision |-> d].pc # "publishing"
        OBVIOUS
      <4> QED BY <3>2, <3>4, <4>1 DEF RecordAuthorization
    <3>5. CASE IssueCapability(t)
      <4>1. \A n : [pc |-> "respond", call |-> job[t].call, token |-> n].pc # "publishing"
        OBVIOUS
      <4> QED BY <3>2, <3>5, <4>1 DEF IssueCapability
    <3> QED BY <1>7, <3>3, <3>4, <3>5 DEF Authorize
  <2> QED BY <1>2, <2>1, <2>2
<1>8. ASSUME NEW t \in Threads, AnswerAuthorization(t) PROVE ApprovalsReported'
  BY <1>2, <1>8 DEF AnswerAuthorization, Deliver, LoseResponse, Idle
<1>9. ASSUME NEW t \in Threads, RefuseEnvelope(t) \/ AppendEvidence(t) PROVE ApprovalsReported'
  BY <1>3, <1>9 DEF RefuseEnvelope, AppendEvidence, vars
<1>10. ASSUME NEW s \in Sessions, Degrade(s) \/ Forget(s) PROVE ApprovalsReported'
  BY <1>3, <1>10 DEF Degrade, Forget
<1>11. TimePasses => ApprovalsReported'
  BY <1>3 DEF TimePasses
<1> QED
  BY <1>1, <1>4, <1>5, <1>6, <1>7, <1>8, <1>9, <1>10, <1>11, ApprovalsPublish, ApprovalsAnswer
     DEF GNext

-----------------------------------------------------------------------------
(* Contexts.                                                               *)

\* No request is begun and no decision recorded.
LEMMA ContextsQuiet ==
  ASSUME ContextsKnown, Kept, DOMAIN decisions' = DOMAIN decisions,
         \A u \in Threads : job'[u].pc \in {"resolve", "record"} => job'[u] = job[u]
  PROVE  ContextsKnown'
  BY DEF ContextsKnown, Known, Kept

\* A request is begun on a context found in the index, and a decision is that of
\* a request.
LEMMA ContextsStep ==
  ASSUME IInv, ContextsKnown, [Next]_vars
  PROVE  ContextsKnown'
<1>1. Kept /\ Shape /\ StoreProofs!TypeOK
  BY StepKept DEF IInv, StoreProofs!IInv
<1>2. ASSUME NEW t \in Threads, NEW j, Become(t, j), j.pc \notin {"resolve", "record"},
             DOMAIN decisions' = DOMAIN decisions
      PROVE  ContextsKnown'
  <2>1. \A u \in Threads : job'[u].pc \in {"resolve", "record"} => job'[u] = job[u]
    BY <1>1, <1>2 DEF Shape, Become
  <2> QED BY <1>1, <1>2, <2>1, ContextsQuiet
<1>3. ASSUME UNCHANGED <<job, decisions>> PROVE ContextsKnown'
  BY <1>1, <1>3, ContextsQuiet
<1>4. ASSUME NEW t \in Threads, NEW a \in Approvals, DecideApproved(t, a) PROVE ContextsKnown'
  <2>1. [pc |-> "approved", approval |-> a].pc \notin {"resolve", "record"}
    OBVIOUS
  <2> QED BY <1>2, <1>4, <2>1 DEF DecideApproved, stores
<1>5. ASSUME NEW t \in Threads, NEW r \in Calls, BeginAuthorize(t, r) PROVE ContextsKnown'
  <2>1. Known(r)
    BY <1>5 DEF BeginAuthorize, approved_verdict_id_by_context, Lookup, Known
  <2>2. UNCHANGED <<decisions, approved_by_context>>
    BY <1>5 DEF BeginAuthorize, ledger, stores
  <2>3. job'[t].call = r /\ \A u \in Threads : u # t => job'[u] = job[u]
    BY <1>1, <1>5 DEF BeginAuthorize, Become, Shape
  <2> QED BY <2>1, <2>2, <2>3 DEF ContextsKnown, Known
<1>6. ASSUME NEW t \in Threads, ResolveVerdict(t) PROVE ContextsKnown'
  <2>1. /\ job[t].pc = "resolve" /\ UNCHANGED <<decisions, approved_by_context>>
        /\ job[t] = [pc |-> "resolve", call |-> job[t].call, verdict |-> job[t].verdict]
    BY <1>1, <1>6, JobFields DEF ResolveVerdict, ledger, stores
  <2>2. [job[t] EXCEPT !.pc = "record"].call = job[t].call
    BY <2>1
  <2>3. \A u \in Threads : u # t => job'[u] = job[u]
    BY <1>1, <1>6 DEF ResolveVerdict, Become, Shape
  <2>4. job'[t].call = job[t].call \/ job'[t].pc = "idle"
    BY <1>1, <1>6, <2>2 DEF ResolveVerdict, Become, Shape, Idle
  <2> QED BY <2>1, <2>3, <2>4 DEF ContextsKnown, Known
<1>7. ASSUME NEW t \in Threads, RecordAuthorization(t) PROVE ContextsKnown'
  <2> DEFINE c == job[t].call
             r == OnVerdict(c, job[t].verdict)
  <2>1. /\ job[t].pc = "record" /\ c \in Calls /\ Store!RecordDecision(r)
        /\ UNCHANGED approved_by_context
    BY <1>1, <1>7, JobFields DEF RecordAuthorization, ledger
  <2>2. Known(c) /\ r.context_hash = c.context_hash /\ r.session_id = c.session_id
    BY <2>1, RequestFields DEF ContextsKnown
  <2>3. \A d \in DOMAIN decisions' : d \in DOMAIN decisions \/ decisions'[d].request = r
    <3> HIDE DEF r
    <3>1. \E S : decisions \in Seq(S)
      BY <1>1 DEF StoreProofs!TypeOK
    <3>2. \/ UNCHANGED decisions
          \/ decisions' = Append(decisions, [request |-> r, issued |-> FALSE])
      BY <2>1 DEF Store!RecordDecision
    <3> QED BY <3>1, <3>2
  <2>4. \A u \in Threads : job'[u].pc \in {"resolve", "record"} => job'[u] = job[u]
    <3>1. \E j : Become(t, j) /\ j.pc \notin {"resolve", "record"}
      <4>1. \A d : [pc |-> "issue", call |-> c, decision |-> d].pc \notin {"resolve", "record"}
        OBVIOUS
      <4>2. Idle.pc \notin {"resolve", "record"}
        BY DEF Idle
      <4> QED BY <1>7, <4>1, <4>2 DEF RecordAuthorization
    <3> QED BY <1>1, <3>1 DEF Become, Shape
  <2>5. ASSUME NEW d \in DOMAIN decisions', NEW q, q = decisions'[d].request PROVE Known(q)
    BY <1>1, <2>2, <2>3, <2>5 DEF ContextsKnown, Known, Kept
  <2> QED BY <2>1, <2>4, <2>5 DEF ContextsKnown, Known
<1>8. ASSUME NEW t \in Threads, IssueCapability(t) PROVE ContextsKnown'
  <2>1. \E j : Become(t, j) /\ j.pc \notin {"resolve", "record"}
    <3>1. \A n : [pc |-> "respond", call |-> job[t].call, token |-> n].pc \notin {"resolve", "record"}
      OBVIOUS
    <3>2. Idle.pc \notin {"resolve", "record"}
      BY DEF Idle
    <3> QED BY <1>8, <3>1, <3>2 DEF IssueCapability
  <2>2. DOMAIN decisions' = DOMAIN decisions
    <3>1. \E S : decisions \in Seq(S)
      BY <1>1 DEF StoreProofs!TypeOK
    <3> QED BY <1>8, <3>1 DEF IssueCapability, Store!IssueAfterAuthorization
  <2> QED BY <1>2, <2>1, <2>2
<1>9. ASSUME NEW t \in Threads,
             RecordApproval(t) \/ IndexApproval(t) \/ ReplyApproved(t) \/ Deliver(t) \/ LoseResponse(t)
      PROVE  ContextsKnown'
  <2>1. RecordApproval(t) => [job[t] EXCEPT !.pc = "publishing"].pc = "publishing"
    <3>1. RecordApproval(t) => job[t] = [pc |-> "approved", approval |-> job[t].approval]
      BY <1>1, JobFields DEF RecordApproval
    <3> QED BY <3>1
  <2> QED
    BY <1>2, <1>3, <1>9, <2>1
       DEF RecordApproval, IndexApproval, ReplyApproved, Deliver, LoseResponse, stores, Idle
<1>10. ASSUME NEW h \in handed, NEW p \in Presented, ConsumeCapability(h, p) PROVE ContextsKnown'
  BY <1>3, <1>10 DEF ConsumeCapability, Store!Consume
<1>11. ASSUME NEW s \in Sessions, Degrade(s) \/ Forget(s) PROVE ContextsKnown'
  BY <1>3, <1>11 DEF Degrade, Forget, stores
<1>12. TimePasses => ContextsKnown'
  BY <1>3 DEF TimePasses, Store!Tick, Store!store
<1>13. UNCHANGED vars => ContextsKnown'
  BY <1>3 DEF vars, stores
<1> QED
  BY <1>4, <1>5, <1>6, <1>7, <1>8, <1>9, <1>10, <1>11, <1>12, <1>13 DEF Next, Serve

-----------------------------------------------------------------------------
(* Grants.                                                                 *)

\* What a capability was granted for is settled when it is minted.
LEMMA GrantKept ==
  ASSUME StoreProofs!IInv, Kept, NEW c \in DOMAIN minted
  PROVE  \A g : g = Grant(c) => (g = Grant(c))'
<1>1. minted[c] \in DOMAIN decisions
  BY StoreAssumption, StoreProofs!Elements DEF StoreProofs!IInv
<1> QED BY <1>1 DEF Grant, Event, Kept

\* No capability is issued or delivered.
LEMMA GrantsQuiet ==
  ASSUME GIInv, LogStep, Kept, UNCHANGED handed,
         \A u \in Threads : job'[u].pc = "respond" => job'[u] = job[u]
  PROVE  GrantsReported'
<1>1. LogShape /\ GrantsReported /\ StoreProofs!IInv /\ JobsStand /\ OneHolder
  BY DEF GIInv, GInv, IInv
<1>2. \A c : Grant(c).type # "none"
  BY EventFields DEF Grant
<1>3. ASSUME NEW u \in Threads, job'[u].pc = "respond", NEW c, c = job[u].token,
             NEW g, g = Grant(c)
      PROVE  (g = Grant(c))' /\ (owed'[u] = g \/ InEvidence(g)')
  <2>1. c \in DOMAIN minted /\ (owed[u] = g \/ InEvidence(g))
    BY <1>1, <1>3 DEF JobsStand, Stands, GrantsReported
  <2> QED BY <1>1, <1>2, <1>3, <2>1, GrantKept, LogGrows
<1>4. ASSUME NEW h \in handed, NEW g, g = Grant(h[1])
      PROVE  (g = Grant(h[1]))' /\ InEvidence(g)'
  <2>1. h[1] \in DOMAIN minted /\ InEvidence(g)
    BY <1>1, <1>4 DEF OneHolder, GrantsReported
  <2> QED BY <1>1, <1>4, <2>1, GrantKept, LogGrows
<1> QED BY <1>3, <1>4 DEF GrantsReported, InEvidence, Grant

\* The step that mints a capability owes the report of it, and it is delivered
\* when the thread owes nothing any more.
LEMMA GrantsStep ==
  ASSUME GIInv, GNext
  PROVE  GrantsReported'
<1>1. LogStep /\ LogShape /\ Kept /\ Shape /\ StoreProofs!IInv /\ JobsStand
  BY StepOfLog, PipelineStep, StepKept DEF GIInv, GInv, IInv
<1>2. ASSUME NEW t \in Threads, NEW j, Become(t, j), j.pc # "respond", UNCHANGED handed
      PROVE  GrantsReported'
  <2>1. \A u \in Threads : job'[u].pc = "respond" => job'[u] = job[u]
    BY <1>1, <1>2 DEF Shape, Become
  <2> QED BY <1>1, <1>2, <2>1, GrantsQuiet
<1>3. ASSUME UNCHANGED <<job, handed>> PROVE GrantsReported'
  BY <1>1, <1>3, GrantsQuiet
<1>4. ASSUME NEW t \in Threads, NEW a \in Approvals, BeginApproval(t, a) \/ RefuseContext(t, a)
      PROVE  GrantsReported'
  <2>1. [pc |-> "approved", approval |-> a].pc # "respond"
    OBVIOUS
  <2> QED BY <1>2, <1>3, <1>4, <2>1 DEF BeginApproval, DecideApproved, RefuseContext, vars
<1>5. ASSUME NEW t \in Threads, NEW r \in Calls, BeginAuthorization(t, r) \/ Outbound(t, r)
      PROVE  GrantsReported'
  <2>1. \A v : [pc |-> "resolve", call |-> r, verdict |-> v].pc # "respond"
    OBVIOUS
  <2> QED BY <1>2, <1>3, <1>5, <2>1 DEF BeginAuthorization, BeginAuthorize, Outbound, vars
<1>6. ASSUME NEW t \in Threads, NEW h \in handed, NEW p \in Presented, ConsumeGoverned(t, h, p)
      PROVE  GrantsReported'
  BY <1>3, <1>6 DEF ConsumeGoverned, ConsumeCapability
<1>7. ASSUME NEW t \in Threads, ResolveVerdict(t) PROVE GrantsReported'
  <2>1. job[t] = [pc |-> "resolve", call |-> job[t].call, verdict |-> job[t].verdict]
    BY <1>1, <1>7, JobFields DEF ResolveVerdict
  <2>2. [job[t] EXCEPT !.pc = "record"].pc # "respond" /\ Idle.pc # "respond"
    BY <2>1 DEF Idle
  <2> QED BY <1>2, <1>7, <2>2 DEF ResolveVerdict
<1>8. ASSUME NEW t \in Threads, RecordAuthorization(t) PROVE GrantsReported'
  <2>1. Idle.pc # "respond" /\
        \A d : [pc |-> "issue", call |-> job[t].call, decision |-> d].pc # "respond"
    BY DEF Idle
  <2> QED BY <1>2, <1>8, <2>1 DEF RecordAuthorization
<1>9. ASSUME NEW t \in Threads, Authorize(t), IssueCapability(t) PROVE GrantsReported'
  <2> DEFINE d == job[t].decision
             n == Len(minted) + 1
             j == [pc |-> "respond", call |-> job[t].call, token |-> n]
  <2>1. CASE Store!IssueOutcome(d) # "Issued"
    BY <1>2, <1>9, <2>1 DEF IssueCapability, Idle
  <2>2. CASE Store!IssueOutcome(d) = "Issued"
    <3>1. /\ minted' = Append(minted, d) /\ Become(t, j) /\ UNCHANGED handed
          /\ d \in DOMAIN decisions
      BY <1>9, <2>2
         DEF IssueCapability, Store!IssueAfterAuthorization, Store!IssueOutcome
    <3>2. minted \in Seq(DOMAIN decisions)
      BY <1>1 DEF StoreProofs!IInv, StoreProofs!TypeOK
    <3>3. minted'[n] = d /\ n \in Nat
      BY <3>1, <3>2
    <3>4. /\ job'[t] = j /\ \A u \in Threads : u # t => job'[u] = job[u]
      BY <1>1, <3>1 DEF Become, Shape
    <3>5. job'[t].pc = "respond" /\ job'[t].token = n /\ job'[t] # Idle
      BY <3>4 DEF Idle
    <3>6. owed'[t] = Event("Authorized", decisions[d].request, n)
      <4>1. Owe(t, Event("Authorized", decisions[d].request, n))
        BY <1>9, <3>5 DEF Authorize
      <4> QED BY <1>1, <4>1 DEF Owe, LogShape
    <3>7. owed'[t] = Grant(job[t].token)'
      BY <1>1, <3>1, <3>3, <3>5, <3>6 DEF Grant, Event, Kept
    <3>8. ASSUME NEW u \in Threads, u # t, job'[u].pc = "respond", NEW c, c = job[u].token,
                 NEW g, g = Grant(c)
          PROVE  (g = Grant(c))' /\ (owed'[u] = g \/ InEvidence(g)')
      <4>1. c \in DOMAIN minted /\ (owed[u] = g \/ InEvidence(g))
        BY <1>1, <3>4, <3>8 DEF JobsStand, Stands, GrantsReported, GIInv, GInv
      <4>2. g.type # "none"
        BY <3>8, EventFields DEF Grant
      <4> QED BY <1>1, <3>8, <4>1, <4>2, GrantKept, LogGrows
    <3>9. ASSUME NEW h \in handed, NEW g, g = Grant(h[1])
          PROVE  (g = Grant(h[1]))' /\ InEvidence(g)'
      <4>1. h[1] \in DOMAIN minted /\ InEvidence(g)
        BY <3>9 DEF OneHolder, GrantsReported, GIInv, GInv, IInv
      <4> QED BY <1>1, <3>9, <4>1, GrantKept, LogGrows
    <3>10. ASSUME NEW u \in Threads, job'[u].pc = "respond"
           PROVE  (owed[u] = Grant(job[u].token) \/ InEvidence(Grant(job[u].token)))'
      <4>1. CASE u = t
        BY <3>7, <4>1
      <4>2. CASE u # t
        <5>1. job'[u] = job[u]
          BY <3>4, <4>2
        <5> QED BY <3>8, <3>10, <4>2, <5>1 DEF InEvidence, Grant
      <4> QED BY <4>1, <4>2
    <3>11. \A h \in handed : InEvidence(Grant(h[1]))'
      BY <3>9 DEF InEvidence, Grant
    <3> QED BY <3>1, <3>10, <3>11 DEF GrantsReported
  <2> QED BY <2>1, <2>2
<1>10. ASSUME NEW t \in Threads, PublishApproval(t) PROVE GrantsReported'
  <2>1. RecordApproval(t) => [job[t] EXCEPT !.pc = "publishing"].pc = "publishing"
    <3>1. RecordApproval(t) => job[t] = [pc |-> "approved", approval |-> job[t].approval]
      BY <1>1, JobFields DEF RecordApproval
    <3> QED BY <3>1
  <2> QED BY <1>2, <1>3, <1>10, <2>1 DEF PublishApproval, RecordApproval, IndexApproval
<1>11. ASSUME NEW t \in Threads, AnswerApproval(t) PROVE GrantsReported'
  BY <1>2, <1>11 DEF AnswerApproval, ReplyApproved, Idle
<1>12. ASSUME NEW t \in Threads, AnswerAuthorization(t) PROVE GrantsReported'
  <2>1. CASE LoseResponse(t)
    BY <1>2, <2>1 DEF LoseResponse, Idle
  <2>2. CASE Deliver(t)
    <3> DEFINE n == job[t].token
    <3>1. /\ owed[t] = Nothing /\ job[t].pc = "respond" /\ Become(t, Idle)
          /\ handed' = handed \cup {<<n, job[t].call>>}
          /\ UNCHANGED <<minted, decisions, evidence, owed>>
      BY <1>12, <2>2 DEF AnswerAuthorization, Clear, Deliver, stores, Inner
    <3>2. InEvidence(Grant(n))
      <4>1. Grant(n) # Nothing
        BY EventFields DEF Grant, Nothing
      <4> QED BY <3>1, <4>1 DEF GIInv, GInv, GrantsReported
    <3>3. \A h \in handed' : InEvidence(Grant(h[1]))
      BY <3>1, <3>2 DEF GIInv, GInv, GrantsReported
    <3>4. \A u \in Threads : job'[u].pc = "respond" => job'[u] = job[u]
      BY <1>1, <3>1 DEF Become, Shape, Idle
    <3>5. \A u \in Threads : job'[u].pc = "respond" =>
            owed[u] = Grant(job'[u].token) \/ InEvidence(Grant(job'[u].token))
      BY <3>4 DEF GIInv, GInv, GrantsReported
    <3> QED BY <3>1, <3>3, <3>5 DEF GrantsReported, Grant, InEvidence
  <2> QED BY <1>12, <2>1, <2>2 DEF AnswerAuthorization
<1>13. ASSUME NEW t \in Threads, RefuseEnvelope(t) \/ AppendEvidence(t) PROVE GrantsReported'
  BY <1>3, <1>13 DEF RefuseEnvelope, AppendEvidence, vars
<1>14. ASSUME NEW s \in Sessions, Degrade(s) \/ Forget(s) PROVE GrantsReported'
  BY <1>3, <1>14 DEF Degrade, Forget
<1>15. TimePasses => GrantsReported'
  BY <1>3 DEF TimePasses
<1>16. ASSUME NEW t \in Threads, Authorize(t) PROVE GrantsReported'
  BY <1>7, <1>8, <1>9, <1>16 DEF Authorize
<1> QED
  BY <1>4, <1>5, <1>6, <1>10, <1>11, <1>12, <1>13, <1>14, <1>15, <1>16 DEF GNext

-----------------------------------------------------------------------------
(* Consumptions.                                                           *)

\* An approval that agrees goes on appearing.
LEMMA ApprovalKept ==
  ASSUME LogShape, LogStep
  PROVE  \A e : Approval(e) => Approval(e)'
<1>1. \A a : Approved(a).type # "none"
  BY EventFields DEF Approved
<1> QED BY <1>1, LogGrows DEF Approval

\* What a thread owes, and it is no consumption, or is well founded.
LEMMA ConsumptionsOwe ==
  ASSUME LogShape, LogStep, ConsumptionsFollow, NEW t \in Threads, NEW e, Owes(t, e),
         e.type = "CapabilityConsumed" =>
           Approval(e) /\ InEvidence([e EXCEPT !.type = "Authorized"])
  PROVE  ConsumptionsFollow'
<1>1. /\ owed'[t] = e /\ evidence' = evidence
      /\ \A u \in Threads : u # t => owed'[u] = owed[u]
  BY OwesEffect
<1>2. ASSUME NEW u \in Threads, NEW o, o = owed'[u], o.type = "CapabilityConsumed"
      PROVE  Approval(o)' /\ InEvidence([o EXCEPT !.type = "Authorized"])'
  <2>1. Approval(o) /\ InEvidence([o EXCEPT !.type = "Authorized"])
    BY <1>1, <1>2 DEF ConsumptionsFollow
  <2> QED BY <2>1, ApprovalKept, LogGrows
<1>3. ASSUME NEW i \in DOMAIN evidence, NEW o, o = evidence[i], o.type = "CapabilityConsumed"
      PROVE  /\ Approval(o)'
             /\ \E j \in DOMAIN evidence : j < i /\ evidence[j] = [o EXCEPT !.type = "Authorized"]
  BY <1>3, ApprovalKept DEF ConsumptionsFollow
<1> QED BY <1>1, <1>2, <1>3 DEF ConsumptionsFollow, Approval, InEvidence, Appears

\* The consumption comes into the log after the authorization that is there.
LEMMA ConsumptionsAppend ==
  ASSUME LogShape, LogStep, ConsumptionsFollow, NEW t \in Threads, AppendEvidence(t)
  PROVE  ConsumptionsFollow'
<1> DEFINE n == Len(evidence) + 1
           o == owed[t]
<1>1. /\ owed'[t] = Nothing /\ \A u \in Threads : u # t => owed'[u] = owed[u]
      /\ DOMAIN evidence' = DOMAIN evidence \cup {n} /\ evidence'[n] = o
      /\ \A i \in DOMAIN evidence : i < n /\ evidence'[i] = evidence[i]
  BY AppendEffect
<1>2. ASSUME NEW u \in Threads, NEW e, e = owed'[u], e.type = "CapabilityConsumed"
      PROVE  Approval(e)' /\ InEvidence([e EXCEPT !.type = "Authorized"])'
  <2>1. Approval(e) /\ InEvidence([e EXCEPT !.type = "Authorized"])
    BY <1>1, <1>2 DEF ConsumptionsFollow, Nothing
  <2> QED BY <2>1, ApprovalKept, LogGrows
<1>3. ASSUME NEW i \in DOMAIN evidence', NEW e, e = evidence'[i], e.type = "CapabilityConsumed"
      PROVE  /\ Approval(e)'
             /\ \E j \in DOMAIN evidence' :
                  j < i /\ evidence'[j] = [e EXCEPT !.type = "Authorized"]
  <2>1. CASE i \in DOMAIN evidence
    <3>1. /\ Approval(e)
          /\ \E j \in DOMAIN evidence : j < i /\ evidence[j] = [e EXCEPT !.type = "Authorized"]
      BY <1>1, <1>3, <2>1 DEF ConsumptionsFollow
    <3> QED BY <1>1, <3>1, ApprovalKept
  <2>2. CASE i = n
    <3>1. Approval(e) /\ InEvidence([e EXCEPT !.type = "Authorized"])
      BY <1>1, <1>3, <2>2 DEF ConsumptionsFollow
    <3>2. PICK j \in DOMAIN evidence : evidence[j] = [e EXCEPT !.type = "Authorized"]
      BY <3>1 DEF InEvidence
    <3>3. j \in DOMAIN evidence' /\ j < i /\ evidence'[j] = [e EXCEPT !.type = "Authorized"]
      BY <1>1, <2>2, <3>2
    <3> QED BY <3>1, <3>3, ApprovalKept
  <2> QED BY <1>1, <2>1, <2>2
<1> QED BY <1>2, <1>3 DEF ConsumptionsFollow, Approval, InEvidence, Appears

\* What a capability was granted for was approved, and that is reported.
LEMMA GrantApproved ==
  ASSUME GIInv, NEW c \in DOMAIN minted
  PROVE  LET r == decisions[minted[c]].request IN
         \E a \in Approvals :
           /\ a.context_hash = r.context_hash /\ a.session_id = r.session_id
           /\ a.run_id = r.run_id /\ Appears(Approved(a))
<1> DEFINE r == decisions[minted[c]].request
<1>1. minted[c] \in DOMAIN decisions
  BY StoreAssumption, StoreProofs!Elements DEF GIInv, IInv, StoreProofs!IInv
<1>2. Rests(r) /\ Known(r)
  BY <1>1 DEF GIInv, GInv, IInv, DecisionsRest, ContextsKnown
<1>3. PICK a \in Approvals : /\ <<r.context_hash, r.session_id>> = <<a.context_hash, a.session_id>>
                             /\ a.context_hash # NoContext /\ Appears(Approved(a))
  BY <1>2 DEF GIInv, GInv, ApprovalsReported, Known
<1>4. PICK q \in Calls : r = OnVerdict(q, r.basis) /\ MayAuthorize(q, r.basis)
  BY <1>2 DEF Rests
<1>5. r.context_hash = q.context_hash /\ r.run_id = q.run_id
  BY <1>4, RequestFields
<1>6. r.basis \in DOMAIN verdicts /\ verdicts[r.basis] \in Verdicts
  BY <1>2 DEF Rests, GIInv, IInv, Shape
<1>7. PICK b \in Approvals : verdicts[r.basis] = Verdict(b)
  BY <1>6 DEF Verdicts
<1>8. b.context_hash = r.context_hash /\ b.run_id = r.run_id
  BY <1>4, <1>5, <1>7 DEF MayAuthorize, Verdict
<1>9. a.run_id = r.run_id
  BY <1>3, <1>8, HashAssumption
<1> QED BY <1>3, <1>9

\* Whoever can spend a capability holds one whose authorization is in the log, and
\* presents what it was granted for.
LEMMA ConsumptionFounded ==
  ASSUME GIInv, NEW h \in handed, NEW p \in Presented,
         ConsumptionEvent(h, p).type = "CapabilityConsumed"
  PROVE  /\ Store!ConsumeOutcome(h[1], OnItsPlane(p)) = "Authorized"
         /\ Approval(ConsumptionEvent(h, p))
         /\ InEvidence([ConsumptionEvent(h, p) EXCEPT !.type = "Authorized"])
<1> DEFINE c == h[1]
           q == OnItsPlane(p)
           r == decisions[minted[c]].request
           e == Event("CapabilityConsumed", p, c)
<1>1. Store!ConsumeOutcome(c, q) = "Authorized" /\ ConsumptionEvent(h, p) = e
  BY EventFields DEF ConsumptionEvent
<1>2. c \in DOMAIN capabilities /\ Store!Covers(capabilities[c].grant, q)
  BY <1>1 DEF Store!ConsumeOutcome
<1>3. capabilities[c].grant = r /\ c \in DOMAIN minted
  BY <1>2, StoreAssumption, StoreProofs!Elements
     DEF GIInv, IInv, StoreProofs!IInv, StoreProofs!TokensFaithful
<1>4. \A f \in Store!ProviderFields : r[f] = q[f]
  BY <1>2, <1>3 DEF Store!Covers
<1>5. \A f \in Store!ProviderFields : q[f] = p[f]
  BY PresentedAssumption DEF OnItsPlane, Store!CheckedFields, Store!ProviderFields
<1>6. /\ r.gov_tx_id = p.gov_tx_id /\ r.session_id = p.session_id
      /\ r.run_id = p.run_id /\ r.context_hash = p.context_hash
  BY <1>4, <1>5 DEF Store!ProviderFields
<1>7. InEvidence(Event("Authorized", r, c))
  BY DEF GIInv, GInv, GrantsReported, Grant
<1>8. Event("Authorized", r, c) = [e EXCEPT !.type = "Authorized"]
  BY <1>6 DEF Event
<1>9. Approval(e)
  <2>1. IsEvent(e)
    BY DEF IsEvent, Event
  <2>2. e.context_hash = r.context_hash /\ e.session_id = r.session_id /\ e.run_id = r.run_id
    BY <1>6, EventFields
  <2> HIDE DEF e
  <2> QED BY <1>3, <2>1, <2>2, GrantApproved DEF Approval
<1> QED BY <1>1, <1>7, <1>8, <1>9

\* A consumption that comes is well founded; every other event leaves them alone.
LEMMA ConsumptionsStep ==
  ASSUME GIInv, GNext
  PROVE  ConsumptionsFollow'
<1>1. LogShape /\ LogStep /\ ConsumptionsFollow
  BY StepOfLog DEF GIInv, GInv
<1>2. ASSUME NEW t \in Threads, NEW e, Owes(t, e), e.type # "CapabilityConsumed"
      PROVE  ConsumptionsFollow'
  BY <1>1, <1>2, ConsumptionsOwe
<1>3. CASE Inner
  <2>1. ASSUME NEW t \in Threads, NEW o, o = owed[t], o.type = "CapabilityConsumed"
        PROVE  Approval(o)' /\ InEvidence([o EXCEPT !.type = "Authorized"])'
    BY <1>1, <2>1, ApprovalKept, LogGrows DEF ConsumptionsFollow
  <2>2. ASSUME NEW i \in DOMAIN evidence, NEW o, o = evidence[i], o.type = "CapabilityConsumed"
        PROVE  /\ Approval(o)'
               /\ \E j \in DOMAIN evidence : j < i /\ evidence[j] = [o EXCEPT !.type = "Authorized"]
    BY <1>1, <2>2, ApprovalKept DEF ConsumptionsFollow
  <2> QED BY <1>3, <2>1, <2>2 DEF Inner, ConsumptionsFollow, Approval, InEvidence, Appears
<1>4. ASSUME NEW t \in Threads, NEW h \in handed, NEW p \in Presented, Executes(t, h, p)
      PROVE  ConsumptionsFollow'
  <2> DEFINE e == ConsumptionEvent(h, p)
  <2>1. Owes(t, e) /\ Approval(e) /\ InEvidence([e EXCEPT !.type = "Authorized"])
    BY <1>4, ConsumptionFounded DEF Executes
  <2> HIDE DEF e
  <2> QED BY <1>1, <2>1, ConsumptionsOwe
<1>5. ASSUME NEW t \in Threads, NEW e, Mints(t, e) PROVE ConsumptionsFollow'
  BY <1>2, <1>5 DEF Mints
<1>6. CASE Plain
  BY <1>1, <1>2, <1>3, <1>6, ConsumptionsAppend DEF Plain
<1> QED BY <1>4, <1>5, <1>6, LogEffect

-----------------------------------------------------------------------------
(* Answers.                                                                *)

\* A verdict stays what it is, so what names it goes on doing so.
LEMMA NamedKept ==
  ASSUME Kept
  PROVE  \A e : Named(e) => Named(e)'
  BY DEF Kept, Named, Event

LEMMA AnswersStep ==
  ASSUME GIInv, GNext
  PROVE  AnswersNamed'
<1>1. LogShape /\ AnswersNamed /\ Kept
  BY PipelineStep, StepKept DEF GIInv, GInv
<1>2. CASE Inner
  <2>1. \A t \in Threads : Named(owed[t])'
    BY <1>1, <1>2, NamedKept DEF AnswersNamed, Inner, Named
  <2>2. \A i \in DOMAIN evidence : Named(evidence[i])'
    BY <1>1, <1>2, NamedKept DEF AnswersNamed, Inner, Named
  <2> QED BY <1>2, <2>1, <2>2 DEF AnswersNamed, Inner
<1>3. ASSUME NEW t \in Threads, NEW e, Owes(t, e), Named(e) PROVE AnswersNamed'
  <2>1. /\ owed'[t] = e /\ evidence' = evidence
        /\ \A u \in Threads : u # t => owed'[u] = owed[u]
    BY <1>1, <1>3, OwesEffect
  <2>2. ASSUME NEW u \in Threads, NEW o, o = owed'[u] PROVE Named(o)'
    BY <1>1, <1>3, <2>1, <2>2, NamedKept DEF AnswersNamed
  <2>3. ASSUME NEW i \in DOMAIN evidence, NEW o, o = evidence[i] PROVE Named(o)'
    BY <1>1, <2>3, NamedKept DEF AnswersNamed
  <2> QED BY <2>1, <2>2, <2>3 DEF AnswersNamed, Named
<1>4. ASSUME NEW t \in Threads, AppendEvidence(t) PROVE AnswersNamed'
  <2> DEFINE n == Len(evidence) + 1
  <2>1. /\ owed'[t] = Nothing /\ \A u \in Threads : u # t => owed'[u] = owed[u]
        /\ DOMAIN evidence' = DOMAIN evidence \cup {n} /\ evidence'[n] = owed[t]
        /\ \A i \in DOMAIN evidence : evidence'[i] = evidence[i]
    BY <1>1, <1>4, AppendEffect
  <2>2. Named(Nothing)
    BY DEF Named, Nothing
  <2>3. ASSUME NEW u \in Threads, NEW o, o = owed'[u] PROVE Named(o)'
    BY <1>1, <2>1, <2>2, <2>3, NamedKept DEF AnswersNamed
  <2>4. ASSUME NEW i \in DOMAIN evidence', NEW o, o = evidence'[i] PROVE Named(o)'
    BY <1>1, <2>1, <2>4, NamedKept DEF AnswersNamed
  <2> QED BY <2>3, <2>4 DEF AnswersNamed, Named
<1>5. \A t, e : Mints(t, e) => Owes(t, e) /\ Named(e)
  BY DEF Mints, Named
<1>6. \A t, h, p : Executes(t, h, p) =>
        Owes(t, ConsumptionEvent(h, p)) /\ Named(ConsumptionEvent(h, p))
  BY DEF Executes, Named
<1> QED BY <1>2, <1>3, <1>4, <1>5, <1>6, LogEffect DEF Plain

-----------------------------------------------------------------------------
(* The count of reports.                                                   *)

LEMMA Positions ==
  ASSUME NEW n \in Nat, NEW S, S \subseteq 1..n
  PROVE  IsFiniteSet(S) /\ Cardinality(S) \in Nat
<1>1. IsFiniteSet(1..n)
  BY FS_Interval
<1>2. IsFiniteSet(S)
  BY <1>1, FS_Subset
<1> QED BY <1>2, FS_CardinalityType

LEMMA ReportsFinite ==
  ASSUME LogShape, NEW type, type # "none", NEW c
  PROVE  /\ IsFiniteSet(InLog(type, c)) /\ IsFiniteSet(Owing(type, c))
         /\ Cardinality(InLog(type, c)) \in Nat /\ Cardinality(Owing(type, c)) \in Nat
<1>1. IsFiniteSet(InLog(type, c))
  <2>1. Len(evidence) \in Nat /\ InLog(type, c) \subseteq 1..Len(evidence)
    BY DEF LogShape, InLog
  <2> QED BY <2>1, Positions
<1>2. IsFiniteSet(Owing(type, c))
  <2>1. Owing(type, c) \subseteq Busy
    BY DEF Owing, Busy, Clear, Nothing
  <2> QED BY <2>1, FS_Subset DEF LogShape
<1> QED BY <1>1, <1>2, FS_CardinalityType

\* An event that comes is counted from then on, and no other is.
LEMMA ReportedOwes ==
  ASSUME LogShape, NEW t \in Threads, NEW e, Owes(t, e), NEW type, type # "none", NEW c
  PROVE  /\ Reported(type, c) \in Nat
         /\ Reported(type, c)' =
              IF e.type = type /\ e.capability = c THEN Reported(type, c) + 1 ELSE Reported(type, c)
<1> DEFINE O == Owing(type, c)
           P == Owing(type, c)'
<1>1. /\ owed[t].type = "none" /\ owed'[t] = e /\ evidence' = evidence
      /\ \A u \in Threads : u # t => owed'[u] = owed[u]
  BY OwesEffect DEF Nothing
<1>2. InLog(type, c)' = InLog(type, c)
  BY <1>1 DEF InLog
<1>3. t \notin O
  BY <1>1 DEF Owing
<1>4. CASE e.type = type /\ e.capability = c
  <2>1. P = O \cup {t}
    BY <1>1, <1>4 DEF Owing
  <2>2. Cardinality(P) = Cardinality(O) + 1
    BY <1>3, <2>1, ReportsFinite, FS_AddElement
  <2> QED BY <1>2, <1>4, <2>2, ReportsFinite DEF Reported
<1>5. CASE ~(e.type = type /\ e.capability = c)
  <2>1. P = O
    BY <1>1, <1>3, <1>5 DEF Owing
  <2> QED BY <1>2, <1>5, <2>1, ReportsFinite DEF Reported
<1> QED BY <1>4, <1>5

\* Appending moves an event from what is owed to what is in the log.
LEMMA ReportedAppend ==
  ASSUME LogShape, NEW t \in Threads, AppendEvidence(t), NEW type, type # "none", NEW c
  PROVE  Reported(type, c)' = Reported(type, c)
<1> DEFINE n == Len(evidence) + 1
           I == InLog(type, c)
           J == InLog(type, c)'
           O == Owing(type, c)
           P == Owing(type, c)'
<1>1. /\ owed'[t].type = "none" /\ \A u \in Threads : u # t => owed'[u] = owed[u]
      /\ DOMAIN evidence' = DOMAIN evidence \cup {n} /\ evidence'[n] = owed[t]
      /\ \A i \in DOMAIN evidence : evidence'[i] = evidence[i]
      /\ n \notin DOMAIN evidence
  <2>1. Nothing.type = "none"
    BY DEF Nothing
  <2>2. owed'[t] = Nothing
    BY AppendEffect
  <2>3. owed'[t].type = "none"
    BY <2>1, <2>2
  <2> QED BY <2>3, AppendEffect
<1>2. n \notin I
  BY <1>1 DEF InLog
<1>3. CASE owed[t].type = type /\ owed[t].capability = c
  <2>1. J = I \cup {n}
    BY <1>1, <1>3 DEF InLog
  <2>2. P = O \ {t} /\ t \in O
    BY <1>1, <1>3 DEF Owing
  <2>3. Cardinality(J) = Cardinality(I) + 1
    BY <1>2, <2>1, ReportsFinite, FS_AddElement
  <2>4. Cardinality(P) = Cardinality(O) - 1
    BY <2>2, ReportsFinite, FS_RemoveElement
  <2> QED BY <2>3, <2>4, ReportsFinite DEF Reported
<1>4. CASE ~(owed[t].type = type /\ owed[t].capability = c)
  <2>1. J = I
    BY <1>1, <1>2, <1>4 DEF InLog
  <2>2. P = O
    BY <1>1, <1>4 DEF Owing
  <2> QED BY <2>1, <2>2 DEF Reported
<1> QED BY <1>3, <1>4

\* An execution is one more that spends its capability.
LEMMA SpentStep ==
  ASSUME GIInv, NEW h \in handed, NEW p \in Presented, NEW t \in Threads, Executes(t, h, p),
         NEW c
  PROVE  /\ Cardinality(Spent(c)) \in Nat
         /\ Cardinality(Spent(c)') =
              IF c = h[1] THEN Cardinality(Spent(c)) + 1 ELSE Cardinality(Spent(c))
<1> DEFINE x == [token |-> h[1], binding |-> OnItsPlane(p), at |-> now]
           n == Len(executions) + 1
           S == Spent(c)
           T == Spent(c)'
<1>1. executions' = Append(executions, x)
  BY ConsumptionFounded DEF Executes, Store!Consume
<1>2. \E E : executions \in Seq(E)
  BY DEF GIInv, IInv, StoreProofs!IInv, StoreProofs!TypeOK
<1>3. x.token = h[1]
  OBVIOUS
<1> HIDE DEF x
<1>4. PICK E : executions \in Seq(E)
  BY <1>2
<1> DEFINE F == E \cup {x}
<1>5. executions \in Seq(F) /\ x \in F
  <2>1. executions \in [1..Len(executions) -> F] /\ Len(executions) \in Nat
    BY <1>4
  <2> QED BY <2>1
<1> HIDE DEF F
<1>6. /\ DOMAIN executions' = DOMAIN executions \cup {n} /\ executions'[n] = x
      /\ n \notin DOMAIN executions /\ \A i \in DOMAIN executions : executions'[i] = executions[i]
  BY <1>1, <1>5
<1>7. IsFiniteSet(S) /\ Cardinality(S) \in Nat
  <2>1. Len(executions) \in Nat /\ S \subseteq 1..Len(executions)
    BY <1>4 DEF Spent
  <2> HIDE DEF S
  <2> QED BY <2>1, Positions
<1>8. n \notin S
  BY <1>6 DEF Spent
<1>9. CASE c = h[1]
  <2>1. T = S \cup {n}
    BY <1>3, <1>6, <1>9 DEF Spent
  <2> QED BY <1>7, <1>8, <1>9, <2>1, FS_AddElement
<1>10. CASE c # h[1]
  <2>1. T = S
    BY <1>3, <1>6, <1>8, <1>10 DEF Spent
  <2> QED BY <1>7, <1>10, <2>1
<1> QED BY <1>9, <1>10

LEMMA CountedStep ==
  ASSUME GIInv, GNext
  PROVE  Counted'
<1>1. LogShape /\ Counted
  BY DEF GIInv, GInv
<1> SUFFICES ASSUME NEW c \in Nat
             PROVE  /\ Reported("Authorized", c)' = IF c \in DOMAIN minted' THEN 1 ELSE 0
                    /\ Reported("CapabilityConsumed", c)' = Cardinality(Spent(c)')
  BY DEF Counted
<1>2. /\ Reported("Authorized", c) = IF c \in DOMAIN minted THEN 1 ELSE 0
      /\ Reported("CapabilityConsumed", c) = Cardinality(Spent(c))
  BY <1>1 DEF Counted
<1>3. CASE Plain
  <2>1. UNCHANGED minted /\ Spent(c)' = Spent(c)
    BY <1>3 DEF Plain, Spent
  <2>2. CASE Inner
    <3>1. \A type : Reported(type, c)' = Reported(type, c)
      BY <2>2 DEF Inner, Reported, InLog, Owing
    <3> QED BY <1>2, <2>1, <3>1
  <2>3. ASSUME NEW t \in Threads, AppendEvidence(t)
        PROVE  /\ Reported("Authorized", c)' = Reported("Authorized", c)
               /\ Reported("CapabilityConsumed", c)' = Reported("CapabilityConsumed", c)
    BY <1>1, <2>3, ReportedAppend
  <2>4. ASSUME NEW t \in Threads, NEW e, Owes(t, e),
               e.type \notin {"Authorized", "CapabilityConsumed"}
        PROVE  /\ Reported("Authorized", c)' = Reported("Authorized", c)
               /\ Reported("CapabilityConsumed", c)' = Reported("CapabilityConsumed", c)
    BY <1>1, <2>4, ReportedOwes
  <2> QED BY <1>2, <1>3, <2>1, <2>2, <2>3, <2>4 DEF Plain
<1>4. ASSUME NEW t \in Threads, NEW h \in handed, NEW p \in Presented, Executes(t, h, p)
      PROVE  /\ Reported("Authorized", c)' = IF c \in DOMAIN minted' THEN 1 ELSE 0
             /\ Reported("CapabilityConsumed", c)' = Cardinality(Spent(c)')
  <2> DEFINE e == ConsumptionEvent(h, p)
  <2>1. Owes(t, e) /\ e.type = "CapabilityConsumed" /\ UNCHANGED minted
    BY <1>4 DEF Executes
  <2>2. e.capability = h[1]
    BY EventFields DEF ConsumptionEvent
  <2> HIDE DEF e
  <2>3. Reported("Authorized", c)' = Reported("Authorized", c)
    BY <1>1, <2>1, ReportedOwes
  <2>4. Reported("CapabilityConsumed", c)' =
          IF c = h[1] THEN Cardinality(Spent(c)) + 1 ELSE Cardinality(Spent(c))
    BY <1>1, <1>2, <2>1, <2>2, ReportedOwes
  <2> QED BY <1>2, <1>4, <2>1, <2>3, <2>4, SpentStep
<1>5. ASSUME NEW t \in Threads, NEW e, Mints(t, e)
      PROVE  /\ Reported("Authorized", c)' = IF c \in DOMAIN minted' THEN 1 ELSE 0
             /\ Reported("CapabilityConsumed", c)' = Cardinality(Spent(c)')
  <2> DEFINE n == Len(minted) + 1
  <2>1. /\ Owes(t, e) /\ e.type = "Authorized" /\ e.capability = n
        /\ Spent(c)' = Spent(c)
    BY <1>5 DEF Mints, Spent
  <2>2. DOMAIN minted' = DOMAIN minted \cup {n} /\ n \notin DOMAIN minted
    <3>1. minted \in Seq(DOMAIN decisions)
      BY DEF GIInv, IInv, StoreProofs!IInv, StoreProofs!TypeOK
    <3>2. PICK d : minted' = Append(minted, d)
      BY <1>5 DEF Mints
    <3> DEFINE R == DOMAIN decisions \cup {d}
    <3>3. minted \in [1..Len(minted) -> R] /\ Len(minted) \in Nat /\ d \in R
      BY <3>1
    <3>4. minted \in Seq(R)
      BY <3>3
    <3> HIDE DEF R
    <3> QED BY <3>2, <3>3, <3>4
  <2>3. Reported("CapabilityConsumed", c)' = Reported("CapabilityConsumed", c)
    BY <1>1, <2>1, ReportedOwes
  <2>4. Reported("Authorized", c)' =
          IF c = n THEN Reported("Authorized", c) + 1 ELSE Reported("Authorized", c)
    BY <1>1, <2>1, ReportedOwes
  <2>5. CASE c = n
    BY <1>2, <2>1, <2>2, <2>3, <2>4, <2>5
  <2>6. CASE c # n
    BY <1>2, <2>1, <2>2, <2>3, <2>4, <2>6
  <2> QED BY <2>5, <2>6
<1> QED BY <1>3, <1>4, <1>5, LogEffect

-----------------------------------------------------------------------------
(* The invariant.                                                          *)

LEMMA InitGInv == GInit => GIInv
<1> SUFFICES ASSUME GInit PROVE GIInv
  OBVIOUS
<1>1. /\ IInv /\ evidence = <<>> /\ owed = [t \in Threads |-> Nothing]
      /\ job = [t \in Threads |-> Idle] /\ told = {} /\ handed = {}
      /\ DOMAIN approved_by_context = {} /\ minted = <<>> /\ executions = <<>>
      /\ decisions = <<>>
  BY InitIInv DEF GInit, Init, LedgerInit, Store!Init
<1>2. \A t \in Threads : owed[t].type = "none" /\ owed[t] = Nothing /\ job[t].pc = "idle"
  BY <1>1 DEF Nothing, Idle
<1>3. LogShape
  <2>1. Busy = {}
    BY <1>1 DEF Busy, Clear
  <2>2. evidence \in Seq({})
    BY <1>1
  <2> QED BY <1>1, <2>1, <2>2, FS_EmptySet DEF LogShape
<1>4. ApprovalsReported /\ ContextsKnown /\ GrantsReported
  BY <1>1, <1>2 DEF ApprovalsReported, ContextsKnown, GrantsReported
<1>5. ConsumptionsFollow /\ AnswersNamed
  BY <1>1, <1>2 DEF ConsumptionsFollow, AnswersNamed, Named
<1>6. Counted
  <2>1. \A c \in Nat : InLog("Authorized", c) = {} /\ InLog("CapabilityConsumed", c) = {}
    BY <1>1 DEF InLog
  <2>2. \A c \in Nat : Owing("Authorized", c) = {} /\ Owing("CapabilityConsumed", c) = {}
    BY <1>2 DEF Owing
  <2>3. \A c \in Nat : Spent(c) = {} /\ c \notin DOMAIN minted
    BY <1>1 DEF Spent
  <2> QED BY <2>1, <2>2, <2>3, FS_EmptySet DEF Counted, Reported
<1> QED BY <1>1, <1>3, <1>4, <1>5, <1>6 DEF GIInv, GInv

LEMMA StepGInv == GIInv /\ [GNext]_gvars => GIInv'
<1>1. ASSUME GIInv, GNext PROVE GIInv'
  <2>1. IInv'
    BY <1>1, PipelineStep, StepIInv DEF GIInv
  <2>2. ContextsKnown'
    BY <1>1, PipelineStep, ContextsStep DEF GIInv, GInv
  <2> QED
    BY <1>1, <2>1, <2>2, ShapeStep, ApprovalsStep, GrantsStep, ConsumptionsStep, AnswersStep,
       CountedStep DEF GIInv, GInv
<1>2. ASSUME GIInv, UNCHANGED gvars PROVE GIInv'
  <2>1. IInv'
    BY <1>2, StepIInv DEF GIInv, gvars
  <2>2. LogShape' /\ AnswersNamed' /\ Counted'
    BY <1>2
       DEF GIInv, GInv, gvars, vars, stores, ledger, LogShape, Busy, Clear, AnswersNamed, Named,
           Counted, Reported, InLog, Owing, Spent
  <2>3. ApprovalsReported' /\ ContextsKnown'
    BY <1>2
       DEF GIInv, GInv, gvars, vars, stores, ledger, ApprovalsReported, InEvidence, Appears,
           ContextsKnown, Known
  <2>4. GrantsReported' /\ ConsumptionsFollow'
    BY <1>2
       DEF GIInv, GInv, gvars, vars, stores, ledger, GrantsReported, Grant, InEvidence, Appears,
           ConsumptionsFollow, Approval
  <2> QED BY <2>1, <2>2, <2>3, <2>4 DEF GIInv, GInv
<1> QED BY <1>1, <1>2

\* What the log says is so of every state of the governed pipeline.
THEOREM GInvariance == GSpec => []GIInv
  BY InitGInv, StepGInv, PTL DEF GSpec

-----------------------------------------------------------------------------
(* The theorems.                                                           *)

\* The wrappers of the evidence take no step of the pipeline that it could not take
\* alone, so what is proved of ExecutionAuthority holds here.
THEOREM GovernsThePipeline == GSpec => Spec
<1>1. GInit => Init
  BY DEF GInit
<1>2. [GNext]_gvars => [Next]_vars
  BY PipelineStep DEF gvars
<1> QED BY <1>1, <1>2, PTL DEF GSpec, Spec

\* A consumption is in the log after the authorization of what it spends, in the
\* same words, and the approval of its context is there or about to be.
THEOREM EvidenceFollowsCauseCorrect == GSpec => []EvidenceFollowsCause
<1>1. GIInv => EvidenceFollowsCause
  <2> SUFFICES ASSUME GIInv,
                      NEW i \in DOMAIN evidence, evidence[i].type = "CapabilityConsumed",
                      NEW e, e = evidence[i]
               PROVE  /\ \E j \in InLog("Authorized", e.capability) :
                           j < i /\ evidence[j] = [e EXCEPT !.type = "Authorized"]
                      /\ \/ \E k \in DOMAIN evidence :
                              [evidence[k] EXCEPT !.gov_tx_id = e.gov_tx_id]
                                = [e EXCEPT !.type = "ContextApproved",
                                            !.capability = NoCapability]
                         \/ \E t \in Threads :
                              /\ owed[t].type = "ContextApproved"
                              /\ owed[t].context_hash = e.context_hash
    BY DEF EvidenceFollowsCause
  <2>1. /\ Approval(e)
        /\ \E j \in DOMAIN evidence : j < i /\ evidence[j] = [e EXCEPT !.type = "Authorized"]
    BY DEF GIInv, GInv, ConsumptionsFollow
  <2>2. e = [type |-> e.type, capability |-> e.capability, gov_tx_id |-> e.gov_tx_id,
             session_id |-> e.session_id, run_id |-> e.run_id, context_hash |-> e.context_hash]
    BY <2>1 DEF Approval, IsEvent
  <2>3. /\ [e EXCEPT !.type = "Authorized"].type = "Authorized"
        /\ [e EXCEPT !.type = "Authorized"].capability = e.capability
    BY <2>2
  <2>4. \E j \in InLog("Authorized", e.capability) :
          j < i /\ evidence[j] = [e EXCEPT !.type = "Authorized"]
    BY <2>1, <2>3 DEF InLog
  <2>5. PICK a \in Approvals : /\ a.context_hash = e.context_hash /\ a.session_id = e.session_id
                               /\ a.run_id = e.run_id /\ Appears(Approved(a))
    BY <2>1 DEF Approval
  <2>6. CASE InEvidence(Approved(a))
    <3>1. PICK k \in DOMAIN evidence : evidence[k] = Approved(a)
      BY <2>6 DEF InEvidence
    <3>2. [Approved(a) EXCEPT !.gov_tx_id = e.gov_tx_id]
            = [e EXCEPT !.type = "ContextApproved", !.capability = NoCapability]
      <4> DEFINE f == Approved(a)
      <4>1. f = [type |-> "ContextApproved", capability |-> NoCapability,
                 gov_tx_id |-> a.gov_tx_id, session_id |-> e.session_id, run_id |-> e.run_id,
                 context_hash |-> e.context_hash]
        BY <2>5 DEF Approved, Event
      <4>2. [f EXCEPT !.gov_tx_id = e.gov_tx_id]
              = [type |-> "ContextApproved", capability |-> NoCapability,
                 gov_tx_id |-> e.gov_tx_id, session_id |-> e.session_id, run_id |-> e.run_id,
                 context_hash |-> e.context_hash]
        BY <4>1
      <4>3. [e EXCEPT !.type = "ContextApproved", !.capability = NoCapability]
              = [type |-> "ContextApproved", capability |-> NoCapability,
                 gov_tx_id |-> e.gov_tx_id, session_id |-> e.session_id, run_id |-> e.run_id,
                 context_hash |-> e.context_hash]
        <5> DEFINE type == e.type
                   c == e.capability
                   x == e.gov_tx_id
                   y == e.session_id
                   z == e.run_id
                   w == e.context_hash
        <5>1. e = [type |-> type, capability |-> c, gov_tx_id |-> x, session_id |-> y,
                   run_id |-> z, context_hash |-> w]
          BY <2>2
        <5> HIDE DEF type, c, x, y, z, w
        <5>2. [e EXCEPT !.type = "ContextApproved", !.capability = NoCapability]
                = [type |-> "ContextApproved", capability |-> NoCapability, gov_tx_id |-> x,
                   session_id |-> y, run_id |-> z, context_hash |-> w]
          <6> DEFINE d == [e EXCEPT !.type = "ContextApproved"]
          <6>1. d = [type |-> "ContextApproved", capability |-> c, gov_tx_id |-> x,
                     session_id |-> y, run_id |-> z, context_hash |-> w]
            BY <5>1
          <6>2. [e EXCEPT !.type = "ContextApproved", !.capability = NoCapability]
                  = [d EXCEPT !.capability = NoCapability]
            OBVIOUS
          <6> HIDE DEF d
          <6>3. [d EXCEPT !.capability = NoCapability]
                  = [type |-> "ContextApproved", capability |-> NoCapability, gov_tx_id |-> x,
                     session_id |-> y, run_id |-> z, context_hash |-> w]
            BY <6>1
          <6> QED BY <6>2, <6>3
        <5> QED BY <5>2 DEF x, y, z, w
      <4> QED BY <4>2, <4>3
    <3> QED BY <2>4, <3>1, <3>2
  <2>7. CASE \E t \in Threads : owed[t] = Approved(a)
    <3>1. Approved(a).type = "ContextApproved" /\ Approved(a).context_hash = e.context_hash
      BY <2>5, EventFields DEF Approved
    <3> QED BY <2>4, <2>7, <3>1
  <2> QED BY <2>5, <2>6, <2>7 DEF Appears
<1> QED BY <1>1, GInvariance, PTL

\* Every capability minted and every execution is reported once, and an approval
\* before the caller knows of it.
THEOREM EvidenceIsCompleteCorrect == GSpec => []EvidenceIsComplete
<1>1. GIInv => EvidenceIsComplete
  <2> SUFFICES ASSUME GIInv PROVE EvidenceIsComplete
    OBVIOUS
  <2>1. DOMAIN minted \subseteq Nat
    <3>1. minted \in Seq(DOMAIN decisions)
      BY DEF GIInv, IInv, StoreProofs!IInv, StoreProofs!TypeOK
    <3> QED BY <3>1
  <2>2. \A a \in told : a.context_hash # NoContext =>
          \E i \in DOMAIN evidence : evidence[i] = Event("ContextApproved", a, NoCapability)
    BY DEF GIInv, GInv, ApprovalsReported, InEvidence, Approved
  <2> QED BY <2>1, <2>2 DEF GIInv, GInv, Counted, Spent, EvidenceIsComplete
<1> QED BY <1>1, GInvariance, PTL

\* An answer that was reviewed is reported in the name of a verdict that is held.
THEOREM OutboundNamesCorrect == GSpec => []OutboundNamesItsApproval
<1>1. GIInv => OutboundNamesItsApproval
  BY DEF GIInv, GInv, AnswersNamed, Named, OutboundNamesItsApproval
<1> QED BY <1>1, GInvariance, PTL

=============================================================================
