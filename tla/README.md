# A TLA+ model of GovSec's governance spine

GovSec (`src/governance-spine/`, Rust) is a policy decision point in front of a
language model: it inspects what goes in and out, keeps a security state per
session, turns approvals into single-use capabilities to call a provider or a
tool, and records what it did in a signed evidence chain. This directory holds
TLA+ modules of its stateful parts, the TLC configurations that check them, and
proofs checked by TLAPS. Paths below are relative to `src/governance-spine/`.

## 1. Inventory

The server (`src/server.rs`) runs one thread per connection over a pipeline that
all threads share. There is no transaction across components: each component
guards its own maps with its own `RwLock` or `Mutex`, and most methods take a
lock several times. Those acquisitions, and their interleaving, are the
concurrency of the system.

| Component | State | Operations | What makes it correct | Modelled |
|---|---|---|---|---|
| Capability store (`capability.rs`) | decisions, capabilities, index by transaction and authority, one lock | `record_decision`, `issue_after_authorization`, `consume`, `prune_expired` | one capability per transaction and authority, spent at most once, on what was decided | yes, proved |
| Sentinel verdict ledger (`verdict_ledger.rs`) | verdicts, index by transaction, index by context, a lock each | record a final approval, look up, resolve | a found verdict resolves, in its session, with its context | the final approvals |
| Execution authorization (`pipeline.rs`, `server.rs`) | none of its own: ledger and store | `authorize_provider_execution`, `authorize_action_execution`, consume | a capability rests on an approval; a caller gets what it asked for | yes, one context-bound path for both, proved |
| Arbiter (`arbiter.rs`) | state and lockdown timer per session, audit log | `process`, `process_with_modifier`, `operator_reset_session`, `forget_session` | only escalates, is reset by an operator only, and the log shows it | yes, proved |
| Hash chain (`crypto.rs`) | latest hash | `get_latest_hash`, `extend_chain`, sign | each entry extends its predecessor | as used by the Arbiter |
| Evidence plane (`evidence.rs`) | epoch, head, events, deferred queue | `append`, `flush_pending`, `checkpoint`, `from_checkpoint`, verifiers | tampering is detected, the sink sees the order, nothing is lost while running | yes, proved |
| Evidence-governed pipeline (`evidence.rs`) | none | a pipeline call, then an append | no effect without its event, evidence of an effect after evidence of its cause | yes, but the uncorrelated `outbound`; proved |
| Inspection pipeline (`pipeline.rs`) | session memories, OverWatch | `inbound*`, `outbound`, `end_session`, `operator_reset` | the decision accounts for every layer; an end clears the maps it is there to clear | yes, lock by lock, proved; what a layer reports is a choice |
| Session memory (`session_memory.rs`) | accumulator, counters and a window of turns per session | `ingest_signal` | threat is not forgotten at once, the window loses nothing that counts | yes, proved |
| Strategic memory (`session_memory.rs`) | actor profiles, snapshot file | `ingest_session`, `persist`, `with_path`, `advise_session_start` | what was answered as persisted is, through failures and restarts | yes, proved |
| HAAP gate (`haap.rs`) | intent tokens, pre-authorizations, a lock each | `evaluate`, `verify_token`, `register_token`, `preauthorize`, `revoke_session` | no gated action without a grant that stands | yes, proved |
| Govmem (`govmem.rs`) | records per session, in mode v2 only | `should_block`, records of turns and signals | the block agrees with the memory | `should_block` |
| OverWatch (`overwatch.rs`) | drift, counters and a window of tools per session | `evaluate`, `reset_session` | an evaluation keeps its session's entry and misses no campaign | yes, proved |
| OIM (`oim.rs`) | windows of outputs | `observe` | bounded | no: statistics, and no decision reads them lock by lock |
| Sentinel, Corridor (`sentinel.rs`, `corridor.rs`) | none | pattern matching on text | - | no: pure functions of text |
| Constitution, operator authority (`constitution.rs`, `operator_reset.rs`) | loaded once | `load_verified`, `verify` | fail closed at startup | no: one sequential step before serving |
| Envelopes, action semantics (`envelope.rs`, `action_semantics.rs`) | none | seal, validate, `evaluate_strict`, a table | one hash per action; a denied call gets no capability | the policy and the table |
| Accept loop (`server.rs`) | connection counter | accept, refuse, serve | never above the limit; a slot comes back, unless its client sends idle header lines for ever | yes, limit proved |
| `main.rs`, `lib.rs`, `examples/` | none | demonstration and tools | - | no |

**How they interact.** `/inspect` and `/context/inspect` run the layers, feed
their signals to the Arbiter and, if the state is S1 at the end, publish a
verdict in the ledger. `/provider/authorize` and `/action/authorize` look the
verdict up by context hash and session, check it, record a decision in the
capability store and issue the capability, in separate acquisitions.
`/provider/consume` and `/action/consume` burn it. `/session/end` and
`/session/reset` clear the Arbiter, OverWatch and the session memory, and touch
neither ledger nor store. Every layer extends the same hash chain. The
evidence-governed pipeline wraps each call and appends evidence after it.

**What is hard.** Interleaving of lock acquisitions (Arbiter, ledger,
authorization, the inspection of two turns of a session, the end of a session
during a turn, revocation during an evaluation); retries and conflicting requests for one transaction; a response
lost after the capability was issued; expiry and pruning at the same instant; a
sink that fails, or stores and reports failure; restarts from a checkpoint that is
older than the last event; a crash or a failed write while the profiles are
saved; evidence appended after the fact, by another lock; an entry taken for granted
while its session is ended; clients that say nothing or
never come to an end; long sequences of turns that move the accumulator. `PROJECT.json` lists each at its line, with the
properties that cover it or the reason why none does yet.

## 2. Modules

| Module | Models | Extends or uses |
|---|---|---|
| `CapabilityStore` | the store, one action per operation | `SingleUseAuthority` by refinement |
| `SingleUseAuthority` | what the store promises: per transaction and authority unclaimed, bound, granted, then spent or lapsed | |
| `VerdictLedger` | the ledger, three steps per recording | |
| `ActionPolicy` | `evaluate_strict` and the plane of a tool | |
| `ExecutionAuthority` | server threads over ledger and store | extends `VerdictLedger` and `ActionPolicy`, instantiates `CapabilityStore` |
| `GovernedPipeline` | the calls of `ExecutionAuthority`, the review of answers, and the evidence of each | extends `ExecutionAuthority` |
| `DecisionTable` | the table from signals to security states | |
| `Arbiter` | sessions, audit log and hash chain, one step per lock acquisition | extends `DecisionTable` |
| `InspectionPipeline` | turns through the layers, the gate and the memory floor; end and reset of a session | extends `DecisionTable` |
| `SessionMemory` | the accumulator of one session | |
| `StrategicMemory` | actor profiles, snapshot, restarts, driven by `end_session` | |
| `HaapGate` | tokens, pre-authorizations, revocation, expiry | |
| `EvidencePlane` | evidence chain, sink, checkpoints, restarts | |
| `OverWatch` | evaluations and resets, one step per lock acquisition | |
| `Server` | the accept loop and the life of a handler, with its work on OverWatch | extends `OverWatch` |
| `CapabilityStoreProofs`, `EvidencePlaneProofs`, `ArbiterProofs`, `InspectionPipelineProofs`, `HaapGateProofs`, `ServerProofs` | theorems about the module of that name | each extends its module |
| `GovernedPipelineProofs` | theorems about the pipeline over ledger and store, and about the log of evidence | extends `GovernedPipeline`, instantiates `CapabilityStoreProofs` |
| `MemoryProofs` | theorems about the memory of a session and the profiles of actors | extends `SessionMemory` and `StrategicMemory` |
| `MCCapabilityStore`, `MCGovernedPipeline`, `MCArbiter`, `MCInspectionPipeline`, `MCSessionMemory`, `MCStrategicMemory`, `MCHaapGate`, `MCEvidencePlane`, `MCServer` | the instances TLC checks | each extends its module |

An operator called `X_Something` under the comment "Variant with a fault" is not part
of a specification: it is `X` with one plausible mistake in it, and with it in
the place of `X` the property it was written for is violated. That is how we know
that a property notices such a mistake.

### CapabilityStore

Variables carry the names of `CapabilityState`. Random identifiers are positions
of creation: decisions are never removed, so they are a sequence; capabilities
are pruned, so they are a partial function on the positions of `minted`, a
history of what each token was minted from. `executions` is the history of the
`Authorized` answers. Fields of a request that the code always compares together
are one field (`resource`, `action_class`, `basis`). `consume` names a dozen
mismatches; they are one outcome, because nothing depends on which is reported.
A signature is what it signs (`Canonical`), which leaves out `use_count` like the
code. The clock ticks at any moment up to `MaxTime`. Every method takes the one
lock once, hence is one action, also the check and burn of `consume`.

### VerdictLedger and ExecutionAuthority

Recording a final approval is `RecordFinalApproved`, `IndexByTx`,
`IndexByContext`: the three locks of `record_final_approved_inner`, in the order
of the code. A thread of `ExecutionAuthority` is at one of the program points
between acquisitions (`job[t].pc`): "approved" and "publishing" in an inspection,
"resolve", "record", "issue", "respond" in an authorization. The action path and
the provider path take the same steps on the shared stores. The envelope of the
action path is sealed and evaluated without a lock: `evaluate_strict` of
`ActionPolicy` decides from the tool's name and the patterns that occur in the
call (`Found`; matching text is left out), and a denied call goes no further. The
plane of a call is derived from the tool's name when it is authorized and again
when it is consumed (`OnItsPlane`), as the server does; a caller cannot choose it. The security state of the session is a variable that layers raise
(`Degrade`) and that reset or end of session brings back (`Forget`) at any
moment. `LoseResponse` is a connection that breaks after the capability was
issued: the caller never learns its id. `told` and `handed` are the histories of
what callers were answered.

### GovernedPipeline

Each thread of `ExecutionAuthority` has a place for one event it has yet to append
(`owed`). A wrapper of `evidence.rs` is the steps of the pipeline's call, of which
the last leaves the event, then `AppendEvidence`, under the lock of the plane, then
the answer. An event is its type, the capability and the identities it names; digests
and outcomes are left out. Refusals are here too, because they are in evidence: of a
context (`RefuseContext`), of an envelope that does not verify, whose fields are not
put into evidence (`RefuseEnvelope`), and of an authorization. `Outbound` resolves
the context in the ledger under its locks; the review itself, a call of
`InspectionPipeline`, releases or withholds. `/inspect` goes to the inner pipeline
and leaves no evidence. An append that waits for a sink, and the chain of the
events, are in `EvidencePlane`.

### Arbiter

`process` and `process_with_modifier` are the steps: make the entry and expire
the timer (`BeginProcess`), read the state and decide (`ReadState`), write it
(`Transition`), read the hash (`GetLatestHash`), extend the chain (`ExtendChain`),
push the entry (`PushEntry`), answer (`Answer`). A reset is audited by the same
steps and then clears (`ClearState`). `ForgetSession` is the end of the session
and `ExtendElsewhere` the other layers that use the chain. The expiry of the
lockdown timer is a choice: real time is unrelated to anything else here. A hash
is the position of its link; the chain keeps what each link hashes. `overlapped`
is history: whether a call has begun while another was in progress. Some properties
hold until then. `Graded` are the signals on which the table is compared, in every
state a session comes to.

### DecisionTable

The table is pure, and shared by the Arbiter and the pipeline. Confidences and
modifiers are in percent, so that a threshold times a modifier is exact.

### InspectionPipeline

A call is a record in `turn[t]`: its kind, its session, the layer it is at, the
modifier it read at the beginning, the state of the last layer. `BeginTurn` reads
the memory's modifier, or `InitSessionMemory` makes the memory with strategic
memory's advice; `Inspect`, `Decide`, `Write` and `Answer` are the acquisitions a
layer's signal takes in the Arbiter; `GovMem` is `should_block` before OverWatch;
`ReadDrs` and `HaapGate` compute the risk and pass the gate; `Ingest` takes the
turn into the memory and applies the floor, whose synthetic signal goes through
the same four steps as a fifth layer. `Watch` is OverWatch's evaluation, which leaves
an entry of the session. `end_session` is `RemoveMemory`, `ForgetSession`,
`ResetOverWatch`; `operator_reset` is `ClearState`, `ResetOverWatch`, `RemoveMemory`. A context
call takes the same steps: `ModelContextEnvelope` rejects a context without segments
(`src/envelope.rs:213`), every kind of segment is inspected, and the highest of their
signals is processed once. `overlapped` is history: the sessions of which two calls have been
under way at once, and no end or reset has since begun alone. Four properties are about
the others. `MaxOverlapping` bounds the calls of a session in it.

What a layer reports is any member of `Signals`, and where the memory goes is any
state (`Ingested`), except that a locked one stays at least Escalated, which
`SessionMemory` checks as `LockReleasesSlowly`, a part of `StateFollowsThreat`. Whether the operator has
pre-authorized the action class is a choice. The audit log and the timer are in
`Arbiter`; of OverWatch there is only which sessions have an entry (`watched`). Govmem's records
of mode v2 and the grants of the HAAP gate are left out: no call shown here removes
them (section 5). `peak` and `cut` are history: the highest state a layer or the
floor called for, and whether the session was ended or reset meanwhile.
The code looks advice up by session id, though profiles are recorded by actor id
(its comment calls the advice observational); the model takes any advice.

### SessionMemory

`ingest_signal` is one operator, made of the pieces of the function in their
order: window, counters, decay, weight of the turn, velocity, state, flag.
Confidences are in percent and threats in thousandths, rounded down where the
code computes in `f32`; the trajectory is a fraction. A behavior hash is what it
hashes. The class of a payload is a choice. `history` keeps every turn, to
compare with what the window kept.

### StrategicMemory

A session's memory is reduced to what its fingerprint takes from it. `end_session`
is four steps: `BeginEnd` reads the fingerprint, `IngestSession` updates and
re-evaluates the profile under the lock of the profiles, `WriteTmp` and `Rename`
write the snapshot under the same lock, `RemoveMemory` removes the session's memory
and answers. `PersistFails` is an error of either, `Restart` a stop at any moment
and a start from the snapshot, which may fail to be read. `promised` and `intact`
are history: what was answered as persisted, and whether every start could read
the snapshot there was. The risk score of a profile, which nothing reads, is left
out. With `Durable` false there is no snapshot; the run has one.

### HaapGate

`evaluate` is up to three steps: the risk alone (`Evaluate`), the
pre-authorizations (`IsPreauthorized`, which prunes), the token (`VerifyToken`,
check and count under one lock). `revoke_session` is two (`RevokeSession`,
`RevokeTokens`). The tokens an operator has built and signed are the constant
`Issued`; a registration inserts one with no uses. `grants` numbers what the
operator granted and `revoked` holds the grants a finished revocation had to end.
`permitted_actions` and `forbidden_actions` are not in the model because
`verify_token` looks at neither.

### EvidencePlane

One mutex is held from the beginning to the end of each method, the call of the
sink included, so each method is an action. SHA-256 is taken as injective (a hash
is what it hashes) and signatures as unforgeable. `Restart*` replaces the plane at
any moment: the queue is lost with the process, and the sink, the checkpoints and
the receipts remain. A sink write has three outcomes; "unconfirmed" is stored
though the caller sees an error. `has_sink` is chosen at each start; without one an append
answers `NotConfigured`, a receipt that is not `delivered`, and nothing waits. The server
starts with `new` and without a sink (`server.rs:1172`) and never takes a checkpoint, so its
evidence is in memory only; the other operations are the crate's interface, and are
checked as such.

### OverWatch and Server

`evaluate` takes the inner lock six times: it makes the entry (`Enter`) and then
moves drift and turns, the window of tools, the suspicions, the commands and the
Q09 phrases, each in one acquisition that unwraps the entry (`Acquisition`; without
an entry the thread panics). All of it is under the outer lock, shared; a reset
takes that lock alone, in two steps, because a waiting writer keeps new readers out
(`AnnounceReset`, `ResetSession`). What the patterns find in a text is the record
`Payload`. Drift is in thousandths, rounded down where the code computes in `f32`.
The limit of five suspicions and the window of twenty tools have no setting in the
code and are constants here (`SuspicionLimit`, `MaxToolCalls`). `past` is history: what the completed
evaluations of a session add up to.

`Server` is the loop of `serve`: `Accept` counts the connection, `Spawn` or `Refuse`
decides on the number counted. A handler reads the request line (`ReadRequestLine`) and
then header lines (`ReadHeaderLine`), of which each is a blank one that ends the header
(`Receive`), one that brings a new name (`NewHeader`), one that does not (`IdleLine`: without
a colon, or of a name read before), or one too many (`TooManyHeaders`, 431, compared as the
code does with the number of names in the map). It works, writes and gives its slot back
(`Release`); a panic skips that. `TimeOut` stands for every way a read ends without a line:
the socket's timeout, a client that hangs up, a line longer than 8 KB (`server.rs:171`). It bounds one read and
not the request; the bodies are bounded (`server.rs:240`), header lines are not.

## 3. Runs

| Run | Instance | Shows |
|---|---|---|
| `store` | five requests (retry with another verdict and policy hash, conflict, action of the same transaction, invalid one), eight presentations, lifetime 1, time to 3 | `OneCapabilityPerTransaction`, `AtMostOneExecution`, `ExecutionsMatchDecision`, `FreshCapabilityIsSpendable`, and the refinement `ImplementsSingleUse` |
| `governed` | two threads, one session, an approval with and one without context, four calls of one transaction (a read, a heartbeat, the read under another run, a write the policy denies), at most two verdicts, four events | `CapabilityTracesToApproval`, `ToldIsUsable`, `DeliveredToItsCall`, that the store is used by its specification (`UsesStore`), `EvidenceFollowsCause`, `EvidenceIsComplete`, `OutboundNamesItsApproval` |
| `arbiter` | two threads, one session, three signals, three calls, another layer extending the chain; the table on every severity, confidences at and below each threshold and every modifier | `RaisedIsAudited`, `LastEntryCoversState`, `ModifierOnlyTightens`, `ChainReachesLog`, `LoweredAfterAudit` |
| `evidence` | two payloads, two keys, two epochs of up to three events, each with or without a sink, two stored writes, one checkpoint | `NothingLost`, `SinkInOrder`, `ReceiptsTruthful`, `SnapshotVerifies`, `CheckpointHonoured`, `TamperingDetected`, `TruncationDetected` |
| `inspection` | two threads, one session, every kind of call, signals that warrant S1 to S4, two advices; five calls one after the other, three when some of the session overlap | `ApprovalAccountsForEveryLayer`, `AnswerIsKept`, `NoConstitutionalBlock`, `EndClearsItsMaps`, `FloorBindsItsTurn` |
| `memory` | every sequence of five turns over four signals and four classes, from every advised state; a window of three turns and a trajectory of two | `WindowLosesNothing`, `EscalationRemembered`, `StateFollowsThreat` |
| `strategic` | two threads, one actor, one session id used again and again, three behaviors, three turns, a restart at any moment | `PersistedStays`, `CampaignStays` |
| `haap` | two threads, two sessions, a token good for one use and one without limit, risks on both sides of the gate and of the block, four calls, time to expiry | `AuthorizedOnStandingGrant` |
| `server` | four connections, two slots, one session, two texts: a drifting command, a chain of three tools with three Q09 phrases; two suspicions at the limit; one header name at most | `EntryStays`, `EvaluationSeesItsPast`, `RefusedOnlyWhenFull`, `EndsUnlessFed` |
| `arbiter_race` | two threads | `MonotonicOnly` is violated |
| `arbiter_chain` | two threads | `PrevIsPredecessor` is violated |
| `server_slow` | two connections, one slot, two header names at most | `EveryConnectionEnds` is violated |

**Three disagreements.** The last three runs check a sentence of the source that the
code does not keep, the first two when calls overlap:

- *Transitions are "monotonic only"* (`arbiter.rs:361`, `:369`). The guard compares
  the new state with the state read before the lock was released. Two threads
  read S1; one writes S4, the other S3 after it. The session is in S3. As long
  as no calls overlap it holds: `arbiter` checks that, in `LoweredAfterAudit`.
- *"Each entry = SHA256(prev_entry + ...)"* (`crypto.rs:27`). `write_audit_entry`
  reads the hash and extends the chain under two acquisitions, so an entry can
  name a predecessor that is not the one its hash extends. The same pattern is in
  every layer that stamps its signals.
- *A timeout, "otherwise a single slow/silent client can hold a handler thread
  forever"* (`server.rs:1209`). It does not: the timeout is for one read, and
  `read_request` ends a header that goes on only by comparing `headers.len()` with
  `MAX_HEADER_COUNT` (`server.rs:227`). A line without a colon, or a header of a name read
  before, does not make the map larger, so a client that sends one within each timeout
  keeps its handler and its slot, and the header is read before the service token
  is looked at. `EndsUnlessFed` in `server` is what the code does keep: every other connection ends.

**Bounds and why they are enough.** The hazards are between two actors: two
threads reach every pair of steps, and three calls let a third signal, reset or
end meet the result of two. One session is enough in `arbiter` and `inspection`
because no operation there relates sessions: every map is keyed by the session;
`haap` has two, because a grant must not serve another session. Two
verdicts let an approval be replaced by a later one while a thread holds the
first. Four events are a complete course, approval, authorization, consumption and
review, or a shorter one with a refusal or a competitor between its steps. One header name is the least with which a
header can be new, idle or one too many; more change the number of lines only. Four connections
are two at work, one refused and one that takes a slot given back; three
evaluations that overlap or follow each other reach each campaign's threshold, and
overrun the window of tools. In the store, a lifetime of 1 within time 3 reaches
before, at and after expiry for capabilities minted at different times, and identifiers are bounded by
the transactions, with no bound of their own. Three events are the least with an
interior one to delete; two epochs and keys are enough to mix; two writes of the
sink are enough for one to repeat, skip or overtake the other. A window of three turns is
filled and overrun within five, like the code's twenty within more: the code
compares the window's length and nothing else with it. Three turns and a restart
are what a campaign takes: three sessions, of which two escalated, some of them
before the restart. Permuting payloads, keys, threads or behaviors changes nothing
where they are only compared, and the configurations with a SYMMETRY use that.

`CHECK_DEADLOCK FALSE` stands where a bound (`MaxCalls`, `MaxEvents`, `MaxEpochs`,
`MaxIngests`, `MaxTurns`, `MaxRequests`) stops the instance; the store is checked for deadlock.

Most modules define a `TypeOK` (`GTypeOK` in `GovernedPipeline`, `SessionTypeOK` in `SessionMemory`), the
shape of their state that proofs about them start from. Their configurations leave
it out: it holds in each of these instances, and the properties above say more.

**Fairness.** Two specifications assume any. `FairSpec` of `Arbiter` assumes of each
thread that once inside a request it goes on (weak fairness of its own steps). No method
holds a lock while waiting for another, so a lock is always released and the operating
system schedules the thread. Nothing is assumed of callers or of resets. Under it TLC checks
`ChainReachesLog` (what was hashed is logged). `FairSpec` of `Server` assumes that a connection
the loop has taken is dealt with, and that a handler does what it can do without its client
(`OwnStep`): a read that brings no line is over within the timeout, and a line that was read is
looked at. Nothing is assumed of clients: that they connect, send anything, or stop sending. `TimeOut`
competes with each further line, and a client that always has one ready keeps it from being
taken; that is why `EveryConnectionEnds` fails and `EndsUnlessFed` excepts who sends `IdleLine`s for
ever. A handler that waits for OverWatch's outer lock gets it: its holders never wait for it, and
the connections that announce themselves first are finitely many.

## 4. Proofs

Each theorem holds for every value of the constants that satisfies the assumptions
named with it: any number of threads, sessions, requests, texts and events, and any
bound. The argument is always the same: an inductive invariant `IInv` that holds
at the start, that each action preserves (one lemma per action, or one per conjunct
and in it one step per action), and that implies the properties. In the modules,
`...Effect` lemmas say what an operation does to the maps, position by position,
and cite nothing of the invariant.

### The store (`CapabilityStoreProofs`)

| Theorem | States |
|---|---|
| `TypeCorrect` | `Spec => []TypeOK` |
| `Invariance` | `Spec => []IInv`, the inductive invariant |
| `IndexCorrect` | `Spec => []IndexConsistent`, the `.expect` of `record_decision` |
| `OneCapabilityCorrect` | `Spec => []OneCapabilityPerTransaction` |
| `AtMostOneExecutionCorrect` | `Spec => []AtMostOneExecution` |
| `ExecutionsMatchCorrect` | `Spec => []ExecutionsMatchDecision` |
| `FreshSpendableCorrect` | `Spec => []FreshCapabilityIsSpendable` |
| `PruneCorrect` | `Spec => PruneRemovesOnlyDead` |
| `Refinement` | `Spec => Authority!Spec`, the abstract single-use authority |

The only assumption is `TtlAssumption`: the lifetime is positive, as
`with_ttl_secs` demands.
`AtMostOneExecution` is not inductive: it speaks of transactions, while `consume`
looks only at the use count of a token. Four facts link the two. The index is
consistent, so a transaction has one decision; a decision is minted from at most
once (`MintedOnce`), so it has one token; a stored token is a faithful copy of
its decision with a valid signature (`TokensFaithful`), so what `consume` compares
is what was decided; and an execution has burnt its token (`ExecutionsBurn`), also
when the token was pruned since. The refinement maps a key to its phase through
the same maps. `IndexConsistent` and `PruneRemovesOnlyDead` are proved and in no run.

### Ledger, authorization and store together (`GovernedPipelineProofs`)

| Theorem | States |
|---|---|
| `TypeCorrect`, `Invariance` | `[]TypeOK`, `[]IInv` |
| `UsesStoreCorrect` | `Spec => UsesStore`: the pipeline keeps to the specification of the store |
| `CapabilityTracesCorrect` | `Spec => []CapabilityTracesToApproval` |
| `ToldIsUsableCorrect` | `Spec => []ToldIsUsable` |
| `DeliveredCorrect` | `Spec => []DeliveredToItsCall` |
| `ExecutedOnlyIfApprovedCorrect` | `Spec => []ExecutedOnlyIfApproved`, end to end |
| `OneExecutionCorrect` | `Spec => []Store!AtMostOneExecution` |

The proofs of the store are instantiated, for requests that rest on a verdict and
presentations on the plane the server derives, and its invariant is a conjunct of
this one. The other conjuncts are about the gaps between the locks. A
verdict never changes once recorded and its context stays in the index
(`Indexed`), so what a thread read before it let go of the ledger still stands when it
records and when it issues (`JobsStand`), although the session may have ended since.
A recorded decision rests on its verdict for good (`DecisionsRest`), also when a
retry of another call finds it. A capability that was issued is in the hands of one thread
or one caller (`OneHolder`): that is what makes `DeliveredToItsCall` inductive.
`Publishing` says how far each recording has got, so that a caller that was told
APPROVED finds its approval (`ToldIsPublished`). `ExecutedOnlyIfApproved` joins the two: an
execution presented what a call, not denied by the policy, asked for, on a verdict
that approved its context and run in its session.

Assumptions: `HashAssumption`, a context hash belongs to one run, because the sealed
context contains the run (`envelope.rs:744`); `StoreAssumption`, the lifetime is positive;
`CallsAssumption` and `PresentedAssumption`, requests and presentations have the fields
that are compared, which in the code are fields of a struct (`capability.rs:358`); and
`BoundsAssumption` and `FoundAssumption`, which say what sort of value the constants are.

### The log of evidence (`GovernedPipelineProofs`)

| Theorem | States |
|---|---|
| `GInvariance` | `GSpec => []GIInv` |
| `GovernsThePipeline` | `GSpec => Spec`: evidence adds no behavior to the pipeline |
| `EvidenceFollowsCauseCorrect` | `GSpec => []EvidenceFollowsCause` |
| `EvidenceIsCompleteCorrect` | `GSpec => []EvidenceIsComplete` |
| `OutboundNamesCorrect` | `GSpec => []OutboundNamesItsApproval` |

The invariant of the pipeline is kept because each step is one of the pipeline's or none
of it. On top of it, `GInv` says for each kind of event that it is in the log or owed by
the thread that has to append it, and that a later stage begins only when it is in the log:
whoever holds a capability was answered after its authorization was appended
(`GrantsReported`), so a consumption, whenever it is appended, comes after it
(`ConsumptionsFollow`); a request goes on only from a context in the index
(`ContextsKnown`), of which the approval was reported or is owed (`ApprovalsReported`).
`Counted` makes completeness exact: one authorization for each capability minted and one
consumption for each execution, counting log and debts. Cardinalities of both are
followed step by step, which needs that only finitely many threads owe (`LogShape`).

### Arbiter (`ArbiterProofs`)

| Theorem | States |
|---|---|
| `TypeCorrect`, `Invariance` | `[]TypeOK`, `[]IInv` |
| `RaisedIsAuditedCorrect` | `Spec => []RaisedIsAudited` |
| `LastEntryCoversCorrect` | `Spec => []LastEntryCoversState` |
| `LogIsOnChain` | `Spec => []OnChain`: each entry is one link of the chain, of what it logs, after the link it names |
| `LoweredAfterAuditCorrect` | `Spec => LoweredAfterAudit` |
| `ModifierOnlyTightensCorrect` | `Spec => []ModifierOnlyTightens` |

`RaisedIsAudited` and the audit before a reset (`ClearingIsLogged`) hold whatever overlaps. What
`arbiter_race` refutes in general holds until two calls overlap: then one thread is busy
(`OneBusy`), what it read is still so (`Undisturbed`), and a raised state is the last
thing logged of its session or is on its way there (`Accounted`).
`LogIsOnChain` is what is left of the chain when calls overlap: `arbiter_chain` shows that an
entry need not name the link just before its own, the theorem that it names an earlier
one, and that no link is logged twice. `ModifierOnlyTightens` is a fact of
`DecisionTable` for all thresholds in order (`ThresholdsAssumption`): a modifier scales a
threshold down, and a threshold met stays met.

### Inspection pipeline (`InspectionPipelineProofs`)

| Theorem | States |
|---|---|
| `TypeCorrect`, `Invariance` | `[]TypeOK`, `[]IInv` |
| `ApprovalAccountsCorrect` | `Spec => []ApprovalAccountsForEveryLayer` |
| `NoConstitutionalBlockCorrect` | `Spec => []NoConstitutionalBlock`, of sessions whose calls follow one another |
| `EndClearsItsMapsCorrect` | `Spec => []EndClearsItsMaps`, of the three maps it names |
| `FloorBindsCorrect` | `Spec => []FloorBindsItsTurn` |
| `AnswerIsKeptCorrect` | `ASSUME FloorMeets PROVE Spec => []AnswerIsKept` |

`Accounted` holds for any interleaving: what some layer of the turn has called for is in the
session's state or still in the turn's hands, at each point between the
acquisitions, unless the turn was cut by an end; so an S1 at the end means that no layer
called for more. The other four are about a session whose calls have followed one another, or
have since an end or a reset that began alone; calls of other sessions may overlap it and each other as
they like. There `OneBusy` says that a call under way is the only one of its session, and `InTurn`
where it stands against the Arbiter's map and the memories (`AloneAt`), what a call that is over
was answered (`OverAt`), and what holds of the session between calls (`Settled`: a locked memory
has reached the Arbiter, and what was ended is in none of the three maps). A step of a call
touches the maps at its own session only (`StepsApart`), so that what holds of the others stands.

None of the four holds of a session whose calls overlap. A turn that another call raises to S3 or S4
after its last hard block reads that state in `session_drs` and does meet the
constitutional block, which is then what holds it; a turn that an end overlaps can leave entries behind.
`EndClearsItsMaps` covers what `end_session` removes, and no store besides (section 5).
`FloorMeets` is a hypothesis and not an assumption of the module, because
it is a matter of configuration: the confidences 0.82, 0.90 and 0.98 of the floor's signals
(`pipeline.rs:983`) meet the thresholds. The defaults 0.70, 0.80 and 0.90 satisfy it, those of
`ArbiterConfig::medical` do not, and there the property is false (section 5). Assumptions:
`BlockAssumption` (`valid_block_threshold`), `SignalsAssumption`, `CallsAssumption`, and
`AdvisedAssumption`: strategic memory never advises Locked (`session_memory.rs:642`).

### HAAP gate (`HaapGateProofs`)

| Theorem | States |
|---|---|
| `TypeCorrect`, `Invariance` | `[]TypeOK`, `[]IInv` |
| `AuthorizedOnStandingGrantCorrect` | `Spec => AuthorizedOnStandingGrant` |

The property is of the step that authorizes. The invariant says that what is registered or
pre-authorized stands on a grant of its session that no finished revocation had to end
(`Granted`). A revocation takes two locks, and between them the tokens are still there: `Ending`
says that the grants it has to end are of its session and that its pre-authorizations are
gone, so finishing it cannot take a grant away from under one made since. Assumptions: issued tokens
have a session and bounds (`IssuedAssumption`), a risk is a natural number (`u8` in the
code), durations are integers (`i64`, so a negative one is allowed).

### Evidence plane (`EvidencePlaneProofs`)

| Theorem | States |
|---|---|
| `TypeCorrect`, `Invariance`, `HistoryInvariance` | `[]TypeOK`, `[]IInv`, `[](IInv /\ History)` |
| `SnapshotCorrect` | `Spec => []SnapshotVerifies` |
| `NothingLostCorrect` | `Spec => []NothingLost` |
| `ReceiptsCorrect` | `Spec => []ReceiptsTruthful` |
| `CheckpointHonouredCorrect` | `Spec => []CheckpointHonoured` |
| `SinkInOrderCorrect` | `Spec => []SinkInOrder` |
| `TamperingDetectedCorrect` | `Spec => []TamperingDetected` |
| `TruncationDetectedCorrect` | `Spec => []TruncationDetected` |
| `CheckpointPinsTheChain` | what verifies against a checkpoint is the chain it was taken of |

`IInv` is about the running plane. `SnapshotVerifies` says nothing of the
epoch the plane is in, so it does not bear the next event: the invariant adds that
each event names the plane's own epoch, parent and signer and the hash of the
event before (`Chained`), and that the head is what the next has to name
(`HeadIsLast`). `NothingLost` is stated position by position (`QueueIsTail`,
`ConfirmedStored`), so that a flush which confirms `n` writes shifts the border
by `n`; without a sink nothing waits (`QueueHasSink`) and nothing counts as confirmed. `ReceiptsTruthful` needs that the receipts answered so far are of earlier
places (`ReceiptsPast`), across restarts too: a new process takes a new epoch id.

`History` is about what outlives a restart: the ended epochs are whole chains (`Epochs`), a
checkpoint is the head of a chain at some place (`CheckpointsPast`), and in the sink a write
is of the event after the latest of its epoch or of that one again (`SinkOrdered`), where the
latest write tells how far the plane's own count can be behind (`Reaches`).

That tampering is detected follows from `IInv` and `History` without another induction over steps.
`TamperingDetected` quantifies over the alterations of a chain that TLC enumerates.
`CheckpointPinsTheChain` is stronger than `TruncationDetected`: it is about any sequence of event records
whatever, also one made with the signer's key. If one verifies against a checkpoint
and differs from the chain, take the last place where it does: the event after it, or the
checkpoint, names the hash of both, and a hash is what it hashes, a contradiction.
The assumption `BoundsAssumption` is used: the bounds are natural numbers.

### Memory of a session and profiles of actors (`MemoryProofs`)

| Theorem | States |
|---|---|
| `SessionInvariance` | `SessionSpec => []SInv` |
| `WindowLosesNothingCorrect` | `SessionSpec => []WindowLosesNothing` |
| `EscalationRememberedCorrect` | `SessionSpec => EscalationRemembered` |
| `StateFollowsThreatCorrect` | `SessionSpec => StateFollowsThreat` |
| `StrategicInvariance`, `TypeCorrect` | `[]MInv`, `[]TypeOK` of `StrategicMemory` |
| `PersistedStaysCorrect` | `Spec => []PersistedStays` |
| `CampaignStaysCorrect` | `Spec => CampaignStays` |

The first four are about one session, for turns of any number and any signals. `SInv` says
that the window is the history cut to its length (`Windowed`), that each counter is the number
of turns of its class in the whole history (`CountedAll`), and where the state can be
for a given threat (`StateOfThreat`). The window is cut at each turn, so the step needs
that cutting, appending and cutting again is appending and cutting once (`RetainedAppend`);
and the trajectory reads the end of an end (`RecentOfRetained`), hence the same
turns, whatever its folds compute of them. That a lock is released one state at most per turn
comes from the decay: 95 percent of 4000 is above 2500, and a turn adds to a threat.
The assumptions are those of `SessionMemory`: a window of the trajectory of at least
two turns and not longer than the history that is kept (5 of 20, `session_memory.rs:226`,
`:24`), signals of the five severities whose amplifier is not negative (the amplifiers in
`ingest_signal` are only added, `session_memory.rs:210`), and classes of the enum.

The profiles are about any number of threads, actors, sessions and restarts. `PersistedStays`
speaks of the snapshot, which the next rename replaces as a whole: it needs that the map in
memory is never behind the snapshot (`Kept`), that what is renamed is the map (`Carried`),
and that from the update to the rename one thread holds the lock (`Locked`). `Covers` is what
"not behind" means: of every actor, the fingerprints and whether a campaign was found. A
failed write leaves the map ahead of the snapshot and is caught up by the next one; a
start from the snapshot makes them equal. The counters of a profile are those of its
fingerprints (`Counts`), which `TypeCorrect` states. Assumptions: no thread has the
name that stands for nobody (`ThreadsAssumption`), and the bounds are natural numbers.

### Server and OverWatch (`ServerProofs`)

| Theorem | States |
|---|---|
| `Invariance`, `PastInvariance`, `TypeCorrect` | `[]IInv`, `[]EInv`, `[]TypeOK` |
| `EntryStaysCorrect` | `Spec => []EntryStays` |
| `RefusedOnlyWhenFullCorrect` | `Spec => RefusedOnlyWhenFull` |
| `EvaluationSeesItsPastCorrect` | `Spec => []EvaluationSeesItsPast` |

The assumptions are that callers are numbered from 1, there is at least one
slot, a text has the fields that are found in one, and the window has room for each tool
once (`OverWatchAssumption`; eight of twenty). That a handler keeps its slot when it panics would break the count, so the
first two properties need each other: `SlotsAreHandlers` counts the handlers alive,
and `NoPanic` follows from `Entries`, that a session under evaluation has its entry,
which only the outer lock preserves (`Alone`). `Admission` is what the loop's count
is worth when it decides: handlers can have ended since, none has begun. `Effect`
says what any step of a handler comes to, so that the invariant is argued once for
all of them (`HandlerKeepsInv`).

`EvaluationSeesItsPast` adds what overlapping evaluations leave in one fingerprint.
`Balanced` says of each counter that it is at least what completed evaluations add up to
plus what each evaluation under way has put there already. That sum over callers cannot
be a fold, which would need induction over data, so it is the cardinality of the points
under a weight function (`Total`), and `TotalChanges` follows it when one weight changes.
`BeforeIsPast` holds because a session is not reset while somebody evaluates, so that
`past` only grows under an evaluation; `Reported` carries what an evaluation has found from
acquisition to acquisition. That a chain of tools in one text is reported although the window
drops the oldest is `WindowHasTools`: the tools of the text are the newest in it.

### What is only model-checked

Every invariant and every action property of the runs is stated by a theorem above. What
stays with TLC is liveness: `ChainReachesLog` and `EndsUnlessFed`. They
need fairness and ENABLED, which the prover does not handle. The values that folds compute,
such as the slope of the trajectory, are a matter of induction over data, which is out of its
reach as well; the theorems above need only that equal sequences have equal folds.
For the same reason sums and counts are cardinalities in the proofs, and `Named` of `OverWatch`
lists the eight tools one by one.

## 5. What the code does that its words do not say

Reading the code against its comments gave more differences than the three that are
runs. The models contain the behavior described here, and the properties are
stated so that they hold with it:

- *Ending a session clears a hard lock.* S4 "stays S4 until human clears"
  (`arbiter.rs:292`), but `/session/end` removes the entry without the operator's
  credential (`arbiter.rs:460`), and the id is then in S1.
- *Ending a session does not forget all of it.* "A conversation ending must forget ALL
  per-session state" (`pipeline.rs:833`), and `end_session` (`:808`) clears three maps, the memories, the
  Arbiter's and OverWatch's. With `GOVMEM_MODE=v2` govmem keeps a record of each session with
  the text of its messages (`govmem.rs:220`, `:247`), which nothing in the crate removes, and the HAAP gate
  keeps the tokens and pre-authorizations of a session until they expire, are used up or `revoke_session`
  (`haap.rs:321`) is called, which neither `end_session` nor `operator_reset` (`pipeline.rs:856`)
  does: they serve the next session of the same id. `EndClearsItsMaps` is
  therefore stated of the three maps, and `AuthorizedOnStandingGrant` takes a grant to stand until revoked.
- *Quarantine does not suspend tools.* S3 is "tools suspended" (`arbiter.rs:18`).
  Authorization and consumption look at verdict and capability, not at the state
  (`pipeline.rs:1340`, `:1468`): an approval outlives a quarantine.
- *An end can cut into a turn.* "Execution authority is recorded only after every
  inbound layer [...] finally approves" (`pipeline.rs:484`). If the session is ended
  or reset during the turn, the state an earlier layer called for is gone, a
  clean last layer is answered with S1 and the turn is approved; the
  turn's next signal makes the Arbiter's entry again after the end
  (`pipeline.rs:833`, `arbiter.rs:200`). `ApprovalAccountsForEveryLayer` excepts such turns.
- *The gate's last block can be needed.* The hard block refuses S3 and S4 before the HAAP
  gate, so its `ConstitutionalBlock` is out of reach while calls of a session follow one another
  (`NoConstitutionalBlock`). A call that overlaps can raise the session between the last hard block and
  `session_drs` (`pipeline.rs:1120`), and the turn then meets it.
- *A locked memory does not bind answers.* "0.0 = block everything"
  (`session_memory.rs:120`) takes effect for outbound signals that are not clean; a clean
  answer of the model in a locked session is released in the state the Arbiter has.
- *Velocity hides thresholds.* A clear session whose velocity is above the trigger
  becomes Elevated (`session_memory.rs:277`) before the thresholds for Escalated and
  Locked (`:83`, `:84`) are looked at. `HiddenForOneTurn`, a part of `StateFollowsThreat`, shows that it lasts one turn.
- *Quiet turns can raise the threat.* Once there are two extraction attempts, each
  turn adds to the threat, benign ones too (`session_memory.rs:202`), and more than
  decay (`:180`) takes.
- *An unreadable snapshot is overwritten.* A start that cannot read or parse the
  snapshot goes on with an empty map (`session_memory.rs:458`), and the next end of
  a session renames a new file over it. `PersistedStays` excepts such starts (`intact`).
- *A turn at the end of its session is lost.* The fingerprint is read before the
  memory is removed (`pipeline.rs:831`); what is ingested in between reaches no profile.
- *Boundaries of the gate.* ExecuteActions is "gated if DRS > 60" (`haap.rs:42`); the
  code gates at 60 as well (`haap.rs:266`).
- *A token registered again serves again.* "Maximum number of uses"
  (`haap.rs:103`) is per registration: `register_token` (`:301`) replaces the entry with its
  use count.
- *RootAuthority has no second signature.* "Dual sign-off required" (`haap.rs:44`):
  nothing in `evaluate` or `verify_token` asks for it.
- *Forbidden actions are not looked up.* A token lists "What this token explicitly
  forbids" (`haap.rs:98`), and `verify_token` (`:342`) does not compare the action with it.
- *The floor's signal has a fixed confidence.* An Elevated memory answers S2 and
  tells the Arbiter with a signal of confidence 0.82 (`pipeline.rs:983`). With the default
  thresholds it is met and `AnswerIsKept` holds; with those of
  `ArbiterConfig::medical` it is refuted: the answer is S2 and the session stays in S1.
- *A restricted answer is `ok` to the caller and a refusal in evidence.* For S2 the
  server answers `"ok":true` with verdict RESTRICTED (`server.rs:297`), and the event is
  `ContextRefused`, or `OutboundWithheld` for the model's answer (`evidence.rs:649`, `:883`).
- *A severity is a number of rules.* OverWatch's severity is the number of violations
  (`overwatch.rs:299`): a campaign that one rule finds is Medium however long it is,
  and two unrelated weak findings are High.
- *A campaign can be reported to a turn that did not see it whole.* Between the acquisitions
  of an evaluation others add to the session's counters: an evaluation may report a campaign
  that a later text completed. `EvaluationSeesItsPast` says that none reports less
  than it must.
- *The integrity hash of a constitution depends on an iteration order.* `seal` hashes the
  JSON of a struct with a `HashMap` of tool permissions (`constitution.rs:113`), whose
  order differs between two maps with the same entries: `verify_integrity` of a
  parsed document with two permissions can fail. The document shipped has
  neither permissions nor a hash.

## 6. Not modelled, and why

Text is not modelled: patterns of Sentinel and Corridor, statistics of the output
monitor, formatting, and of HTTP all but how many lines are read. Their outcome is a signal or a request, a choice. Real
cryptography is idealized: a hash is what it hashes, a signature what it signs.
`VerdictLedger` leaves out the single-stage `record`, which only tests call, and
`GovernedPipeline` the uncorrelated `outbound`, which the server does not. The lockdown
timer of the Arbiter is a choice, and read by tests only. The
startup (constitution, keys, service token) is one sequential step that serves or
exits, before there is a second thread; comparing the operator's credential is a
choice of its outcome. A tool call executed in a session that was quarantined after
the approval, an end that clears a lock, a session counted twice by two calls that
end it, and a token registered again are in the models, as the code has them, and no
property forbids them. The remaining components are listed with their status in
`PROJECT.json`.

## 7. Status and plan

The plan of this development is carried out: each stateful component has its module, its run
and its theorems. What would extend it:

1. The windows of the output monitor, should a decision come to depend on them.
2. `end_session` called twice for one session, should it be decided how often a session counts
   for its actor (section 6).
3. Govmem's records of mode v2, should a decision come to read them or an end to remove them
   (section 5).
4. A property that no capability is spent in a quarantined session, should authorization and
   consumption come to read the security state (section 5).
