------------------------- MODULE MCGovernedPipeline -------------------------
(***************************************************************************)
(* Instance of GovernedPipeline: two threads and one session; a context    *)
(* and a plain text may be approved, four variants of one tool call        *)
(* compete for a capability, and answers of the model to the context are   *)
(* reviewed. Room for the events of one complete course and one more.      *)
(***************************************************************************)
EXTENDS GovernedPipeline, TLC

ContextApproval ==
  [gov_tx_id |-> "i1", session_id |-> "s", direction |-> "Inbound",
   context_hash |-> "h1", run_id |-> "r"]
TextApproval ==
  [ContextApproval EXCEPT !.gov_tx_id = "i2", !.context_hash = NoContext, !.run_id = NoContext]

MCApprovals == {ContextApproval, TextApproval}

\* The hash seals the call.
Call(tool, resource, run, hash) ==
  [gov_tx_id |-> "tx1", authority |-> "action.execute", session_id |-> "s",
   principal_fingerprint |-> "p", backend |-> Empty, model |-> Empty,
   action_class |-> tool, run_id |-> run, context_hash |-> "h1",
   policy_version |-> "v", policy_hash |-> "h2", basis |-> Empty, action_hash |-> hash,
   tool_name |-> tool, resource |-> resource, tool_call_id |-> "c", action_plane |-> Empty]

\* A tool call, the same transaction with a heartbeat, the call under a run that
\* was not approved, and a write that is denied for what a read may contain.
Read  == Call("read", "f", "r", "a1")
Write == Call("write", "f", "r", "a2")

MCCalls == {Read, Write, Call(Heartbeat, "g", "r", "a3"), Call("read", "f", "r2", "a4")}

MCFound ==
  [r \in MCCalls |-> IF r \in {Read, Write} THEN {"ProtectedResourceMutation"} ELSE {}]

MCDigests == {"h1", "h2", "a1", "a2", "a3", "a4"}

\* The executor presents every field of the call that consume compares.
MCPresented == {[f \in DOMAIN Read \ {"action_class", "basis"} |-> Read[f]]}

\* The threads take no part in any datum.
ThreadSymmetry == Permutations(Threads)
=============================================================================
