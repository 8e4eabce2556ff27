------------------------- MODULE MCCapabilityStore -------------------------
(***************************************************************************)
(* Instance of CapabilityStore: a provider request with a conflicting twin,*)
(* a retry of it under another verdict and policy hash, an action request  *)
(* of the same transaction, and an invalid request of another.             *)
(***************************************************************************)
EXTENDS CapabilityStore

Provider ==
  [gov_tx_id |-> "tx1", authority |-> AUTHORITY_PROVIDER_EXECUTE, session_id |-> "s",
   principal_fingerprint |-> "p", backend |-> "b", model |-> "m", action_class |-> "chat",
   run_id |-> "r", context_hash |-> "h1", policy_version |-> "v", policy_hash |-> "h2",
   basis |-> "verdict1", action_hash |-> "", tool_name |-> "", resource |-> "",
   tool_call_id |-> "", action_plane |-> "tool"]

Action ==
  [Provider EXCEPT !.authority = AUTHORITY_ACTION_EXECUTE, !.backend = "", !.model = "",
                   !.action_class = "tool:read", !.action_hash = "h3", !.tool_name = "read",
                   !.resource = "f", !.tool_call_id = "c"]

MCRequests ==
  {Provider, Action,
   [Provider EXCEPT !.basis = "verdict2", !.policy_hash = "h1"],
   [Provider EXCEPT !.model = "m2"],
   [Provider EXCEPT !.gov_tx_id = "tx2", !.context_hash = "malformed"]}

MCDigests == {"h1", "h2", "h3"}

\* What was authorized, and presentations that differ from it in one field.
MCPresented ==
  {Binding(Provider), Binding(Action),
   [Binding(Provider) EXCEPT !.model = "m2"],
   [Binding(Provider) EXCEPT !.policy_hash = "h1"],
   [Binding(Provider) EXCEPT !.gov_tx_id = "tx2"],
   [Binding(Provider) EXCEPT !.principal_fingerprint = "q"],
   [Binding(Provider) EXCEPT !.tool_name = "read"],
   [Binding(Action) EXCEPT !.resource = "g"]}
=============================================================================
