---------------------------- MODULE ActionPolicy ----------------------------
(***************************************************************************)
(* What the server makes of a proposed tool call by itself: the strict     *)
(* policy of envelope.rs (evaluate_strict) and the action plane of         *)
(* action_semantics.rs. Both look at the sealed tool name; the policy also *)
(* at the text of the locator and the arguments, here the set of the       *)
(* patterns that occur in it.                                              *)
(***************************************************************************)

Readers  == {"read", "read_file"}
Writers  == {"write", "write_file", "edit", "apply_patch"}
Shells   == {"exec", "bash"}
Heartbeat == "heartbeat_respond"

KnownTool == Readers \cup Writers \cup Shells \cup {"browser", Heartbeat}

\* The risk classes that come of a pattern in the text; each is a deny class.
Patterns ==
  {"PathTraversal", "CredentialAccess", "ProtectedResourceMutation", "DestructiveShell",
   "PrivilegeEscalation", "RemoteCodeExecution", "BrowserScriptExecution",
   "ControlSchemaViolation"}

\* The patterns that are looked for in a call of the tool.
LookedFor(tool) ==
  {"PathTraversal", "CredentialAccess"} \cup
  (IF tool \in Writers THEN {"ProtectedResourceMutation"} ELSE {}) \cup
  (IF tool \in Shells \cup {Heartbeat}
   THEN {"DestructiveShell", "PrivilegeEscalation", "RemoteCodeExecution"} ELSE {}) \cup
  (IF tool = "browser" THEN {"BrowserScriptExecution"} ELSE {}) \cup
  (IF tool = Heartbeat THEN {"ControlSchemaViolation"} ELSE {})

\* The risk classes of the decision: an unknown tool is not looked at further, and
\* a tool that does more than read needs an authorization by what it is.
Risks(tool, found) ==
  IF tool \notin KnownTool THEN {"UnknownTool"} ELSE found \cap LookedFor(tool)

\* The disposition.
evaluate_strict(tool, found) ==
  IF Risks(tool, found) # {} THEN "Deny"
  ELSE IF tool \in Readers THEN "Allow" ELSE "RequireAuthorization"

\* The plane a call is on, and whether the turn has to wait for it.
derive_action_semantics(tool) == IF tool = Heartbeat THEN "control" ELSE "tool"
=============================================================================
