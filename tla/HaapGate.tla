------------------------------ MODULE HaapGate ------------------------------
(***************************************************************************)
(* The HAAP gate of haap.rs: an action of an agent is authorized when its  *)
(* risk (DRS) is below the gate of its agency level, when the operator has *)
(* pre-authorized its class, or on an intent token the operator has signed *)
(* and registered. Tokens and pre-authorizations have a lock each; evaluate*)
(* and revoke_session take both, one after the other, so other calls run   *)
(* in between.                                                             *)
(***************************************************************************)
EXTENDS Integers, Sequences

CONSTANTS
  Threads,
  Sessions,
  Classes,      \* action classes
  Risks,        \* the risks actions are evaluated at
  Agencies,     \* the agency levels asked for
  Issued,       \* the intent tokens the operator has built, by token_id
  Durations,    \* of pre-authorizations
  MaxNow,       \* bound on the clock
  MaxCalls      \* bound on the calls begun

\* AgencyLevel, in the order of its variants.
Analyze == 0
DraftActions == 1
ModifyConfig == 2
ExecuteActions == 3
FinancialOps == 4
RootAuthority == 5

AgencyLevel == Analyze..RootAuthority

IntentToken ==
  [session : Sessions, agency_ceiling : AgencyLevel, expires_at : Nat, max_uses : Nat,
   signed : BOOLEAN]

ASSUME IssuedAssumption ==
  Agencies \subseteq AgencyLevel /\ \A k \in DOMAIN Issued : Issued[k] \in IntentToken

\* A risk is a u8, a duration of seconds is taken as i64.
ASSUME RisksAssumption == Risks \subseteq Nat

ASSUME BoundsAssumption == MaxNow \in Nat /\ MaxCalls \in Nat /\ Durations \subseteq Int

VARIABLES
  tokens,    \* token_id -> the registered token's use_count and grant
  preauth,   \* the pre-authorizations: session, class, expiry and grant
  job,       \* what each thread is doing; when idle, what was answered last
  now,
  calls,     \* how many calls have begun
  grants,    \* history: what the operator has granted, in order
  revoked    \* history: grants that a completed revoke_session must have ended

vars == <<tokens, preauth, job, now, calls, grants, revoked>>

gate_threshold ==
  [agency \in {ModifyConfig, ExecuteActions, FinancialOps, RootAuthority} |->
     CASE agency = ModifyConfig -> 40 [] agency = ExecuteActions -> 60 [] OTHER -> 0]

constitutional_block_threshold == 96

-----------------------------------------------------------------------------
(* The validity of a token.                                                *)

is_expired(k) == now > Issued[k].expires_at

\* A max_uses of 0 stands for None: unlimited.
is_exhausted(k) == Issued[k].max_uses # 0 /\ tokens[k].use_count >= Issued[k].max_uses

\* The checks of verify_token on a token that is in the registry.
Accepts(k, session, agency) ==
  /\ Issued[k].session = session
  /\ ~is_expired(k)
  /\ ~is_exhausted(k)
  /\ Issued[k].agency_ceiling >= agency
  /\ Issued[k].signed

-----------------------------------------------------------------------------
Idle == [pc |-> "idle"]

Ready(t) == job[t].pc = "idle" /\ calls < MaxCalls /\ calls' = calls + 1

\* What evaluate answers, with what the authorization rests on.
Verdict(j, outcome, grant) ==
  [pc |-> "idle", outcome |-> outcome, drs |-> j.drs, agency |-> j.agency, class |-> j.class,
   session |-> j.session, token |-> j.token, grant |-> grant]

\* What the risk alone decides.
Immediate(j) ==
  CASE j.drs >= constitutional_block_threshold -> "ConstitutionalBlock"
    [] j.drs < constitutional_block_threshold /\ j.agency \notin DOMAIN gate_threshold -> "Authorized"
    [] OTHER -> IF j.drs < gate_threshold[j.agency] THEN "Authorized" ELSE "open"

Evaluate(t, session, agency, drs, class, token) ==
  /\ Ready(t)
  /\ LET j == [pc |-> "preauth", session |-> session, agency |-> agency, drs |-> drs,
               class |-> class, token |-> token] IN
     job' = [job EXCEPT ![t] = IF Immediate(j) = "open" THEN j ELSE Verdict(j, Immediate(j), 0)]
  /\ UNCHANGED <<tokens, preauth, now, grants, revoked>>

\* The pre-authorizations of the session that have not expired.
Live(session) == {p \in preauth : p.session = session /\ p.expiry > now}

\* is_preauthorized prunes the session's expired entries, and answers.
IsPreauthorized(t) ==
  /\ job[t].pc = "preauth"
  /\ LET j == job[t]
         matching == {p \in Live(j.session) : p.class = j.class} IN
     /\ preauth' = {p \in preauth : p.session # j.session} \cup Live(j.session)
     /\ \/ \E p \in matching : job' = [job EXCEPT ![t] = Verdict(j, "Authorized", p.grant)]
        \/ /\ matching = {}
           /\ job' = [job EXCEPT ![t] = IF j.token = "none" THEN Verdict(j, "GateRequired", 0)
                                        ELSE [j EXCEPT !.pc = "token"]]
  /\ UNCHANGED <<tokens, now, calls, grants, revoked>>

VerifyToken(t) ==
  /\ job[t].pc = "token"
  /\ LET j == job[t]
         k == j.token IN
     IF k \in DOMAIN tokens /\ Accepts(k, j.session, j.agency)
     THEN /\ tokens' = [tokens EXCEPT ![k].use_count = @ + 1]
          /\ job' = [job EXCEPT ![t] = Verdict(j, "TokenVerified", tokens[k].grant)]
     ELSE /\ job' = [job EXCEPT ![t] = Verdict(j, "TokenRejected", 0)]
          /\ UNCHANGED tokens
  /\ UNCHANGED <<preauth, now, calls, grants, revoked>>

-----------------------------------------------------------------------------
(* The operator's calls.                                                   *)

\* register_token inserts what it is given: a token as built has no uses.
RegisterToken(t, k) ==
  /\ Ready(t)
  /\ ~is_expired(k)
  /\ tokens' = [i \in DOMAIN tokens \cup {k} |->
                  IF i = k THEN [use_count |-> 0, grant |-> Len(grants) + 1] ELSE tokens[i]]
  /\ grants' = Append(grants, [session |-> Issued[k].session, until |-> Issued[k].expires_at])
  /\ job' = [job EXCEPT ![t] = Idle]
  /\ UNCHANGED <<preauth, now, revoked>>

Preauthorize(t, session, class, duration) ==
  /\ Ready(t)
  /\ preauth' = preauth \cup
       {[session |-> session, class |-> class, expiry |-> now + duration, grant |-> Len(grants) + 1]}
  /\ grants' = Append(grants, [session |-> session, until |-> now + duration])
  /\ job' = [job EXCEPT ![t] = Idle]
  /\ UNCHANGED <<tokens, now, revoked>>

\* revoke_session: first the pre-authorizations, then the tokens. The grants it has to
\* end are those of the session when it is called.
Standing(session) ==
  {p.grant : p \in {q \in preauth : q.session = session}} \cup
  {tokens[k].grant : k \in {i \in DOMAIN tokens : Issued[i].session = session}}

RevokeSession(t, session) ==
  /\ Ready(t)
  /\ preauth' = {p \in preauth : p.session # session}
  /\ job' = [job EXCEPT ![t] = [pc |-> "revoke", session |-> session, ends |-> Standing(session)]]
  /\ UNCHANGED <<tokens, now, grants, revoked>>

\* Variant with a fault: the tokens of the session are the ones retained.
Retained_Session(session) == {k \in DOMAIN tokens : Issued[k].session = session}

Retained(session) == {k \in DOMAIN tokens : Issued[k].session # session}

RevokeTokens(t) ==
  /\ job[t].pc = "revoke"
  /\ tokens' = [k \in Retained(job[t].session) |-> tokens[k]]
  /\ revoked' = revoked \cup job[t].ends
  /\ job' = [job EXCEPT ![t] = Idle]
  /\ UNCHANGED <<preauth, now, calls, grants>>

TimePasses ==
  /\ now < MaxNow
  /\ now' = now + 1
  /\ UNCHANGED <<tokens, preauth, job, calls, grants, revoked>>

-----------------------------------------------------------------------------
Init ==
  /\ tokens = [k \in {} |-> Idle]
  /\ preauth = {}
  /\ job = [t \in Threads |-> Idle]
  /\ now = 0 /\ calls = 0 /\ grants = <<>>
  /\ revoked = {}

Next ==
  \/ \E t \in Threads : IsPreauthorized(t) \/ VerifyToken(t) \/ RevokeTokens(t)
  \/ \E t \in Threads, session \in Sessions, agency \in Agencies, drs \in Risks, class \in Classes,
        token \in DOMAIN Issued \cup {"none"} : Evaluate(t, session, agency, drs, class, token)
  \/ \E t \in Threads, k \in DOMAIN Issued : RegisterToken(t, k)
  \/ \E t \in Threads, session \in Sessions, class \in Classes, duration \in Durations :
        Preauthorize(t, session, class, duration)
  \/ \E t \in Threads, session \in Sessions : RevokeSession(t, session)
  \/ TimePasses

Spec == Init /\ [][Next]_vars

-----------------------------------------------------------------------------
Authorized(v) ==
  v.pc = "idle" /\ v # Idle /\ v.outcome \in {"Authorized", "TokenVerified"}

Gated(v) == v.agency \in DOMAIN gate_threshold /\ v.drs >= gate_threshold[v.agency]

\* The shape of the registry, the pre-authorizations and the calls; what is registered
\* or pre-authorized has been granted, and no registered token is used beyond its limit.
TypeOK ==
  /\ DOMAIN tokens \subseteq DOMAIN Issued
  /\ \A k \in DOMAIN tokens :
       /\ tokens[k].grant \in DOMAIN grants /\ tokens[k].use_count \in Nat
       /\ Issued[k].max_uses # 0 => tokens[k].use_count <= Issued[k].max_uses
  /\ \A p \in preauth : p.session \in Sessions /\ p.class \in Classes /\ p.grant \in DOMAIN grants
  /\ \A t \in Threads : job[t].pc \in {"idle", "preauth", "token", "revoke"}
  /\ now \in 0..MaxNow /\ calls \in 0..MaxCalls /\ revoked \subseteq DOMAIN grants

\* A gated action is let pass only on something the operator has granted to its
\* session, that has not run out, is not used up and that no finished revoke_session
\* has ended:
\* "All authorizations revoked" holds from the moment the call returns, although
\* it takes the two locks one after the other and evaluate runs in between.
AuthorizedOnStandingGrant ==
  [][\A t \in Threads :
       job'[t] # job[t] /\ Authorized(job'[t]) /\ Gated(job'[t]) =>
         LET g == job'[t].grant IN
         /\ g \in DOMAIN grants \ revoked
         /\ grants[g].session = job'[t].session /\ now <= grants[g].until
         /\ job'[t].outcome = "TokenVerified" /\ Issued[job'[t].token].max_uses # 0 =>
              tokens'[job'[t].token].use_count <= Issued[job'[t].token].max_uses]_vars
=============================================================================
