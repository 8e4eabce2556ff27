--------------------------- MODULE HaapGateProofs ---------------------------
(***************************************************************************)
(* Proofs about HaapGate, for every set of sessions, threads and issued    *)
(* tokens, and every duration.                                             *)
(***************************************************************************)
EXTENDS HaapGate, TLAPS

-----------------------------------------------------------------------------
(* The inductive invariant.                                                *)

Grant == [session : Sessions, until : Int]

Registered == [use_count : Nat, grant : Nat]

Preauthorization == [session : Sessions, class : Classes, expiry : Int, grant : Nat]

\* A call that waits for its turn on a lock, and one that is revoking.
Asking(t) == job[t].pc \in {"preauth", "token"}

Revoking(t) == job[t].pc = "revoke"

Shape ==
  /\ grants \in Seq(Grant)
  /\ preauth \subseteq Preauthorization
  /\ DOMAIN tokens \subseteq DOMAIN Issued
  /\ tokens \in [DOMAIN tokens -> Registered]
  /\ job = [t \in Threads |-> job[t]]
  /\ \A t \in Threads :
       /\ job[t].pc \in {"idle", "preauth", "token", "revoke"}
       /\ Asking(t) =>
            /\ job[t] = [pc |-> job[t].pc, session |-> job[t].session, agency |-> job[t].agency,
                         drs |-> job[t].drs, class |-> job[t].class, token |-> job[t].token]
            /\ job[t].session \in Sessions
       /\ Revoking(t) => job[t].session \in Sessions
  /\ now \in 0..MaxNow /\ calls \in 0..MaxCalls

\* What is registered or pre-authorized has been granted as it is, and stands.
Granted ==
  /\ \A p \in preauth :
       /\ p.grant \in DOMAIN grants \ revoked
       /\ grants[p.grant].session = p.session /\ grants[p.grant].until = p.expiry
  /\ \A k \in DOMAIN tokens :
       /\ tokens[k].grant \in DOMAIN grants \ revoked
       /\ grants[tokens[k].grant].session = Issued[k].session
       /\ grants[tokens[k].grant].until = Issued[k].expires_at
       /\ Issued[k].max_uses # 0 => tokens[k].use_count <= Issued[k].max_uses

\* What a revocation has still to end is of its session, and the
\* pre-authorizations are gone already: one made since is another grant.
Ending ==
  /\ revoked \subseteq DOMAIN grants
  /\ \A t \in Threads : Revoking(t) =>
       /\ \A g \in job[t].ends : g \in DOMAIN grants /\ grants[g].session = job[t].session
       /\ \A p \in preauth : p.grant \notin job[t].ends

IInv == Shape /\ Granted /\ Ending

-----------------------------------------------------------------------------
(* Pieces.                                                                 *)

\* The levels with a gate.
LEMMA Gates ==
  DOMAIN gate_threshold = {ModifyConfig, ExecuteActions, FinancialOps, RootAuthority}
BY DEF gate_threshold

\* One more grant; the earlier ones stay what they are.
LEMMA GrantsGrow ==
  ASSUME grants \in Seq(Grant), NEW g \in Grant, grants' = Append(grants, g)
  PROVE  /\ grants' \in Seq(Grant) /\ Len(grants) \in Nat
         /\ DOMAIN grants = 1..Len(grants) /\ DOMAIN grants' = 1..(Len(grants) + 1)
         /\ \A i \in DOMAIN grants : grants'[i] = grants[i]
         /\ grants'[Len(grants) + 1] = g
OBVIOUS

\* A token the operator has issued.
LEMMA IssuedShape ==
  ASSUME NEW k \in DOMAIN Issued
  PROVE  /\ Issued[k].session \in Sessions /\ Issued[k].expires_at \in Nat
         /\ Issued[k].max_uses \in Nat
BY IssuedAssumption DEF IntentToken

LEMMA InitIInv == Init => IInv
<1> SUFFICES ASSUME Init PROVE IInv
  OBVIOUS
<1>1. Shape
  BY BoundsAssumption DEF Init, Shape, Idle, Asking, Revoking, Registered
<1>2. Granted /\ Ending
  BY DEF Init, Granted, Ending, Idle, Revoking
<1> QED BY <1>1, <1>2 DEF IInv

-----------------------------------------------------------------------------
(* The steps of a call.                                                    *)

\* A thread's job changes, to one that neither asks nor revokes or to a well
\* formed one that asks: the rest stands.
JobStands(t, j) ==
  /\ j.pc \in {"idle", "preauth", "token"}
  /\ j.pc \in {"preauth", "token"} =>
       /\ j = [pc |-> j.pc, session |-> j.session, agency |-> j.agency, drs |-> j.drs,
               class |-> j.class, token |-> j.token]
       /\ j.session \in Sessions

\* The jobs after such a change.
LEMMA JobChanges ==
  ASSUME Shape, NEW t \in Threads, NEW j, JobStands(t, j), job' = [job EXCEPT ![t] = j]
  PROVE  /\ job' = [u \in Threads |-> job'[u]]
         /\ job'[t] = j /\ \A u \in Threads : u # t => job'[u] = job[u]
         /\ \A u \in Threads :
              /\ job'[u].pc \in {"idle", "preauth", "token", "revoke"}
              /\ Asking(u)' =>
                   /\ job'[u] = [pc |-> job'[u].pc, session |-> job'[u].session,
                                 agency |-> job'[u].agency, drs |-> job'[u].drs,
                                 class |-> job'[u].class, token |-> job'[u].token]
                   /\ job'[u].session \in Sessions
              /\ Revoking(u)' => job'[u].session \in Sessions /\ Revoking(u) /\ job'[u] = job[u]
<1>1. DOMAIN job = Threads
  BY DEF Shape
<1>2. /\ job' = [u \in Threads |-> job'[u]]
      /\ job'[t] = j /\ \A u \in Threads : u # t => job'[u] = job[u]
  BY <1>1 DEF Shape
<1>3. ASSUME NEW u \in Threads
      PROVE  /\ job'[u].pc \in {"idle", "preauth", "token", "revoke"}
             /\ Asking(u)' =>
                  /\ job'[u] = [pc |-> job'[u].pc, session |-> job'[u].session,
                                agency |-> job'[u].agency, drs |-> job'[u].drs,
                                class |-> job'[u].class, token |-> job'[u].token]
                  /\ job'[u].session \in Sessions
             /\ Revoking(u)' => job'[u].session \in Sessions /\ Revoking(u) /\ job'[u] = job[u]
  <2>1. CASE u = t
    BY <1>2, <2>1 DEF JobStands, Asking, Revoking
  <2>2. CASE u # t
    BY <1>2, <2>2 DEF Shape, Asking, Revoking
  <2> QED BY <2>1, <2>2
<1> QED BY <1>2, <1>3

\* What is still to be ended stays so when no more is pre-authorized.
LEMMA EndingStands ==
  ASSUME Shape, Ending, NEW t \in Threads, NEW j, JobStands(t, j), job' = [job EXCEPT ![t] = j],
         preauth' \subseteq preauth, UNCHANGED <<grants, revoked>>
  PROVE  Ending'
<1>1. \A u \in Threads : Revoking(u)' => Revoking(u) /\ job'[u] = job[u]
  BY JobChanges
<1>2. revoked' \subseteq DOMAIN grants'
  BY DEF Ending
<1>3. ASSUME NEW u \in Threads, Revoking(u)'
      PROVE  /\ \A g \in job'[u].ends : g \in DOMAIN grants' /\ grants'[g].session = job'[u].session
             /\ \A p \in preauth' : p.grant \notin job'[u].ends
  BY <1>1, <1>3 DEF Ending
<1> QED BY <1>2, <1>3 DEF Ending

\* What an evaluation answers.
LEMMA VerdictStands ==
  ASSUME NEW t, NEW j, NEW outcome, NEW grant
  PROVE  JobStands(t, Verdict(j, outcome, grant))
BY DEF JobStands, Verdict

LEMMA IdleStands ==
  ASSUME NEW t
  PROVE  JobStands(t, Idle)
BY DEF JobStands, Idle

\* A new call is within the bound.
LEMMA ReadyCounts ==
  ASSUME Shape, NEW t, Ready(t)
  PROVE  calls' \in 0..MaxCalls
BY BoundsAssumption DEF Shape, Ready

LEMMA EvaluateIInv ==
  ASSUME IInv, NEW t \in Threads, NEW session \in Sessions, NEW agency, NEW drs, NEW class,
         NEW token, Evaluate(t, session, agency, drs, class, token)
  PROVE  IInv'
<1> DEFINE a == [pc |-> "preauth", session |-> session, agency |-> agency, drs |-> drs,
                 class |-> class, token |-> token]
           j == IF Immediate(a) = "open" THEN a ELSE Verdict(a, Immediate(a), 0)
<1>1. /\ job' = [job EXCEPT ![t] = j]
      /\ UNCHANGED <<tokens, preauth, now, grants, revoked>>
  BY DEF Evaluate
<1>2. JobStands(t, a)
  BY DEF JobStands
<1>3. JobStands(t, j)
  <2> HIDE DEF a
  <2> QED BY <1>2, VerdictStands
<1> HIDE DEF j
<1>4. calls' \in 0..MaxCalls
  BY ReadyCounts DEF Evaluate, IInv
<1>5. Shape /\ Granted /\ Ending
  BY DEF IInv
<1>6. Shape'
  BY <1>1, <1>3, <1>4, <1>5, JobChanges DEF Shape
<1>7. Granted'
  BY <1>1, <1>5 DEF Granted
<1>8. Ending'
  BY <1>1, <1>3, <1>5, EndingStands
<1> QED BY <1>6, <1>7, <1>8 DEF IInv

\* Pruning leaves some of the pre-authorizations.
LEMMA IsPreauthorizedIInv ==
  ASSUME IInv, NEW t \in Threads, IsPreauthorized(t)
  PROVE  IInv'
<1> DEFINE a == job[t]
<1>1. /\ preauth' \subseteq preauth
      /\ UNCHANGED <<tokens, now, calls, grants, revoked>>
  BY DEF IsPreauthorized, Live
<1>2. PICK j : /\ job' = [job EXCEPT ![t] = j]
               /\ \/ \E outcome, grant : j = Verdict(a, outcome, grant)
                  \/ j = [a EXCEPT !.pc = "token"]
  BY DEF IsPreauthorized
<1>3. Shape /\ Granted /\ Ending /\ a.pc = "preauth" /\ Asking(t)
  BY DEF IInv, IsPreauthorized, Asking
<1>4. JobStands(t, j)
  <2>1. CASE \E outcome, grant : j = Verdict(a, outcome, grant)
    BY <2>1, VerdictStands
  <2>2. CASE j = [a EXCEPT !.pc = "token"]
    <3>1. /\ a = [pc |-> a.pc, session |-> a.session, agency |-> a.agency, drs |-> a.drs,
                  class |-> a.class, token |-> a.token]
          /\ a.session \in Sessions
      BY <1>3 DEF Shape
    <3> HIDE DEF a
    <3> QED BY <2>2, <3>1 DEF JobStands
  <2> QED BY <1>2, <2>1, <2>2
<1>6. Shape'
  BY <1>1, <1>2, <1>3, <1>4, JobChanges DEF Shape
<1>7. Granted'
  BY <1>1, <1>3 DEF Granted
<1>8. Ending'
  BY <1>1, <1>2, <1>3, <1>4, EndingStands
<1> QED BY <1>6, <1>7, <1>8 DEF IInv

\* A use is counted, and the limit is not passed.
LEMMA VerifyTokenIInv ==
  ASSUME IInv, NEW t \in Threads, VerifyToken(t)
  PROVE  IInv'
<1> DEFINE a == job[t]
           k == a.token
<1>1. UNCHANGED <<preauth, now, calls, grants, revoked>>
  BY DEF VerifyToken
<1>2. Shape /\ Granted /\ Ending
  BY DEF IInv
<1>3. PICK outcome, grant : job' = [job EXCEPT ![t] = Verdict(a, outcome, grant)]
  BY DEF VerifyToken
<1> DEFINE j == Verdict(a, outcome, grant)
<1>4. JobStands(t, j)
  BY VerdictStands
<1> HIDE DEF j
<1>5. /\ DOMAIN tokens' = DOMAIN tokens /\ tokens' \in [DOMAIN tokens' -> Registered]
      /\ \A i \in DOMAIN tokens :
           /\ tokens'[i].grant = tokens[i].grant
           /\ Issued[i].max_uses # 0 => tokens'[i].use_count <= Issued[i].max_uses
  <2>1. CASE tokens' = tokens
    BY <1>2, <2>1 DEF Shape, Granted
  <2>2. CASE k \in DOMAIN tokens /\ Accepts(k, a.session, a.agency)
             /\ tokens' = [tokens EXCEPT ![k].use_count = @ + 1]
    <3>1. /\ k \in DOMAIN tokens /\ k \in DOMAIN Issued /\ tokens[k] \in Registered
          /\ Issued[k].max_uses # 0 => tokens[k].use_count < Issued[k].max_uses
      BY <1>2, <2>2, IssuedShape DEF Shape, Accepts, is_exhausted, Registered
    <3> DEFINE r == [tokens[k] EXCEPT !.use_count = @ + 1]
    <3>2. r \in Registered /\ r.grant = tokens[k].grant /\ r.use_count = tokens[k].use_count + 1
      BY <3>1 DEF Registered
    <3>3. tokens' = [tokens EXCEPT ![k] = r]
      BY <2>2
    <3> HIDE DEF r, k
    <3>4. /\ DOMAIN tokens' = DOMAIN tokens /\ tokens'[k] = r
          /\ \A i \in DOMAIN tokens : i # k => tokens'[i] = tokens[i]
          /\ tokens' \in [DOMAIN tokens -> Registered]
      BY <1>2, <3>1, <3>2, <3>3 DEF Shape
    <3>5. Issued[k].max_uses # 0 => r.use_count <= Issued[k].max_uses
      BY <3>1, <3>2, IssuedShape DEF Registered
    <3> QED BY <1>2, <3>1, <3>2, <3>4, <3>5 DEF Granted
  <2> QED BY <2>1, <2>2 DEF VerifyToken
<1>6. Shape'
  BY <1>1, <1>2, <1>3, <1>4, <1>5, JobChanges DEF Shape, j
<1>7. Granted'
  BY <1>1, <1>2, <1>5 DEF Granted
<1>8. Ending'
  BY <1>1, <1>2, <1>3, <1>4, EndingStands DEF j
<1> QED BY <1>6, <1>7, <1>8 DEF IInv

-----------------------------------------------------------------------------
(* The steps of the operator.                                              *)

\* A new grant is none that is revoked or about to be.
LEMMA GrantIsNew ==
  ASSUME Shape, Ending, NEW g \in Grant, grants' = Append(grants, g), NEW t \in Threads,
         job' = [job EXCEPT ![t] = Idle], UNCHANGED revoked,
         \A p \in preauth' : p \in preauth \/ p.grant = Len(grants) + 1
  PROVE  Ending'
<1>1. /\ Len(grants) \in Nat /\ DOMAIN grants = 1..Len(grants)
      /\ DOMAIN grants' = 1..(Len(grants) + 1)
      /\ \A i \in DOMAIN grants : grants'[i] = grants[i] /\ i \in DOMAIN grants'
  BY GrantsGrow DEF Shape
<1>2. \A u \in Threads : Revoking(u)' => Revoking(u) /\ job'[u] = job[u]
  BY IdleStands, JobChanges
<1>3. revoked' \subseteq DOMAIN grants'
  BY <1>1 DEF Ending
<1>4. ASSUME NEW u \in Threads, Revoking(u)'
      PROVE  /\ \A g_1 \in job'[u].ends :
                  g_1 \in DOMAIN grants' /\ grants'[g_1].session = job'[u].session
             /\ \A p \in preauth' : p.grant \notin job'[u].ends
  <2>1. /\ job'[u] = job[u] /\ \A p \in preauth : p.grant \notin job[u].ends
        /\ \A h \in job[u].ends : h \in DOMAIN grants /\ grants[h].session = job[u].session
    BY <1>2, <1>4 DEF Ending
  <2>2. Len(grants) + 1 \notin job[u].ends
    BY <1>1, <2>1
  <2> QED BY <1>1, <2>1, <2>2
<1> QED BY <1>3, <1>4 DEF Ending

LEMMA RegisterTokenIInv ==
  ASSUME IInv, NEW t \in Threads, NEW k \in DOMAIN Issued, RegisterToken(t, k)
  PROVE  IInv'
<1> DEFINE n == Len(grants) + 1
           g == [session |-> Issued[k].session, until |-> Issued[k].expires_at]
           r == [use_count |-> 0, grant |-> n]
<1>1. /\ tokens' = [i \in DOMAIN tokens \cup {k} |-> IF i = k THEN r ELSE tokens[i]]
      /\ grants' = Append(grants, g)
      /\ job' = [job EXCEPT ![t] = Idle]
      /\ UNCHANGED <<preauth, now, revoked>>
  BY DEF RegisterToken
<1>2. Shape /\ Granted /\ Ending
  BY DEF IInv
<1>3. g \in Grant
  BY IssuedShape DEF Grant
<1>4. /\ grants' \in Seq(Grant) /\ Len(grants) \in Nat
      /\ DOMAIN grants = 1..Len(grants) /\ DOMAIN grants' = 1..(Len(grants) + 1)
      /\ \A i \in DOMAIN grants : grants'[i] = grants[i]
      /\ grants'[n] = g
  BY <1>1, <1>2, <1>3, GrantsGrow DEF Shape
<1>5. calls' \in 0..MaxCalls
  BY ReadyCounts DEF RegisterToken, IInv
<1>6. n \in Nat /\ n \in DOMAIN grants' /\ n \notin DOMAIN grants /\ n \notin revoked
  BY <1>2, <1>4 DEF Ending
<1>7. r \in Registered /\ r.grant = n /\ r.use_count = 0
  BY <1>6 DEF Registered
<1>8. \A i \in DOMAIN tokens : tokens[i] \in Registered
  BY <1>2 DEF Shape
<1> HIDE DEF n, r
<1>9. /\ DOMAIN tokens' = DOMAIN tokens \cup {k} /\ tokens'[k] = r
      /\ \A i \in DOMAIN tokens : i # k => tokens'[i] = tokens[i]
      /\ tokens' \in [DOMAIN tokens' -> Registered]
  BY <1>1, <1>7, <1>8
<1>10. Shape'
  BY <1>1, <1>2, <1>4, <1>5, <1>9, IdleStands, JobChanges DEF Shape
<1>11. Ending'
  BY <1>1, <1>2, <1>3, GrantIsNew DEF n
<1>12. Granted'
  <2>1. ASSUME NEW p \in preauth'
        PROVE  /\ p.grant \in DOMAIN grants' \ revoked'
               /\ grants'[p.grant].session = p.session /\ grants'[p.grant].until = p.expiry
    BY <1>1, <1>2, <1>4 DEF Granted
  <2>2. ASSUME NEW i \in DOMAIN tokens'
        PROVE  /\ tokens'[i].grant \in DOMAIN grants' \ revoked'
               /\ grants'[tokens'[i].grant].session = Issued[i].session
               /\ grants'[tokens'[i].grant].until = Issued[i].expires_at
               /\ Issued[i].max_uses # 0 => tokens'[i].use_count <= Issued[i].max_uses
    <3>1. CASE i = k
      BY <1>1, <1>4, <1>6, <1>7, <1>9, <3>1, IssuedShape
    <3>2. CASE i # k
      <4>1. i \in DOMAIN tokens /\ tokens'[i] = tokens[i]
        BY <1>9, <3>2
      <4> QED BY <1>1, <1>2, <1>4, <4>1 DEF Granted
    <3> QED BY <3>1, <3>2
  <2> QED BY <2>1, <2>2 DEF Granted
<1> QED BY <1>10, <1>11, <1>12 DEF IInv

LEMMA PreauthorizeIInv ==
  ASSUME IInv, NEW t \in Threads, NEW session \in Sessions, NEW class \in Classes,
         NEW duration \in Durations, Preauthorize(t, session, class, duration)
  PROVE  IInv'
<1> DEFINE n == Len(grants) + 1
           g == [session |-> session, until |-> now + duration]
           q == [session |-> session, class |-> class, expiry |-> now + duration, grant |-> n]
<1>1. /\ preauth' = preauth \cup {q}
      /\ grants' = Append(grants, g)
      /\ job' = [job EXCEPT ![t] = Idle]
      /\ UNCHANGED <<tokens, now, revoked>>
  BY DEF Preauthorize
<1>2. Shape /\ Granted /\ Ending
  BY DEF IInv
<1>3. g \in Grant /\ now + duration \in Int
  BY <1>2, BoundsAssumption DEF Grant, Shape
<1>4. /\ grants' \in Seq(Grant) /\ Len(grants) \in Nat
      /\ DOMAIN grants = 1..Len(grants) /\ DOMAIN grants' = 1..(Len(grants) + 1)
      /\ \A i \in DOMAIN grants : grants'[i] = grants[i]
      /\ grants'[n] = g
  BY <1>1, <1>2, <1>3, GrantsGrow DEF Shape
<1>5. calls' \in 0..MaxCalls
  BY ReadyCounts DEF Preauthorize, IInv
<1>6. n \in Nat /\ n \in DOMAIN grants' /\ n \notin DOMAIN grants /\ n \notin revoked
  BY <1>2, <1>4 DEF Ending
<1>7. /\ q \in Preauthorization /\ q.grant = n
      /\ g.session = q.session /\ g.until = q.expiry
  BY <1>3, <1>6 DEF Preauthorization
<1> HIDE DEF n, q
<1>8. Shape'
  BY <1>1, <1>2, <1>4, <1>5, <1>7, IdleStands, JobChanges DEF Shape
<1>9. Ending'
  BY <1>1, <1>2, <1>3, <1>7, GrantIsNew DEF n
<1>10. Granted'
  <2>1. ASSUME NEW p \in preauth'
        PROVE  /\ p.grant \in DOMAIN grants' \ revoked'
               /\ grants'[p.grant].session = p.session /\ grants'[p.grant].until = p.expiry
    <3>1. CASE p = q
      BY <1>1, <1>4, <1>6, <1>7, <3>1
    <3>2. CASE p \in preauth
      BY <1>1, <1>2, <1>4, <3>2 DEF Granted
    <3> QED BY <1>1, <3>1, <3>2
  <2>2. ASSUME NEW i \in DOMAIN tokens'
        PROVE  /\ tokens'[i].grant \in DOMAIN grants' \ revoked'
               /\ grants'[tokens'[i].grant].session = Issued[i].session
               /\ grants'[tokens'[i].grant].until = Issued[i].expires_at
               /\ Issued[i].max_uses # 0 => tokens'[i].use_count <= Issued[i].max_uses
    BY <1>1, <1>2, <1>4 DEF Granted
  <2> QED BY <2>1, <2>2 DEF Granted
<1> QED BY <1>8, <1>9, <1>10 DEF IInv

\* All that stands for the session is to be ended, and nothing else is.
LEMMA StandingIsOfSession ==
  ASSUME Granted, NEW session
  PROVE  \A g \in Standing(session) : g \in DOMAIN grants /\ grants[g].session = session
<1>1. ASSUME NEW p \in preauth, p.session = session
      PROVE  p.grant \in DOMAIN grants /\ grants[p.grant].session = session
  BY <1>1 DEF Granted
<1>2. ASSUME NEW k \in DOMAIN tokens, Issued[k].session = session
      PROVE  tokens[k].grant \in DOMAIN grants /\ grants[tokens[k].grant].session = session
  BY <1>2 DEF Granted
<1> QED BY <1>1, <1>2 DEF Standing

LEMMA RevokeSessionIInv ==
  ASSUME IInv, NEW t \in Threads, NEW session \in Sessions, RevokeSession(t, session)
  PROVE  IInv'
<1> DEFINE j == [pc |-> "revoke", session |-> session, ends |-> Standing(session)]
<1>1. /\ preauth' = {p \in preauth : p.session # session}
      /\ job' = [job EXCEPT ![t] = j]
      /\ UNCHANGED <<tokens, now, grants, revoked>>
  BY DEF RevokeSession
<1>2. Shape /\ Granted /\ Ending
  BY DEF IInv
<1>3. calls' \in 0..MaxCalls
  BY ReadyCounts DEF RevokeSession, IInv
<1>4. j.pc = "revoke" /\ j.session = session /\ j.ends = Standing(session)
  OBVIOUS
<1> HIDE DEF j
<1>5. /\ job' = [u \in Threads |-> job'[u]] /\ job'[t] = j
      /\ \A u \in Threads : u # t => job'[u] = job[u]
  BY <1>1, <1>2 DEF Shape
<1>6. Shape'
  <2>1. ASSUME NEW u \in Threads
        PROVE  /\ job'[u].pc \in {"idle", "preauth", "token", "revoke"}
               /\ Asking(u)' =>
                    /\ job'[u] = [pc |-> job'[u].pc, session |-> job'[u].session,
                                  agency |-> job'[u].agency, drs |-> job'[u].drs,
                                  class |-> job'[u].class, token |-> job'[u].token]
                    /\ job'[u].session \in Sessions
               /\ Revoking(u)' => job'[u].session \in Sessions
    <3>1. CASE u = t
      BY <1>4, <1>5, <3>1 DEF Asking, Revoking
    <3>2. CASE u # t
      BY <1>2, <1>5, <3>2 DEF Shape, Asking, Revoking
    <3> QED BY <3>1, <3>2
  <2>2. preauth' \subseteq Preauthorization
    BY <1>1, <1>2 DEF Shape
  <2> QED BY <1>1, <1>2, <1>3, <1>5, <2>1, <2>2 DEF Shape
<1>7. Granted'
  BY <1>1, <1>2 DEF Granted
<1>8. Ending'
  <2>1. ASSUME NEW u \in Threads, Revoking(u)'
        PROVE  /\ \A g \in job'[u].ends :
                    g \in DOMAIN grants' /\ grants'[g].session = job'[u].session
               /\ \A p \in preauth' : p.grant \notin job'[u].ends
    <3>1. CASE u = t
      <4>1. \A g \in Standing(session) : g \in DOMAIN grants /\ grants[g].session = session
        BY <1>2, StandingIsOfSession
      <4>2. ASSUME NEW p \in preauth' PROVE p.grant \notin Standing(session)
        <5>1. p \in preauth /\ p.session # session
          BY <1>1
        <5>2. grants[p.grant].session = p.session
          BY <1>2, <5>1 DEF Granted
        <5> QED BY <4>1, <5>1, <5>2
      <4> QED BY <1>1, <1>4, <1>5, <3>1, <4>1, <4>2
    <3>2. CASE u # t
      BY <1>1, <1>2, <1>5, <2>1, <3>2 DEF Ending, Revoking
    <3> QED BY <3>1, <3>2
  <2>2. revoked' \subseteq DOMAIN grants'
    BY <1>1, <1>2 DEF Ending
  <2> QED BY <2>1, <2>2 DEF Ending
<1> QED BY <1>6, <1>7, <1>8 DEF IInv

\* The tokens that are retained are of other sessions, so that none of them stands on
\* what ends; nor does a pre-authorization.
LEMMA RevokeTokensIInv ==
  ASSUME IInv, NEW t \in Threads, RevokeTokens(t)
  PROVE  IInv'
<1> DEFINE session == job[t].session
           ends == job[t].ends
<1>1. /\ Revoking(t)
      /\ tokens' = [k \in Retained(session) |-> tokens[k]]
      /\ revoked' = revoked \cup ends
      /\ job' = [job EXCEPT ![t] = Idle]
      /\ UNCHANGED <<preauth, now, calls, grants>>
  BY DEF RevokeTokens, Revoking
<1>2. Shape /\ Granted /\ Ending
  BY DEF IInv
<1>3. /\ \A g \in ends : g \in DOMAIN grants /\ grants[g].session = session
      /\ \A p \in preauth : p.grant \notin ends
  BY <1>1, <1>2 DEF Ending
<1>4. /\ DOMAIN tokens' \subseteq DOMAIN tokens
      /\ \A k \in DOMAIN tokens' : tokens'[k] = tokens[k] /\ Issued[k].session # session
      /\ tokens' \in [DOMAIN tokens' -> Registered]
  BY <1>1, <1>2 DEF Retained, Shape
<1>5. ASSUME NEW k \in DOMAIN tokens' PROVE tokens'[k].grant \notin ends
  <2>1. k \in DOMAIN tokens /\ tokens'[k] = tokens[k] /\ Issued[k].session # session
    BY <1>4
  <2>2. grants[tokens[k].grant].session = Issued[k].session
    BY <1>2, <2>1 DEF Granted
  <2> QED BY <1>3, <2>1, <2>2
<1>6. Shape'
  BY <1>1, <1>2, <1>4, IdleStands, JobChanges DEF Shape
<1>7. Granted'
  <2>1. ASSUME NEW k \in DOMAIN tokens'
        PROVE  /\ tokens'[k].grant \in DOMAIN grants' \ revoked'
               /\ grants'[tokens'[k].grant].session = Issued[k].session
               /\ grants'[tokens'[k].grant].until = Issued[k].expires_at
               /\ Issued[k].max_uses # 0 => tokens'[k].use_count <= Issued[k].max_uses
    BY <1>1, <1>2, <1>4, <1>5 DEF Granted
  <2>2. ASSUME NEW p \in preauth'
        PROVE  /\ p.grant \in DOMAIN grants' \ revoked'
               /\ grants'[p.grant].session = p.session /\ grants'[p.grant].until = p.expiry
    BY <1>1, <1>2, <1>3 DEF Granted
  <2> QED BY <2>1, <2>2 DEF Granted
<1>8. Ending'
  <2>1. \A u \in Threads : Revoking(u)' => Revoking(u) /\ job'[u] = job[u]
    BY <1>1, <1>2, IdleStands, JobChanges
  <2>2. revoked' \subseteq DOMAIN grants'
    BY <1>1, <1>2, <1>3 DEF Ending
  <2>3. ASSUME NEW u \in Threads, Revoking(u)'
        PROVE  /\ \A g \in job'[u].ends :
                    g \in DOMAIN grants' /\ grants'[g].session = job'[u].session
               /\ \A p \in preauth' : p.grant \notin job'[u].ends
    BY <1>1, <1>2, <2>1, <2>3 DEF Ending
  <2> QED BY <2>2, <2>3 DEF Ending
<1> QED BY <1>6, <1>7, <1>8 DEF IInv

LEMMA RestIInv ==
  ASSUME IInv, TimePasses \/ UNCHANGED vars
  PROVE  IInv'
<1>1. UNCHANGED <<tokens, preauth, job, calls, grants, revoked>>
  BY DEF TimePasses, vars
<1>2. now' \in 0..MaxNow
  BY BoundsAssumption DEF TimePasses, vars, IInv, Shape
<1>3. \A t \in Threads : Asking(t)' = Asking(t) /\ Revoking(t)' = Revoking(t)
  BY <1>1 DEF Asking, Revoking
<1>4. Shape'
  BY <1>1, <1>2, <1>3 DEF IInv, Shape
<1>5. Granted' /\ Ending'
  BY <1>1, <1>3 DEF IInv, Granted, Ending
<1> QED BY <1>4, <1>5 DEF IInv

LEMMA NextIInv == IInv /\ [Next]_vars => IInv'
<1> SUFFICES ASSUME IInv, [Next]_vars PROVE IInv'
  OBVIOUS
<1>1. ASSUME NEW t \in Threads, IsPreauthorized(t) \/ VerifyToken(t) \/ RevokeTokens(t)
      PROVE  IInv'
  BY <1>1, IsPreauthorizedIInv, VerifyTokenIInv, RevokeTokensIInv
<1>2. ASSUME NEW t \in Threads, NEW session \in Sessions, NEW agency \in Agencies,
             NEW drs \in Risks, NEW class \in Classes, NEW token \in DOMAIN Issued \cup {"none"},
             Evaluate(t, session, agency, drs, class, token)
      PROVE  IInv'
  BY <1>2, EvaluateIInv
<1>3. ASSUME NEW t \in Threads, NEW k \in DOMAIN Issued, RegisterToken(t, k)
      PROVE  IInv'
  BY <1>3, RegisterTokenIInv
<1>4. ASSUME NEW t \in Threads, NEW session \in Sessions, NEW class \in Classes,
             NEW duration \in Durations, Preauthorize(t, session, class, duration)
      PROVE  IInv'
  BY <1>4, PreauthorizeIInv
<1>5. ASSUME NEW t \in Threads, NEW session \in Sessions, RevokeSession(t, session)
      PROVE  IInv'
  BY <1>5, RevokeSessionIInv
<1>6. CASE TimePasses \/ UNCHANGED vars
  BY <1>6, RestIInv
<1> QED BY <1>1, <1>2, <1>3, <1>4, <1>5, <1>6 DEF Next

\* The inductive invariant: whatever is registered or pre-authorized stands on a grant
\* of its session that no finished revocation has ended and no unfinished one is to.
THEOREM Invariance == Spec => []IInv
<1>1. Init => IInv
  BY InitIInv
<1>2. IInv /\ [Next]_vars => IInv'
  BY NextIInv
<1> QED BY <1>1, <1>2, PTL DEF Spec

\* The types, the bounds, and the limits of the tokens.
THEOREM TypeCorrect == Spec => []TypeOK
<1>1. IInv => TypeOK
  <2> SUFFICES ASSUME IInv PROVE TypeOK
    OBVIOUS
  <2>1. Shape /\ Granted /\ Ending
    BY DEF IInv
  <2>2. \A k \in DOMAIN tokens : tokens[k].use_count \in Nat
    BY <2>1 DEF Shape, Registered
  <2>3. \A p \in preauth : p.session \in Sessions /\ p.class \in Classes
    BY <2>1 DEF Shape, Preauthorization
  <2> QED BY <2>1, <2>2, <2>3 DEF TypeOK, Shape, Granted, Ending
<1> QED BY <1>1, Invariance, PTL

-----------------------------------------------------------------------------
(* Authorization.                                                          *)

\* What an authorization of a gated action has to rest on.
Rests(v) ==
  /\ v.grant \in DOMAIN grants \ revoked
  /\ grants[v.grant].session = v.session /\ now <= grants[v.grant].until
  /\ v.outcome = "TokenVerified" /\ Issued[v.token].max_uses # 0 =>
       tokens'[v.token].use_count <= Issued[v.token].max_uses

\* A verdict keeps what the call asked.
LEMMA VerdictShape ==
  ASSUME NEW j, NEW outcome, NEW grant, NEW v, v = Verdict(j, outcome, grant)
  PROVE  /\ v.pc = "idle" /\ v.outcome = outcome /\ v.grant = grant
         /\ v.session = j.session /\ v.token = j.token /\ v.agency = j.agency /\ v.drs = j.drs
BY DEF Verdict

\* By its risk alone a gated action is never let pass.
LEMMA EvaluateGates ==
  ASSUME IInv, NEW t \in Threads, NEW session, NEW agency, NEW drs \in Risks, NEW class,
         NEW token, Evaluate(t, session, agency, drs, class, token)
  PROVE  ~(Authorized(job'[t]) /\ Gated(job'[t]))
<1> DEFINE a == [pc |-> "preauth", session |-> session, agency |-> agency, drs |-> drs,
                 class |-> class, token |-> token]
<1>1. job'[t] = IF Immediate(a) = "open" THEN a ELSE Verdict(a, Immediate(a), 0)
  BY DEF Evaluate, IInv, Shape
<1>2. a.pc = "preauth" /\ a.drs = drs /\ a.agency = agency
  OBVIOUS
<1> HIDE DEF a
<1>3. CASE Immediate(a) = "open"
  BY <1>1, <1>2, <1>3 DEF Authorized
<1>4. CASE Immediate(a) # "open"
  <2>1. /\ job'[t].outcome = Immediate(a) /\ job'[t].agency = agency /\ job'[t].drs = drs
    BY <1>1, <1>2, <1>4, VerdictShape
  <2> SUFFICES ASSUME Authorized(job'[t]), Gated(job'[t]) PROVE FALSE
    OBVIOUS
  <2>2. Immediate(a) = "Authorized" /\ agency \in DOMAIN gate_threshold
        /\ drs >= gate_threshold[agency] /\ drs < constitutional_block_threshold
    <3>1. Immediate(a) \in {"Authorized", "TokenVerified"}
      BY <2>1 DEF Authorized
    <3>2. Immediate(a) = "Authorized" /\ ~(drs >= constitutional_block_threshold)
      <4>1. CASE drs >= constitutional_block_threshold
        <5>1. ~(drs < constitutional_block_threshold)
          BY <4>1, RisksAssumption DEF constitutional_block_threshold
        <5>2. Immediate(a) = "ConstitutionalBlock"
          BY <1>2, <4>1, <5>1 DEF Immediate
        <5> QED BY <3>1, <5>2
      <4>2. CASE ~(drs >= constitutional_block_threshold)
        <5>1. Immediate(a) \in {"Authorized", "open"}
          BY <1>2, <4>2 DEF Immediate
        <5> QED BY <3>1, <4>2, <5>1
      <4> QED BY <4>1, <4>2
    <3>3. agency \in DOMAIN gate_threshold /\ drs >= gate_threshold[agency]
      <4>1. Gated(job'[t])
        OBVIOUS
      <4> QED BY <2>1, <4>1 DEF Gated
    <3>4. drs < constitutional_block_threshold
      BY <3>2, RisksAssumption DEF constitutional_block_threshold
    <3> QED BY <3>2, <3>3, <3>4
  <2>3. drs < gate_threshold[agency]
    BY <1>2, <2>2 DEF Immediate
  <2>4. gate_threshold[agency] \in Nat
    BY <2>2 DEF gate_threshold
  <2> QED BY <2>2, <2>3, <2>4, RisksAssumption
<1> QED BY <1>3, <1>4

\* A pre-authorization that has not expired stands on its grant.
LEMMA PreauthorizedRests ==
  ASSUME IInv, NEW t \in Threads, IsPreauthorized(t), Authorized(job'[t])
  PROVE  Rests(job'[t])
<1> DEFINE a == job[t]
<1>1. Shape /\ Granted /\ a.pc = "preauth" /\ Asking(t)
  BY DEF IInv, IsPreauthorized, Asking
<1>2. CASE \E p \in preauth :
             /\ p.session = a.session /\ p.expiry > now
             /\ job' = [job EXCEPT ![t] = Verdict(a, "Authorized", p.grant)]
  <2>1. PICK p \in preauth :
             /\ p.session = a.session /\ p.expiry > now
             /\ job' = [job EXCEPT ![t] = Verdict(a, "Authorized", p.grant)]
    BY <1>2
  <2>2. /\ job'[t].grant = p.grant /\ job'[t].session = a.session
        /\ job'[t].outcome = "Authorized"
    <3>1. job'[t] = Verdict(a, "Authorized", p.grant)
      BY <1>1, <2>1 DEF Shape
    <3> QED BY <3>1, VerdictShape
  <2>3. /\ p.grant \in DOMAIN grants \ revoked
        /\ grants[p.grant].session = a.session /\ grants[p.grant].until = p.expiry
        /\ p.expiry \in Int /\ now \in Int
    BY <1>1, <2>1, BoundsAssumption DEF Granted, Shape, Preauthorization
  <2> QED BY <2>1, <2>2, <2>3 DEF Rests
<1>3. CASE job' = [job EXCEPT ![t] = Verdict(a, "GateRequired", 0)]
  <2>1. job'[t].outcome = "GateRequired"
    <3>1. job'[t] = Verdict(a, "GateRequired", 0)
      BY <1>1, <1>3 DEF Shape
    <3> QED BY <3>1, VerdictShape
  <2> QED BY <2>1 DEF Authorized
<1>4. CASE job' = [job EXCEPT ![t] = [a EXCEPT !.pc = "token"]]
  <2>1. job'[t].pc = "token"
    <3>1. a = [pc |-> a.pc, session |-> a.session, agency |-> a.agency, drs |-> a.drs,
               class |-> a.class, token |-> a.token]
      BY <1>1 DEF Shape
    <3>2. job'[t] = [a EXCEPT !.pc = "token"]
      BY <1>1, <1>4 DEF Shape
    <3> HIDE DEF a
    <3> QED BY <3>1, <3>2
  <2> QED BY <2>1 DEF Authorized
<1> QED BY <1>2, <1>3, <1>4 DEF IsPreauthorized, Live

\* A token that is accepted stands on its grant, and is within its limit with this use.
LEMMA TokenRests ==
  ASSUME IInv, NEW t \in Threads, VerifyToken(t), Authorized(job'[t])
  PROVE  Rests(job'[t])
<1> DEFINE a == job[t]
           k == a.token
<1>1. Shape /\ Granted /\ a.pc = "token"
  BY DEF IInv, VerifyToken
<1>2. CASE k \in DOMAIN tokens /\ Accepts(k, a.session, a.agency)
           /\ job' = [job EXCEPT ![t] = Verdict(a, "TokenVerified", tokens[k].grant)]
  <2>1. /\ job'[t].grant = tokens[k].grant /\ job'[t].session = a.session /\ job'[t].token = k
    <3>1. job'[t] = Verdict(a, "TokenVerified", tokens[k].grant)
      BY <1>1, <1>2 DEF Shape
    <3> QED BY <3>1, VerdictShape
  <2>2. /\ tokens[k].grant \in DOMAIN grants \ revoked
        /\ grants[tokens[k].grant].session = Issued[k].session
        /\ grants[tokens[k].grant].until = Issued[k].expires_at
        /\ k \in DOMAIN Issued
    BY <1>1, <1>2 DEF Granted, Shape
  <2>3. Issued[k].session = a.session /\ ~(now > Issued[k].expires_at)
    BY <1>2 DEF Accepts, is_expired
  <2>4. now \in Int /\ Issued[k].expires_at \in Nat
    BY <1>1, <2>2, IssuedShape, BoundsAssumption DEF Shape
  <2>5. Granted' /\ k \in DOMAIN tokens'
    <3>1. tokens' = [tokens EXCEPT ![k].use_count = @ + 1] \/ tokens' = tokens
      BY DEF VerifyToken
    <3>2. DOMAIN tokens' = DOMAIN tokens
      <4> HIDE DEF k
      <4> QED BY <3>1
    <3>3. Granted'
      BY VerifyTokenIInv DEF IInv
    <3> QED BY <1>2, <3>2, <3>3
  <2>6. Issued[k].max_uses # 0 => tokens'[k].use_count <= Issued[k].max_uses
    BY <2>5 DEF Granted
  <2> QED BY <2>1, <2>2, <2>3, <2>4, <2>6 DEF Rests
<1>3. CASE job' = [job EXCEPT ![t] = Verdict(a, "TokenRejected", 0)]
  <2>1. job'[t].outcome = "TokenRejected"
    <3>1. job'[t] = Verdict(a, "TokenRejected", 0)
      BY <1>1, <1>3 DEF Shape
    <3> QED BY <3>1, VerdictShape
  <2> QED BY <2>1 DEF Authorized
<1> QED BY <1>2, <1>3 DEF VerifyToken

\* The calls of the operator authorize nothing themselves.
LEMMA OperatorAuthorizesNothing ==
  ASSUME IInv, NEW t \in Threads,
         \/ RevokeTokens(t)
         \/ \E k \in DOMAIN Issued : RegisterToken(t, k)
         \/ \E session \in Sessions, class \in Classes, duration \in Durations :
              Preauthorize(t, session, class, duration)
         \/ \E session \in Sessions : RevokeSession(t, session)
  PROVE  ~Authorized(job'[t]) /\ \A u \in Threads : u # t => job'[u] = job[u]
<1>1. job = [u \in Threads |-> job[u]]
  BY DEF IInv, Shape
<1>2. CASE job' = [job EXCEPT ![t] = Idle]
  BY <1>1, <1>2 DEF Authorized
<1>3. CASE \E session, ends :
             job' = [job EXCEPT ![t] = [pc |-> "revoke", session |-> session, ends |-> ends]]
  BY <1>1, <1>3 DEF Authorized
<1> QED BY <1>2, <1>3 DEF RevokeTokens, RegisterToken, Preauthorize, RevokeSession

\* haap.rs:321 "All authorizations revoked": an action that needs a human is let pass
\* only on what the operator has granted to its session, within its time and its number
\* of uses, and never on what a finished revoke_session has ended.
THEOREM AuthorizedOnStandingGrantCorrect == Spec => AuthorizedOnStandingGrant
<1> DEFINE Standing_(t) ==
             job'[t] # job[t] /\ Authorized(job'[t]) /\ Gated(job'[t]) => Rests(job'[t])
<1>1. IInv /\ [Next]_vars => [\A t \in Threads : Standing_(t)]_vars
  <2> SUFFICES ASSUME IInv, Next, NEW u \in Threads,
                      job'[u] # job[u], Authorized(job'[u]), Gated(job'[u])
               PROVE  Rests(job'[u])
    OBVIOUS
  <2>0. job = [t \in Threads |-> job[t]]
    BY DEF IInv, Shape
  <2>1. ASSUME NEW t \in Threads, IsPreauthorized(t) PROVE Rests(job'[u])
    <3>1. u = t
      BY <2>0, <2>1 DEF IsPreauthorized
    <3> QED BY <2>1, <3>1, PreauthorizedRests
  <2>2. ASSUME NEW t \in Threads, VerifyToken(t) PROVE Rests(job'[u])
    <3>1. u = t
      BY <2>0, <2>2 DEF VerifyToken
    <3> QED BY <2>2, <3>1, TokenRests
  <2>3. ASSUME NEW t \in Threads, NEW session \in Sessions, NEW agency \in Agencies,
               NEW drs \in Risks, NEW class \in Classes, NEW token \in DOMAIN Issued \cup {"none"},
               Evaluate(t, session, agency, drs, class, token)
        PROVE  Rests(job'[u])
    <3>1. u = t
      BY <2>0, <2>3 DEF Evaluate
    <3> QED BY <2>3, <3>1, EvaluateGates
  <2>4. ASSUME NEW t \in Threads,
               \/ RevokeTokens(t)
               \/ \E k \in DOMAIN Issued : RegisterToken(t, k)
               \/ \E session \in Sessions, class \in Classes, duration \in Durations :
                    Preauthorize(t, session, class, duration)
               \/ \E session \in Sessions : RevokeSession(t, session)
        PROVE  Rests(job'[u])
    BY <2>4, OperatorAuthorizesNothing
  <2>5. CASE TimePasses
    BY <2>5 DEF TimePasses
  <2> QED BY <2>1, <2>2, <2>3, <2>4, <2>5 DEF Next
<1>2. [][\A t \in Threads : Standing_(t)]_vars => AuthorizedOnStandingGrant
  BY PTL DEF AuthorizedOnStandingGrant, Rests
<1> HIDE DEF Standing_
<1>3. Spec => [][\A t \in Threads : Standing_(t)]_vars
  BY <1>1, Invariance, PTL DEF Spec
<1> QED BY <1>2, <1>3, PTL

=============================================================================
