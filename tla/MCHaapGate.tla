---------------------------- MODULE MCHaapGate ----------------------------
(***************************************************************************)
(* Instances of HaapGate: tokens of two sessions, one serves only once.    *)
(***************************************************************************)
EXTENDS HaapGate

Token(session, agency_ceiling, expires_at, max_uses, signed) ==
  [session |-> session, agency_ceiling |-> agency_ceiling, expires_at |-> expires_at,
   max_uses |-> max_uses, signed |-> signed]

TwoTokens ==
  [k \in {"k1", "k2"} |->
     IF k = "k1" THEN Token("s1", ExecuteActions, 1, 1, TRUE)
     ELSE Token("s2", RootAuthority, 2, 0, TRUE)]
=============================================================================
