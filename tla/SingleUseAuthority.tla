------------------------- MODULE SingleUseAuthority -------------------------
(***************************************************************************)
(* What capability.rs promises, without a store: for every transaction and *)
(* authority (a key) there is one grant, fixed by the first request; it is *)
(* turned into one capability, which is spent on an effect the grant       *)
(* allows, once, or lapses.                                                *)
(***************************************************************************)
EXTENDS Sequences

CONSTANTS Keys, Grants, Effects,
          Allowed,   \* the pairs <<grant, effect>> in which the grant covers the effect
          NoGrant

VARIABLES bound, phase, performed

Init ==
  /\ bound = [k \in Keys |-> NoGrant]
  /\ phase = [k \in Keys |-> "unclaimed"]
  /\ performed = <<>>

\* The first valid request for a key fixes what it may be used for.
Bind(k, g) ==
  /\ phase[k] = "unclaimed"
  /\ phase' = [phase EXCEPT ![k] = "bound"]
  /\ bound' = [bound EXCEPT ![k] = g]
  /\ UNCHANGED performed

Grant(k) ==
  /\ phase[k] = "bound"
  /\ phase' = [phase EXCEPT ![k] = "granted"]
  /\ UNCHANGED <<bound, performed>>

Perform(k, e) ==
  /\ phase[k] = "granted"
  /\ <<bound[k], e>> \in Allowed
  /\ phase' = [phase EXCEPT ![k] = "spent"]
  /\ performed' = Append(performed, <<k, e>>)
  /\ UNCHANGED bound

\* A capability nobody spent in time may disappear, several at once.
Lapse(K) ==
  /\ \A k \in K : phase[k] = "granted"
  /\ phase' = [k \in Keys |-> IF k \in K THEN "lapsed" ELSE phase[k]]
  /\ UNCHANGED <<bound, performed>>

Next ==
  \/ \E k \in Keys : \E g \in Grants : Bind(k, g)
  \/ \E k \in Keys : Grant(k)
  \/ \E k \in Keys : \E e \in Effects : Perform(k, e)
  \/ \E K \in SUBSET Keys : Lapse(K)

Spec == Init /\ [][Next]_<<bound, phase, performed>>
=============================================================================
