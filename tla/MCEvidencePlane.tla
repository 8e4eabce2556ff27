--------------------------- MODULE MCEvidencePlane --------------------------
(***************************************************************************)
(* An instance of EvidencePlane; payloads and keys are only compared, so   *)
(* that permuting them changes nothing.                                    *)
(***************************************************************************)
EXTENDS EvidencePlane, TLC

Symmetric == Permutations(Payloads) \cup Permutations(Keys)
=============================================================================
