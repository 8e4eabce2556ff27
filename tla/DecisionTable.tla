--------------------------- MODULE DecisionTable ---------------------------
(***************************************************************************)
(* The table by which the Arbiter of arbiter.rs turns the signal of a      *)
(* layer into a security state, 1 (S1) to 4 (S4): determine_new_state, and *)
(* the same table with scaled thresholds in process_with_modifier. A       *)
(* signal is a severity, a confidence in percent and the threshold         *)
(* modifier in percent it is processed with: 100 leaves the thresholds     *)
(* alone, 0 means the session memory says lock.                            *)
(***************************************************************************)
EXTENDS Integers

CONSTANTS Medium, High, Critical   \* the confidence thresholds of ArbiterConfig, in percent

ASSUME ThresholdsAssumption ==
  /\ Medium \in Nat /\ High \in Nat /\ Critical \in Nat
  /\ Medium <= High /\ High <= Critical

SecurityState == 1..4

\* What a layer reports.
Severity == {"None", "Low", "Medium", "High", "Critical"}
GovernanceSignal == [severity : Severity, confidence : 0..100]

\* The signal, with the modifier it is processed with.
ModifiedSignal == [severity : Severity, confidence : 0..100, modifier : 0..100]

is_clean(sig) == sig.severity = "None"

\* Variant with a fault: the modifier scales the confidence instead of the threshold.
Meets_ScalesConfidence(sig, threshold) == sig.confidence * sig.modifier >= threshold * 100

Meets(sig, threshold) == sig.confidence * 100 >= threshold * sig.modifier

\* The state the signal calls for by itself.
Warranted(sig) ==
  IF sig.modifier = 0 THEN 4
  ELSE IF sig.severity = "Critical" /\ Meets(sig, Critical) THEN 4
  ELSE IF sig.severity \in {"High", "Critical"} /\ Meets(sig, High) THEN 3
  ELSE IF sig.severity \in {"Medium", "High"} /\ Meets(sig, Medium) THEN 2
  ELSE 1

determine_new_state(current, sig) ==
  IF Warranted(sig) > current THEN Warranted(sig) ELSE current
=============================================================================
