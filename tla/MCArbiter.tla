----------------------------- MODULE MCArbiter -----------------------------
(***************************************************************************)
(* Instances of Arbiter with the thresholds of ArbiterConfig::default, 70, *)
(* 80 and 90 percent, and the modifiers of SessionMemory.                  *)
(***************************************************************************)
EXTENDS Arbiter

Signal(severity, confidence, modifier) ==
  [severity |-> severity, confidence |-> confidence, modifier |-> modifier]

\* For the interleavings: signals that warrant S3 and S4, and a clean one.
FewSignals ==
  {Signal("None", 100, 100), Signal("High", 55, 65),
   Signal("Low", 10, 0)}

\* For the decision table: every severity, confidences at and below each
\* threshold, and every modifier.
AllSignals ==
  [severity : Severity,
   confidence : {27, 28, 31, 32, 69, 70, 79, 80, 89, 90},
   modifier : {0, 40, 65, 85, 100}]
=============================================================================
