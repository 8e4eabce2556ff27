------------------------ MODULE MCInspectionPipeline ------------------------
(***************************************************************************)
(* Instances of InspectionPipeline with the thresholds of                  *)
(* ArbiterConfig::default, 70, 80 and 90 percent, and govmem's default     *)
(* block threshold of 70 percent.                                          *)
(***************************************************************************)
EXTENDS InspectionPipeline, TLC

Signal(severity, confidence) == [severity |-> severity, confidence |-> confidence]

\* A clean signal; one that warrants S2 only under a tightened threshold; one that
\* warrants S3 and one that warrants S4.
AllSignals == {Signal("None", 100), Signal("Medium", 60), Signal("High", 80),
               Signal("Critical", 95)}

ThreadSymmetry == Permutations(Threads)
=============================================================================
