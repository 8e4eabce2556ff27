-------------------------- MODULE MCSessionMemory --------------------------
(***************************************************************************)
(* Instances of SessionMemory. The thresholds are those of                 *)
(* MemoryConfig::default; the history keeps fewer turns than the code's 20.*)
(***************************************************************************)
EXTENDS SessionMemory

Signal(severity, confidence, amplifier) ==
  [severity |-> severity, confidence |-> confidence, amplifier |-> amplifier]

\* Nothing; a threat of 180; one of 1200; and one of a class that is amplified.
AllSignals == {Signal("None", 0, 0), Signal("Medium", 30, 0), Signal("Critical", 80, 0),
               Signal("Low", 50, 4000)}

\* A signal without amplifier, and none.
FewSignals == {Signal("None", 0, 0), Signal("Medium", 30, 0)}
=============================================================================
