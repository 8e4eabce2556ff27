------------------------------ MODULE MCServer ------------------------------
(***************************************************************************)
(* Instances of Server with OverWatchConfig::default, drift_threshold 0.65 *)
(* and q09_threshold 2, two slots, and less than 20 tools and 5 suspicions *)
(* at the limits of the two rules that have no setting.                    *)
(***************************************************************************)
EXTENDS Server

Requests == 1..MaxRequests

\* A suspicious command with a drift of which three pass the threshold; one of three
\* Q09 families that names a chain of tools.
Texts ==
  {[NoText EXCEPT !.drift = 250, !.suspicious = TRUE, !.cmd = TRUE],
   [NoText EXCEPT !.families = 3, !.tools = {"read_file", "write_file", "shell"},
                  !.stateless = {"DATA_POISONING_INDICATOR"}]}
=============================================================================
