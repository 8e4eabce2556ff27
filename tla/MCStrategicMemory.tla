-------------------------- MODULE MCStrategicMemory -------------------------
(***************************************************************************)
(* An instance of StrategicMemory; threads and behavior hashes are only    *)
(* compared, so that permuting them changes nothing.                       *)
(***************************************************************************)
EXTENDS StrategicMemory

Symmetric == Permutations(Threads) \cup Permutations(Hashes)
=============================================================================
