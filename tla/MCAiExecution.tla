---------------------------- MODULE MCAiExecution ----------------------------
(* Small instances of AiExecution for TLC.                                 *)
EXTENDS AiExecution, TLC

Symmetry == Permutations(Workers) \cup Permutations(Machines)
                \cup Permutations(RawKeys) \cup Permutations(Configs)
=============================================================================
