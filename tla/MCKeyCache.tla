------------------------------ MODULE MCKeyCache ------------------------------
(* Small instances of KeyCache for TLC.                                    *)
EXTENDS KeyCache, TLC

Symmetry == Permutations(Threads)
=============================================================================
