----------------------------- MODULE MCRecovery -----------------------------
(* Small instances of Recovery for TLC.                                    *)
EXTENDS Recovery, TLC

Symmetry == Permutations(Users) \cup Permutations(Loops) \cup Permutations(Conns \ {Main})

=============================================================================
