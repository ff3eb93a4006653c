------------------------- MODULE MCLaneMutationLock --------------------------
(* TLC instances of LaneMutationLock. *)
EXTENDS LaneMutationLock, TLC

Symmetry == Permutations(Call) \cup Permutations(Ino)
=============================================================================
