--------------------------- MODULE MCLaneRunSystem ---------------------------
(* TLC instances of LaneRunSystem. *)
EXTENDS LaneRunSystem, TLC

Symmetry == Permutations(Proc) \cup Permutations(Run) \cup Permutations(Ino)
=============================================================================
