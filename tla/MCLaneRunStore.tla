--------------------------- MODULE MCLaneRunStore ----------------------------
(* TLC instance of LaneRunStore. *)
EXTENDS LaneRunStore, TLC

Symmetry == Permutations(Proc) \cup Permutations(Run)
=============================================================================
