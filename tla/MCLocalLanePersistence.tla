----------------------- MODULE MCLocalLanePersistence ------------------------
(* TLC instances of LocalLanePersistence. *)
EXTENDS LocalLanePersistence, TLC

CONSTANTS a, b, s, k

(* What a process that has ended noted for itself is never read again; the *)
(* properties look at how far it came and whether it was blocked.          *)
Remembered(p) ==
  IF pc[p] \in Settled
  THEN [far |-> my[p].at >= 3, blocked |-> my[p].blocked]
  ELSE [my |-> my[p], wrote |-> wrote[p], existed |-> existed[p]]

Memory == <<dir, marker, pc, [p \in Proc |-> Remembered(p)],
            evidence, laneState, hurt>>

Overlapping == Permutations({a, b})
=============================================================================
