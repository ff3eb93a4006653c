--------------------------- MODULE MCLaneRunStatus ---------------------------
(* TLC instance of LaneRunStatus. *)
EXTENDS LaneRunStatus, TLC

CONSTANTS i1, i2

(* One item that is attempted twice, and one other. *)
Attempts == i1 :> 2 @@ i2 :> 1

(* Of what has held of the watched item, a report shows this much.          *)
HeldView ==
  <<{fact.state : fact \in held}, {fact.verification : fact \in held},
    \E fact \in held : fact.blocker,
    \E fact \in held :
      fact.state = "queued" /\ fact.verification = "not-started" /\ ~fact.blocker>>

(* What the rest of a reading, and the next one, can still depend on: a    *)
(* record that was read only until its lock is, and of an item that was    *)
(* not asked about only that it was; the class of an item only if it is    *)
(* asked about, and is or was read as queued (a new attempt may take       *)
(* either, and every class is met between two readings); what is shown till*)
(* the plan is made of it; the history only until the watched item is      *)
(* shown and that is found to have held (more history cannot change that); *)
(* nothing of the reading when its next step is to fail; and neither the   *)
(* last call nor its report once it is given.                              *)
Unread ==
  [i \in Item |->
    IF ~(at \in {"records", "audit"} \/ (at = "locks" /\ i \in todo)) THEN NoFiles.record
    ELSE IF call.target \in {NoItem, i} \/ seen[i].seq = 0 THEN seen[i]
    ELSE [NoFiles.record EXCEPT !.seq = 1]]

Classes == [i \in Item |-> IF /\ "queued" \in {files[i].record.status, seen[i].status}
                              /\ at = "idle" \/ call.target \in {NoItem, i}
                           THEN class[i] ELSE "either"]

Planning == at \in {"customers", "owner"}

Settled == /\ Planning \/ (at = "locks" /\ call.watched \notin todo)
           /\ HeldOnce(shown[call.watched])

Failing == replaced # {} /\ at \in {"records", "audit"}

Memory ==
  <<files, Classes, at, open, replaced, moved, moves,
    IF Failing THEN <<>> ELSE <<todo, Unread>>,
    IF Failing \/ (Settled /\ Planning) THEN <<>> ELSE shown,
    IF Failing \/ Settled THEN {} ELSE HeldView,
    IF at = "idle" THEN <<>> ELSE IF Failing THEN call.watched ELSE <<call, report>> >>
=============================================================================
