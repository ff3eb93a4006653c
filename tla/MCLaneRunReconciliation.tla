----------------------- MODULE MCLaneRunReconciliation -----------------------
(* TLC instances of LaneRunReconciliation. *)
EXTENDS LaneRunReconciliation, TLC

CONSTANTS r1, r2

(* Everything in place, and nothing in place with a fact of a blocked run. *)
SomeObservations ==
  {[missing |-> {}, facts |-> {}],
   [missing |-> Surface, facts |-> {"blocked"}]}

LaneRuns == Permutations({r1, r2})

(* The properties look at a report only as long as no file has changed, and *)
(* of its mismatches only at these and at whether there are any.            *)
Telling == {"stale-lock", "missing-queue-record", "lock-queue-record-mismatch",
            "lane-run-target-mismatch", "lane-run-ownership-unverified",
            "malformed-lane-state"}

Told == <<recon.report.run, recon.report.named,
          recon.report.kinds \cap Telling, recon.report.kinds = {}>>

(* A report depends on the record's status, on the lane run that closed it, *)
(* and on whether the lock has the number of the record or of the one       *)
(* before.  Nothing that was read matters once the read is to fail, or once *)
(* a file has changed and every lane run is among the owners: no property   *)
(* looks at such a report.                                                  *)
Closer(q) == IF q.status \in Terminal THEN q.ended[q.status] ELSE NoRun

ReadSoFar ==
  IF recon.at = "lock" THEN <<recon.q.seq, recon.q.prev>>
  ELSE <<Exists(recon.q), recon.l.seq = recon.q.seq, SameContext, Exists(recon.l),
         recon.l.run, recon.l.status>>

Reading ==
  IF handle = "replaced" \/ (moved /\ owners = Run) THEN <<"failing">>
  ELSE IF recon.at = "record" THEN <<"record", moved, owners>>
  ELSE <<recon.at, handle, moved, owners, recon.q.status, Closer(recon.q), ReadSoFar>>

Reconciliation ==
  IF Fresh THEN Told ELSE IF recon.at = "reported" THEN <<"idle">> ELSE Reading

(* No step depends on the history of faults. *)
Memory == <<queue, lock, laneRun, task, Reconciliation>>
=============================================================================
