----------------------------- MODULE LaneRunFiles ----------------------------
(***************************************************************************)
(* What the queue record and the lane-run lock of one work item go through *)
(* as seen from outside: the pair of files, and what it can become by one  *)
(* write of one operation.  LaneRunStore implements it; the readers of     *)
(* LaneRunStatus, who look at the files of several work items without any  *)
(* lock, are modelled over it.                                             *)
(***************************************************************************)
EXTENDS Naturals

Terminal == {"completed", "revoked", "superseded"}

(* Sequence number 0: no such file.  A lock names its record by number. *)
Record == [seq : Nat, status : {"none", "queued"} \cup Terminal, blocker : BOOLEAN]
Lock == [seq : Nat, status : {"none", "active"} \cup Terminal]
Files == [record : Record, lock : Lock]

NoFiles == [record |-> [seq |-> 0, status |-> "none", blocker |-> FALSE],
            lock |-> [seq |-> 0, status |-> "none"]]

(* Wrong: only a lock on the record's own attempt makes it stale. *)
StaleOnlyIfOwn(q, l) == l.status \in Terminal /\ l.seq = q.seq

(* isStaleQueueRecordForTerminalLock *)
Stale(q, l) == l.status \in Terminal /\ l.seq >= q.seq

Active(f) == f.lock.status = "active"

(* The lock was closed in front of a record that still says queued. *)
Torn(f) == /\ f.lock.status \in Terminal /\ f.lock.seq = f.record.seq
           /\ f.record.status = "queued"

-----------------------------------------------------------------------------
(* One write.                                                              *)

Provided(guard, S) == {f \in S : guard}

WithRecord(f, seq, status, blockers) ==
  {[record |-> [seq |-> seq, status |-> status, blocker |-> b], lock |-> f.lock] : b \in blockers}

WithLock(f, seq, statuses) ==
  {[record |-> f.record, lock |-> [seq |-> seq, status |-> s]] : s \in statuses}

(* enqueue, retry and requeue: the next attempt. *)
Opened(f) == Provided(~Active(f), WithRecord(f, f.record.seq + 1, "queued", BOOLEAN))

(* claim: the lock on the queued record. *)
Claimed(f) ==
  Provided(f.record.status = "queued" /\ ~Stale(f.record, f.lock) /\ ~Active(f),
           WithLock(f, f.record.seq, {"active"}))

(* complete and stop: the lock is closed first ... *)
Closed(f) == Provided(Active(f), WithLock(f, f.lock.seq, Terminal))

(* ... then its record, which loses its blocker only when it is stopped;   *)
Recorded(f) ==
  Provided(Torn(f),
           WithRecord(f, f.record.seq, f.lock.status,
                      IF f.lock.status = "revoked" THEN {FALSE, f.record.blocker}
                                                   ELSE {f.record.blocker}))

(* or the lock is restored, when the record could not be written.          *)
Reopened(f) == Provided(Torn(f), WithLock(f, f.lock.seq, {"active"}))

(* stop, of a blocked record that was never claimed. *)
Withdrawn(f) ==
  Provided(f.record.status = "queued" /\ f.record.blocker /\ f.lock.status = "none",
           WithRecord(f, f.record.seq, "revoked", {FALSE}))

Successors(f) ==
  UNION {Opened(f), Claimed(f), Closed(f), Recorded(f), Reopened(f), Withdrawn(f)}
=============================================================================
