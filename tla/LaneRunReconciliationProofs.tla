--------------------- MODULE LaneRunReconciliationProofs ----------------------
(***************************************************************************)
(* Theorems about LaneRunReconciliation, for any sets of processes, lane   *)
(* runs and observations.  They rest on the invariant of LaneRunStore,     *)
(* which holds whatever the reader does in between.                        *)
(***************************************************************************)
EXTENDS LaneRunReconciliation, LaneRunStoreProofs

-----------------------------------------------------------------------------
(* What reconciliation relies on in the files.                             *)

(* A lock names a lane run, and a record that was closed without ever      *)
(* having had a lock was revoked.                                          *)
LockNamesRun == HasLock => lock.run \in Run
AloneIsRevoked == queue.status \in Terminal /\ ~HasLock => queue.status = "revoked"

FInv == IInv /\ LockNamesRun /\ AloneIsRevoked

(* A task with something to write has its process's plan.                  *)
LEMMA PlanOf ==
  ASSUME IInv, NEW p \in Proc
  PROVE  PlanFits(task[p]) /\ task[p] \in Task
BY DEF IInv, PlansFitTheFiles, TypeOK

LEMMA FilesKeep == FInv /\ [Next]_storeVars => FInv'
<1> SUFFICES ASSUME FInv, [Next]_storeVars PROVE FInv'
  OBVIOUS
<1>1. IInv /\ IInv'
  BY StepKeeps DEF FInv
<1>2. CASE UNCHANGED <<queue, lock>>
  BY <1>1, <1>2 DEF FInv, LockNamesRun, AloneIsRevoked, HasLock
<1>3. ASSUME NEW p \in Proc, WriteLock(p) PROVE FInv'
  <2>1. PlanFits(task[p]) /\ task[p].at = "lock" /\ lock' = task[p].lock /\ queue' = queue
    BY <1>1, <1>3, PlanOf DEF WriteLock
  <2>2. lock'.run \in Run /\ lock'.status # "none"
    <3>1. CASE task[p].queue.seq = 0
      BY <2>1, <3>1 DEF PlanFits
    <3>2. CASE task[p].queue.seq # 0
      BY <2>1, <3>2 DEF PlanFits, FInv, LockNamesRun, HasLock, Active, Terminal
    <3> QED
      BY <3>1, <3>2
  <2> QED
    BY <1>1, <2>2 DEF FInv, LockNamesRun, AloneIsRevoked, HasLock
<1>4. ASSUME NEW p \in Proc, WriteQueue(p) PROVE FInv'
  <2>1. PlanFits(task[p]) /\ task[p].at = "queue" /\ queue' = task[p].queue /\ lock' = lock
    BY <1>1, <1>4, PlanOf DEF WriteQueue
  <2>2. ASSUME queue'.status \in Terminal, ~HasLock PROVE queue'.status = "revoked"
    <3>1. CASE task[p].undo.seq = 0
      BY <2>1, <2>2, <3>1 DEF PlanFits, OpensNext, Withdraws, Terminal
    <3>2. CASE task[p].undo.seq # 0
      BY <2>1, <2>2, <3>2 DEF PlanFits, HalfClosed, HasLock, Terminal
    <3> QED
      BY <3>1, <3>2
  <2> QED
    BY <1>1, <2>1, <2>2 DEF FInv, LockNamesRun, AloneIsRevoked, HasLock
<1>5. ASSUME NEW p \in Proc, Rollback(p) PROVE FInv'
  <2>1. PlanFits(task[p]) /\ task[p].at = "undo" /\ lock' = task[p].undo /\ queue' = queue
    BY <1>1, <1>5, PlanOf DEF Rollback
  <2>2. lock'.run = lock.run /\ HasLock /\ lock'.status # "none"
    BY <2>1 DEF PlanFits, HalfClosed, HasLock, Terminal
  <2> QED
    BY <1>1, <2>1, <2>2 DEF FInv, LockNamesRun, AloneIsRevoked, HasLock
<1> QED
  BY <1>2, <1>3, <1>4, <1>5, OnlyWritesTouchFiles

-----------------------------------------------------------------------------
(* What a report says of the files as they are.                            *)

(* Everything was read from the files as they are now.                     *)
ReadNow(v) ==
  /\ v.q = Seen(queue) /\ v.l = lock /\ v.t \in RunOrNone
  /\ lock.seq = queue.seq => v.same = TRUE
  /\ v.run = Target(v) /\ v.file = FileOf(v.run)

CanBeStopped(r) == lock.run = r /\ Active /\ queue.seq = lock.seq /\ laneRun[r] # "malformed"

(* No false alarm, and advice that can be followed.                        *)
Vouched(rep) ==
  /\ "lock-queue-record-mismatch" \notin rep.kinds
  /\ "missing-queue-record" \in rep.kinds => ~HasLock
  /\ "malformed-lane-state" \in rep.kinds => \E r \in Run : laneRun[r] = "malformed"
  /\ ~rep.named => rep.kinds \cap {"lane-run-target-mismatch",
                                   "lane-run-ownership-unverified"} = {}
  /\ "stale-lock" \in rep.kinds => CanBeStopped(rep.run)
  /\ rep.kinds = {} /\ ~Torn =>
       /\ Active => CanBeStopped(rep.run)
       /\ queue.status \in Terminal => MayLink(rep.run, IF HasLock THEN "retry" ELSE "requeue")

LEMMA SeenFields ==
  ASSUME NEW q
  PROVE  /\ Seen(q).seq = q.seq /\ Seen(q).status = q.status
         /\ Seen(q).prev = q.prev /\ Seen(q).ended = q.ended
BY DEF Seen

(* The kinds of a report on a readable lane run state.                     *)
LEMMA KindsOf ==
  ASSUME NEW v, v.file # "malformed"
  PROVE  /\ "missing-queue-record" \in Report(v).kinds <=> ~Exists(v.q)
         /\ "lock-queue-record-mismatch" \in Report(v).kinds <=> NamesAnotherRecord(v)
         /\ "lane-run-target-mismatch" \in Report(v).kinds <=>
              Holds(v) /\ LockSpeaks(v) /\ v.t \notin {NoRun, v.l.run}
         /\ "lane-run-ownership-unverified" \in Report(v).kinds <=>
              \/ Drifted(v)
              \/ v.t # NoRun /\ ~Holds(v) /\ ~Known(v)
              \/ Rejected(v) /\ (Exists(v.q) => v.file # "foreign")
         /\ "stale-lock" \in Report(v).kinds <=> Holds(v) /\ ~Shown(v) /\ ~Rejected(v)
         /\ "missing-lane-state" \in Report(v).kinds <=> LeftNothing(v)
         /\ "malformed-lane-state" \notin Report(v).kinds
<1>1. Report(v).kinds = {k \in Kind : IsMismatch(k, v)}
  BY DEF Report
<1>2. \A k \in Kind : k \in Report(v).kinds <=> IsMismatch(k, v)
  BY <1>1
<1>3. {"missing-queue-record", "lock-queue-record-mismatch", "lane-run-target-mismatch",
       "lane-run-ownership-unverified", "stale-lock", "missing-lane-state",
       "malformed-lane-state"} \subseteq Kind
  BY DEF Kind
<1>4. /\ IsMismatch("missing-queue-record", v) <=> ~Exists(v.q)
      /\ IsMismatch("lock-queue-record-mismatch", v) <=> NamesAnotherRecord(v)
      /\ IsMismatch("lane-run-target-mismatch", v) <=>
           Holds(v) /\ LockSpeaks(v) /\ v.t \notin {NoRun, v.l.run}
      /\ IsMismatch("lane-run-ownership-unverified", v) <=>
           \/ Drifted(v)
           \/ v.t # NoRun /\ ~Holds(v) /\ ~Known(v)
           \/ Rejected(v) /\ (Exists(v.q) => v.file # "foreign")
      /\ IsMismatch("stale-lock", v) <=> Holds(v) /\ ~Shown(v) /\ ~Rejected(v)
      /\ IsMismatch("missing-lane-state", v) <=> LeftNothing(v)
      /\ ~IsMismatch("malformed-lane-state", v)
  BY DEF IsMismatch
<1> QED
  BY <1>2, <1>3, <1>4

(* A malformed lane run state is reported alone.                           *)
LEMMA MalformedKinds ==
  ASSUME NEW v, v.file = "malformed"
  PROVE  Report(v).kinds = {"malformed-lane-state"}
BY DEF Report

LEMMA ReportFields ==
  ASSUME NEW v
  PROVE  /\ Report(v).run = v.run /\ Report(v).named = (v.t # NoRun)
         /\ Report(v).shown = (v.file # "malformed" /\ Shown(v))
BY DEF Report

(* What the invariant says of the files that were read. *)
LEMMA ReadFiles ==
  ASSUME FInv, NEW v, ReadNow(v)
  PROVE  /\ Exists(v.q) <=> queue.seq # 0
         /\ Exists(v.l) <=> lock.seq # 0
         /\ HasLock <=> lock.seq # 0
         /\ Holds(v) <=> Active
         /\ queue.seq = 0 => lock.seq = 0
         /\ queue.status \in Terminal => queue.seq # 0
         /\ ~NamesAnotherRecord(v) /\ ~Drifted(v)
<1>1. lock \in Lock /\ queue \in QueueRecord /\ lock.seq \in Nat /\ queue.seq \in Nat
  BY DEF FInv, IInv, TypeOK, Lock, QueueRecord
<1>2. /\ Numbered /\ lock.seq <= queue.seq
      /\ Active => queue.seq = lock.seq
  BY DEF FInv, IInv, FilesAgree, ClaimHoldsQueuedRecord
<1>3. v.q.seq = queue.seq /\ v.l = lock
  BY SeenFields DEF ReadNow
<1>4. Holds(v) <=> Active
  BY <1>3 DEF Holds, Active
<1>5. ~NamesAnotherRecord(v) /\ ~Drifted(v)
  BY <1>2, <1>3, <1>4 DEF NamesAnotherRecord, Drifted, Compatible, ReadNow
<1>6. queue.status \in Terminal => queue.seq # 0
  BY <1>2 DEF Numbered, Terminal
<1> QED
  BY <1>1, <1>2, <1>3, <1>4, <1>5, <1>6 DEF Exists, HasLock, Numbered

(* An active lane run is the one that is reported. *)
LEMMA ActiveIsTarget ==
  ASSUME FInv, NEW v, ReadNow(v), Active
  PROVE  /\ v.run = lock.run /\ v.file = laneRun[lock.run]
         /\ Exists(v.q) /\ v.l.run = v.run /\ Compatible(v)
<1>1. v.q.seq = queue.seq /\ v.l = lock /\ v.run = Target(v) /\ v.file = FileOf(v.run)
  BY SeenFields DEF ReadNow
<1>2. queue.seq = lock.seq /\ HasLock
  BY DEF FInv, IInv, FilesAgree, ClaimHoldsQueuedRecord, HasLock, Active
<1>3. Compatible(v)
  BY <1>1, <1>2 DEF Compatible, ReadNow
<1>4. Exists(v.l) /\ Exists(v.q) /\ Holds(v)
  BY <1>2, ReadFiles
<1>5. v.run = lock.run
  BY <1>1, <1>3, <1>4 DEF Target, LockSpeaks
<1>6. lock.run # NoRun
  BY <1>2, StoreAssumption DEF FInv, LockNamesRun
<1> QED
  BY <1>1, <1>3, <1>4, <1>5, <1>6 DEF FileOf

(* Without a claim, and unless an unknown lane run was named, the record   *)
(* or a lock in its context speaks for the lane run that is reported.      *)
LEMMA TargetIsKnown ==
  ASSUME FInv, NEW v, ReadNow(v), ~Active, v.t # NoRun => Known(v), v.run # NoRun
  PROVE  ClosedBy(v.q, v.run) \/ (v.l.run = v.run /\ LockSpeaks(v))
<1>1. ~Holds(v) /\ v.run = Target(v)
  BY ReadFiles DEF ReadNow
<1>2. CASE v.t # NoRun
  <2>1. v.run = v.t
    BY <1>1, <1>2 DEF Target
  <2> QED
    BY <1>2, <2>1 DEF Known
<1>3. CASE v.t = NoRun
  BY <1>1, <1>3 DEF Target, ClosedBy
<1> QED
  BY <1>2, <1>3

(* A state that was read belongs to the reported lane run, or to another   *)
(* work item.                                                              *)
LEMMA ReadBelongs ==
  ASSUME FInv, NEW v, ReadNow(v), Active \/ (v.t # NoRun => Known(v)),
         v.file \notin {"absent", "foreign"}
  PROVE  Exists(v.q) /\ Belongs(v)
<1>1. v.run # NoRun
  BY DEF ReadNow, FileOf
<1>2. CASE Active
  BY <1>2, ActiveIsTarget DEF Belongs
<1>3. CASE ~Active
  <2>1. ClosedBy(v.q, v.run) \/ (v.l.run = v.run /\ LockSpeaks(v))
    BY <1>1, <1>3, TargetIsKnown
  <2>2. CASE ClosedBy(v.q, v.run)
    <3>1. Exists(v.q)
      BY <2>2, ReadFiles, SeenFields DEF ClosedBy, ReadNow
    <3> QED
      BY <2>2, <3>1 DEF Belongs
  <2>3. CASE v.l.run = v.run /\ LockSpeaks(v)
    <3>1. Exists(v.l) /\ Exists(v.q) /\ Compatible(v)
      BY <2>3, ReadFiles DEF LockSpeaks
    <3> QED
      BY <2>3, <3>1 DEF Belongs
  <2> QED
    BY <2>1, <2>2, <2>3
<1> QED
  BY <1>2, <1>3

(* The lane run reported for a closed record can be retried or requeued,   *)
(* unless it has no readable state and never had a lock.                   *)
LEMMA ClosedCanBeLinked ==
  ASSUME FInv, NEW v, ReadNow(v), queue.status \in Terminal, v.file # "malformed",
         v.t # NoRun => Known(v), ~LeftNothing(v)
  PROVE  MayLink(v.run, IF HasLock THEN "retry" ELSE "requeue")
<1>1. ~Active /\ ~Holds(v) /\ queue.seq # 0
  BY ReadFiles DEF FInv, IInv, FilesAgree, ClaimHoldsQueuedRecord, Terminal
<1>2. /\ v.q.status = queue.status /\ v.q.ended = queue.ended /\ v.l = lock
      /\ v.run = Target(v) /\ v.file = FileOf(v.run)
  BY SeenFields DEF ReadNow
<1>3. CASE HasLock
  <2>1. queue.ended[queue.status] = lock.run
    BY <1>3 DEF FInv, IInv, FilesAgree, TerminalRecordAgreesWithLock
  <2>2. v.run = lock.run
    <3>1. CASE v.t # NoRun
      BY <1>1, <1>2, <2>1, <3>1 DEF Target, Known, ClosedBy
    <3>2. CASE v.t = NoRun
      BY <1>1, <1>2, <2>1, <3>2 DEF Target
    <3> QED
      BY <3>1, <3>2
  <2>3. laneRun[lock.run] # "malformed"
    BY <1>2, <1>3, <2>2, StoreAssumption DEF FileOf, FInv, LockNamesRun
  <2> QED
    BY <1>1, <1>3, <2>2, <2>3 DEF MayLink
<1>4. CASE ~HasLock
  <2>1. queue.status = "revoked"
    BY <1>4 DEF FInv, AloneIsRevoked
  <2>2. ~LockSpeaks(v)
    BY <1>4, ReadFiles DEF LockSpeaks
  <2>3. v.run = queue.ended[queue.status]
    <3>1. CASE v.t # NoRun
      BY <1>1, <1>2, <2>2, <3>1 DEF Target, Known, ClosedBy
    <3>2. CASE v.t = NoRun
      BY <1>1, <1>2, <3>2 DEF Target
    <3> QED
      BY <3>1, <3>2
  <2>4. Shown(v)
    BY <1>1, <1>2, <2>3 DEF LeftNothing, ClosedBy
  <2>5. v.file \notin {"absent", "foreign"}
    BY <2>4 DEF Shown, Belongs
  <2>6. v.run \in RunOrNone
    BY <2>3 DEF FInv, IInv, TypeOK, QueueRecord
  <2>7. v.run \in Run /\ v.file = laneRun[v.run]
    BY <1>2, <2>5, <2>6 DEF FileOf, RunOrNone
  <2>8. laneRun[v.run] \in {"blocked", "other"}
    BY <2>5, <2>7 DEF FInv, IInv, TypeOK, LaneRunFile
  <2> QED
    BY <1>4, <2>1, <2>3, <2>8 DEF MayLink, VerifiedTerminal
<1> QED
  BY <1>3, <1>4

(* A report on the files as they are can be vouched for. *)
LEMMA ReportVouched ==
  ASSUME FInv, NEW v, ReadNow(v), v.run \in RunOrNone
  PROVE  Vouched(Report(v))
<1>0. Report(v).run = v.run /\ Report(v).named = (v.t # NoRun)
  BY ReportFields
<1>1. CASE v.file = "malformed"
  <2>1. v.run \in Run /\ laneRun[v.run] = "malformed"
    BY <1>1 DEF ReadNow, FileOf, RunOrNone
  <2> QED
    BY <1>1, <2>1, MalformedKinds DEF Vouched
<1>2. CASE v.file # "malformed"
  <2>0. /\ Exists(v.q) <=> queue.seq # 0
        /\ HasLock <=> lock.seq # 0
        /\ Holds(v) <=> Active
        /\ queue.seq = 0 => lock.seq = 0
        /\ ~NamesAnotherRecord(v) /\ ~Drifted(v)
    BY ReadFiles
  <2>1. "lock-queue-record-mismatch" \notin Report(v).kinds
    BY <1>2, <2>0, KindsOf
  <2>2. "missing-queue-record" \in Report(v).kinds => ~HasLock
    BY <1>2, <2>0, KindsOf
  <2>3. "malformed-lane-state" \notin Report(v).kinds
    BY <1>2, KindsOf
  <2>4. ASSUME v.t = NoRun
        PROVE  Report(v).kinds \cap {"lane-run-target-mismatch",
                                     "lane-run-ownership-unverified"} = {}
    <3>1. "lane-run-target-mismatch" \notin Report(v).kinds
      BY <1>2, <2>4, KindsOf
    <3>2. "lane-run-ownership-unverified" \notin Report(v).kinds
      <4>1. ~(Rejected(v) /\ (Exists(v.q) => v.file # "foreign"))
        <5>1. CASE v.file = "absent"
          BY <2>0, <5>1 DEF Rejected
        <5>2. CASE v.file = "foreign"
          <6>1. v.run # NoRun
            BY <5>2 DEF ReadNow, FileOf
          <6>2. Exists(v.q)
            <7>1. CASE Active
              BY <7>1, ActiveIsTarget
            <7>2. CASE ~Active
              <8>1. ClosedBy(v.q, v.run) \/ LockSpeaks(v)
                BY <2>4, <6>1, <7>2, TargetIsKnown
              <8> QED
                BY <8>1, ReadFiles, SeenFields DEF ClosedBy, LockSpeaks, ReadNow
            <7> QED
              BY <7>1, <7>2
          <6> QED
            BY <5>2, <6>2
        <5>3. CASE v.file \notin {"absent", "foreign"}
          BY <2>0, <2>4, <5>3, ReadBelongs DEF Rejected
        <5> QED
          BY <5>1, <5>2, <5>3
      <4> QED
        BY <1>2, <2>0, <2>4, <4>1, KindsOf
    <3> QED
      BY <3>1, <3>2
  <2>5. Active => CanBeStopped(v.run)
    <3>1. SUFFICES ASSUME Active PROVE CanBeStopped(v.run)
      OBVIOUS
    <3>2. v.run = lock.run /\ v.file = laneRun[lock.run]
      BY <3>1, ActiveIsTarget
    <3>3. queue.seq = lock.seq
      BY <3>1 DEF FInv, IInv, FilesAgree, ClaimHoldsQueuedRecord
    <3> QED
      BY <1>2, <3>1, <3>2, <3>3 DEF CanBeStopped
  <2>6. "stale-lock" \in Report(v).kinds => CanBeStopped(v.run)
    BY <1>2, <2>0, <2>5, KindsOf
  <2>7. ASSUME Report(v).kinds = {}, queue.status \in Terminal
        PROVE  MayLink(v.run, IF HasLock THEN "retry" ELSE "requeue")
    <3>1. ~Active
      BY <2>7 DEF FInv, IInv, FilesAgree, ClaimHoldsQueuedRecord, Terminal
    <3>2. (v.t # NoRun => Known(v)) /\ ~LeftNothing(v)
      BY <1>2, <2>0, <2>7, <3>1, KindsOf
    <3> QED
      BY <1>2, <2>7, <3>2, ClosedCanBeLinked
  <2> QED
    BY <1>0, <2>1, <2>2, <2>4, <2>5, <2>6, <2>7, <2>3 DEF Vouched
<1> QED
  BY <1>1, <1>2

-----------------------------------------------------------------------------
(* The reader's invariant.                                                 *)

(* The owners of the moments since the reading began include whoever holds *)
(* the lock or closed the record now, and whoever did when each was read.  *)
Remembered ==
  /\ recon.at \in {"record", "lock", "laneRun"} => OwnersNow \subseteq owners
  /\ recon.at \in {"lock", "laneRun"} =>
       \A r \in Run : ClosedBy(recon.q, r) => r \in owners
  /\ recon.at = "laneRun" => \A r \in Run : recon.l.run = r => r \in owners

(* While nothing changes, what was read is what is there, and the report   *)
(* can be vouched for.                                                     *)
Current ==
  ~moved =>
    /\ recon.at \in {"lock", "laneRun"} => recon.q = Seen(queue)
    /\ recon.at = "laneRun" => recon.l = lock
    /\ recon.at = "reported" => Vouched(recon.report)

(* A file is only replaced by a write. *)
Renamed == handle = "replaced" => moved

RInv == FInv /\ ReconTypeOK /\ Remembered /\ Current /\ Renamed

LEMMA AtTyped ==
  ASSUME NEW at \in {"idle", "record", "lock", "laneRun", "reported"}
  PROVE  /\ At(at) \in Recon /\ At(at).at = at /\ At(at).report = NoReport
         /\ Malformed \in ReportShape /\ ~Malformed.shown /\ Malformed.kinds # {}
         /\ \A rep \in ReportShape :
              /\ [At(at) EXCEPT !.report = rep] \in Recon
              /\ [At(at) EXCEPT !.report = rep].at = at
              /\ [At(at) EXCEPT !.report = rep].report = rep
<1>1. Seen(NoRecord) \in SeenRecord
  BY ShapesTyped DEF Seen, SeenRecord, QueueRecord
<1>2. NoReport \in ReportShape
  BY DEF NoReport, ReportShape, Category, RunOrNone
<1>3. Malformed \in ReportShape /\ ~Malformed.shown /\ Malformed.kinds # {}
  BY DEF Malformed, NoReport, ReportShape, Category, RunOrNone, Kind
<1> QED
  BY <1>1, <1>2, <1>3, ShapesTyped DEF At, Recon

LEMMA SeenTyped ==
  ASSUME queue \in QueueRecord
  PROVE  Seen(queue) \in SeenRecord
BY DEF Seen, SeenRecord, QueueRecord

LEMMA TargetTyped ==
  ASSUME NEW v, v.q \in SeenRecord, v.l \in Lock, v.t \in RunOrNone
  PROVE  Target(v) \in RunOrNone
<1>1. /\ v.l.run \in RunOrNone /\ NoRun \in RunOrNone
      /\ v.q.status \in Terminal => v.q.ended[v.q.status] \in RunOrNone
  BY DEF SeenRecord, Lock, RunOrNone
<1> QED
  BY <1>1 DEF Target

(* A report has its shape, and the mildest category if nothing is amiss.   *)
LEMMA ReportTyped ==
  ASSUME NEW v, v.run \in RunOrNone
  PROVE  /\ Report(v) \in ReportShape
         /\ Report(v).kinds = {} => Report(v).category = "safe-to-requeue"
<1> DEFINE cats == {CategoryOf(k, Holds(v)) : k \in Report(v).kinds}
<1>1. Report(v).category = Leading(cats) /\ Report(v).kinds \subseteq Kind
  <2>1. Report(v).category = Leading(cats)
    BY DEF Report
  <2>2. CASE v.file = "malformed"
    BY <2>1, <2>2, MalformedKinds DEF Kind
  <2>3. CASE v.file # "malformed"
    BY <2>1, <2>3 DEF Report
  <2> QED
    BY <2>1, <2>2, <2>3
<1>2. Leading(cats) \in Category
  BY DEF Leading, Category
<1>3. Report(v).kinds = {} => Report(v).category = "safe-to-requeue"
  BY <1>1 DEF Leading
<1>4. Report(v).shown \in BOOLEAN /\ Report(v).named \in BOOLEAN /\ Report(v).run \in RunOrNone
  BY ReportFields
<1>5. Report(v) = [kinds |-> Report(v).kinds, category |-> Report(v).category,
                   run |-> Report(v).run, shown |-> Report(v).shown,
                   named |-> Report(v).named]
  BY DEF Report
<1> QED
  BY <1>1, <1>2, <1>3, <1>4, <1>5 DEF ReportShape

LEMMA SameTarget ==
  ASSUME NEW v, NEW w, v.q = w.q, v.l = w.l, v.t = w.t, v.same = w.same
  PROVE  Target(v) = Target(w)
<1>1. Holds(v) <=> Holds(w)
  BY DEF Holds
<1>2. LockSpeaks(v) <=> LockSpeaks(w)
  BY <1>1 DEF LockSpeaks, Compatible
<1>3. Known(v) <=> Known(w)
  BY <1>2 DEF Known
<1> QED
  BY <1>1, <1>2, <1>3 DEF Target

(* What the third read gives, if the first two are still true: everything  *)
(* as it is now.                                                           *)
LEMMA ReadsAreNow ==
  ASSUME recon.q = Seen(queue), recon.l = lock,
         NEW t \in RunOrNone, NEW o \in Observations, NEW same \in SameContext,
         NEW read, read = [q |-> recon.q, l |-> recon.l, t |-> t, same |-> same]
  PROVE  ReadNow(Observed(read, Target(read), o))
<1> DEFINE v == Observed(read, Target(read), o)
<1>1. v.q = read.q /\ v.l = read.l /\ v.t = read.t /\ v.same = read.same
  BY DEF Observed
<1>2. Target(v) = Target(read)
  BY <1>1, SameTarget
<1>3. v.run = Target(v) /\ v.file = FileOf(v.run)
  BY <1>2 DEF Observed
<1>4. lock.seq = queue.seq => same = TRUE
  BY SeenFields DEF SameContext
<1> QED
  BY <1>1, <1>3, <1>4 DEF ReadNow

(* What the third read tells of what it shows. *)
LEMMA ShownIsRemembered ==
  ASSUME Remembered, recon.at = "laneRun", NEW v, v.q = recon.q, v.l = recon.l,
         v.run \in RunOrNone, v.file = FileOf(v.run), Shown(v)
  PROVE  v.run \in owners
<1>1. v.run \in Run
  BY DEF Shown, FileOf, RunOrNone
<1>2. v.l.run = v.run \/ ClosedBy(v.q, v.run)
  BY DEF Shown, Belongs
<1> QED
  BY <1>1, <1>2 DEF Remembered

(* The third read makes some report: a typed one, vouched for while        *)
(* nothing has changed, and of a remembered owner if it shows evidence.    *)
LEMMA ThirdRead ==
  ASSUME RInv, SeeLaneRun
  PROVE  \E rep \in ReportShape :
           /\ recon' = [At("reported") EXCEPT !.report = rep]
           /\ rep.kinds = {} => rep.category = "safe-to-requeue"
           /\ ~moved => Vouched(rep)
           /\ rep.shown => rep.run \in owners
<1>1. PICK t \in RunOrNone, o \in Observations, same \in SameContext :
        recon' = [At("reported") EXCEPT !.report =
          Report(Observed([q |-> recon.q, l |-> recon.l, t |-> t, same |-> same],
                          Target([q |-> recon.q, l |-> recon.l, t |-> t, same |-> same]), o))]
  BY DEF SeeLaneRun
<1> DEFINE read == [q |-> recon.q, l |-> recon.l, t |-> t, same |-> same]
           v == Observed(read, Target(read), o)
<1>2. recon.at = "laneRun" /\ recon.q \in SeenRecord /\ recon.l \in Lock
  BY DEF SeeLaneRun, RInv, ReconTypeOK, Recon
<1>3. /\ v.q = recon.q /\ v.l = recon.l /\ v.run = Target(read)
      /\ v.file = FileOf(v.run)
  BY DEF Observed
<1>4. v.run \in RunOrNone
  BY <1>2, <1>3, TargetTyped
<1>5. Report(v) \in ReportShape /\ (Report(v).kinds = {} => Report(v).category = "safe-to-requeue")
  BY <1>4, ReportTyped
<1>6. ASSUME ~moved PROVE Vouched(Report(v))
  <2>1. recon.q = Seen(queue) /\ recon.l = lock
    BY <1>2, <1>6 DEF RInv, Current
  <2>2. ReadNow(v)
    BY <2>1, ReadsAreNow
  <2> QED
    BY <1>3, <1>4, <2>2, ReportVouched DEF RInv
<1>7. ASSUME Report(v).shown PROVE Report(v).run \in owners
  BY <1>2, <1>3, <1>4, <1>7, ReportFields, ShownIsRemembered DEF RInv
<1> QED
  BY <1>1, <1>5, <1>6, <1>7

LEMMA OwnersTyped == OwnersNow \subseteq Run
BY DEF OwnersNow

(* What was vouched for holds until a file changes. *)
LEMMA VouchedLasts ==
  ASSUME NEW rep, Vouched(rep), UNCHANGED <<queue, lock, laneRun>>, recon'.report = rep
  PROVE  Vouched(recon.report)'
BY DEF Vouched, CanBeStopped, MayLink, VerifiedTerminal, HasLock, Active, Torn

LEMMA RInvInit == ReconInit => RInv
<1> SUFFICES ASSUME ReconInit PROVE RInv
  OBVIOUS
<1>1. FInv
  <2>1. IInv
    BY InitGood DEF ReconInit
  <2> QED
    BY <2>1 DEF ReconInit, Init, FInv, LockNamesRun, AloneIsRevoked, HasLock, NoLock,
                NoRecord, Terminal
<1>2. /\ recon.at = "idle" /\ recon \in Recon /\ handle = "closed"
      /\ owners = {} /\ moved = FALSE
  BY AtTyped DEF ReconInit
<1> QED
  BY <1>1, <1>2 DEF RInv, ReconTypeOK, Remembered, Current, Renamed

(* The report on a file that failed to be read. *)
LEMMA FailedReport ==
  ASSUME Compare, handle = "replaced"
  PROVE  /\ recon' \in Recon /\ recon'.at = "reported" /\ recon'.report = Malformed
         /\ owners' = {} /\ ~recon'.report.shown /\ recon'.report.kinds # {}
<1>1. recon' = [At("reported") EXCEPT !.report = Malformed] /\ owners' = {}
  BY DEF Compare
<1>2. /\ Malformed \in ReportShape /\ ~Malformed.shown /\ Malformed.kinds # {}
      /\ "reported" \in {"idle", "record", "lock", "laneRun", "reported"}
  BY AtTyped
<1>3. /\ recon' \in Recon /\ recon'.at = "reported" /\ recon'.report = Malformed
  BY <1>1, <1>2, AtTyped
<1> QED
  BY <1>1, <1>2, <1>3

(* A comparison ends the read, or the reading with a report on files that  *)
(* have changed.                                                           *)
LEMMA CompareKeeps ==
  ASSUME RInv, Compare, UNCHANGED storeVars
  PROVE  RInv'
<1>1. FInv' /\ UNCHANGED <<queue, lock, laneRun>>
  BY FilesKeep DEF RInv, storeVars
<1>2. OwnersNow' = OwnersNow /\ Seen(queue)' = Seen(queue)
  BY <1>1 DEF OwnersNow, Seen
<1>3. handle' = "closed" /\ moved' = moved
  BY DEF Compare
<1>4. CASE handle = "replaced"
  <2>1. /\ recon' \in Recon /\ recon'.at = "reported" /\ recon'.report = Malformed
        /\ recon'.report.kinds # {} /\ owners' = {}
    BY <1>4, FailedReport
  <2>2. moved
    BY <1>4 DEF RInv, Renamed
  <2> QED
    BY <1>1, <1>3, <2>1, <2>2 DEF RInv, ReconTypeOK, Remembered, Current, Renamed
<1>5. CASE handle # "replaced"
  <2>1. UNCHANGED <<recon, owners>> /\ recon.at # "reported"
    BY <1>5 DEF Compare, RInv, ReconTypeOK
  <2>2. ReconTypeOK' /\ Remembered' /\ Current' /\ Renamed'
    BY <1>1, <1>2, <1>3, <2>1
       DEF RInv, ReconTypeOK, Remembered, Current, Renamed, ClosedBy
  <2> QED
    BY <1>1, <2>2 DEF RInv
<1> QED
  BY <1>4, <1>5

(* A read leaves the files alone. *)
LEMMA ReadKeeps ==
  ASSUME RInv, ReconStep
  PROVE  RInv'
<1>0. UNCHANGED storeVars
  BY DEF ReconStep
<1>1. FInv' /\ UNCHANGED <<queue, lock>> /\ queue \in QueueRecord /\ lock \in Lock
  BY <1>0, FilesKeep DEF RInv, FInv, IInv, TypeOK, storeVars
<1>2. OwnersNow' = OwnersNow
  BY <1>1 DEF OwnersNow
<1>3. CASE Begin
  <2>1. /\ recon'.at = "record" /\ recon' \in Recon
        /\ owners' = OwnersNow /\ moved' = FALSE /\ handle' = "closed"
    BY <1>3, AtTyped DEF Begin, RInv, ReconTypeOK
  <2> QED
    BY <1>1, <1>2, <2>1, OwnersTyped DEF RInv, ReconTypeOK, Remembered, Current, Renamed
<1>4. CASE SeeRecord
  <2>1. /\ recon.at = "record" /\ recon' \in Recon /\ recon'.at = "lock"
        /\ recon'.q = Seen(queue) /\ owners' = owners /\ moved' = moved
        /\ handle' \in {"open", "closed"}
    BY <1>1, <1>4, AtTyped, SeenTyped DEF SeeRecord, Opened, Recon
  <2>2. OwnersNow \subseteq owners
    BY <2>1 DEF RInv, Remembered
  <2>3. \A r \in Run : ClosedBy(recon'.q, r) => r \in owners
    BY <2>1, <2>2, SeenFields DEF ClosedBy, OwnersNow
  <2>4. Remembered'
    BY <1>2, <2>1, <2>2, <2>3 DEF Remembered
  <2>5. Current'
    BY <1>1, <2>1 DEF Current, Seen
  <2> QED
    BY <1>1, <2>1, <2>4, <2>5 DEF RInv, ReconTypeOK, Renamed
<1>5. CASE SeeLock
  <2>1. /\ recon.at = "lock" /\ recon' \in Recon /\ recon'.at = "laneRun"
        /\ recon'.q = recon.q /\ recon'.l = lock /\ owners' = owners /\ moved' = moved
        /\ handle' \in {"open", "closed"}
    BY <1>1, <1>5 DEF SeeLock, Opened, RInv, ReconTypeOK, Recon
  <2>2. /\ OwnersNow \subseteq owners
        /\ \A r \in Run : ClosedBy(recon.q, r) => r \in owners
        /\ ~moved => recon.q = Seen(queue)
    BY <2>1 DEF RInv, Remembered, Current
  <2>3. Remembered'
    BY <1>2, <2>1, <2>2 DEF Remembered, ClosedBy, OwnersNow
  <2>4. Current'
    BY <1>1, <2>1, <2>2 DEF Current, Seen
  <2> QED
    BY <1>1, <2>1, <2>3, <2>4 DEF RInv, ReconTypeOK, Renamed
<1>6. CASE SeeLaneRun
  <2>1. PICK rep \in ReportShape :
          /\ recon' = [At("reported") EXCEPT !.report = rep]
          /\ rep.kinds = {} => rep.category = "safe-to-requeue"
          /\ ~moved => Vouched(rep)
    BY <1>6, ThirdRead
  <2>2. /\ recon' \in Recon /\ recon'.at = "reported" /\ recon'.report = rep
        /\ owners' = {} /\ moved' = moved /\ handle' = "closed"
    BY <1>6, <2>1, AtTyped DEF SeeLaneRun
  <2>3. Remembered'
    BY <2>2 DEF Remembered
  <2>4. Vouched(rep) => Vouched(recon.report)'
    BY <1>0, <2>2, VouchedLasts DEF storeVars
  <2>5. Current'
    BY <2>1, <2>2, <2>4 DEF Current
  <2> QED
    BY <1>1, <2>1, <2>2, <2>3, <2>5 DEF RInv, ReconTypeOK, Renamed
<1>7. CASE Compare
  BY <1>0, <1>7, CompareKeeps
<1> QED
  BY <1>3, <1>4, <1>5, <1>6, <1>7 DEF ReconStep

(* An operation between two reads. *)
LEMMA OperationBetween ==
  ASSUME RInv, StoreStep
  PROVE  RInv'
<1>1. FInv'
  BY FilesKeep DEF RInv, StoreStep
<1>2. recon' = recon /\ OwnersNow' \subseteq Run
  BY DEF StoreStep, OwnersNow
<1>3. ReconTypeOK'
  BY <1>2 DEF RInv, ReconTypeOK, StoreStep
<1>4. Renamed'
  <2> SUFFICES ASSUME handle' = "replaced" PROVE moved'
    BY DEF Renamed
  <2>1. handle \in {"open", "replaced"} /\ recon.at # "idle"
    BY DEF StoreStep, RInv, ReconTypeOK
  <2>2. moved \/ <<queue, lock, laneRun>>' # <<queue, lock, laneRun>>
    BY <2>1 DEF StoreStep, Replaced, RInv, Renamed
  <2> QED
    BY <2>1, <2>2 DEF StoreStep
<1>5. Remembered'
  <2>1. CASE recon.at \in {"idle", "reported"}
    BY <1>2, <2>1 DEF Remembered
  <2>2. CASE recon.at \notin {"idle", "reported"}
    <3>1. owners' = owners \cup OwnersNow'
      BY <2>2 DEF StoreStep
    <3> QED
      BY <1>2, <3>1 DEF RInv, Remembered, ClosedBy
  <2> QED
    BY <2>1, <2>2
<1>6. Current'
  <2>1. CASE moved'
    BY <2>1 DEF Current
  <2>2. CASE ~moved' /\ recon.at = "idle"
    BY <1>2, <2>2 DEF Current
  <2>3. CASE ~moved' /\ recon.at # "idle"
    <3>1. ~moved /\ UNCHANGED <<queue, lock, laneRun>>
      BY <2>3 DEF StoreStep
    <3>2. recon.at = "reported" => Vouched(recon.report)'
      BY <1>2, <3>1, VouchedLasts DEF RInv, Current
    <3>3. Seen(queue)' = Seen(queue)
      BY <3>1 DEF Seen
    <3> QED
      BY <1>2, <3>1, <3>2, <3>3 DEF RInv, Current
  <2> QED
    BY <2>1, <2>2, <2>3
<1> QED
  BY <1>1, <1>3, <1>5, <1>6, <1>4 DEF RInv

LEMMA RInvKept == RInv /\ [ReconNext]_<<storeVars, reconVars>> => RInv'
<1> SUFFICES ASSUME RInv, [ReconNext]_<<storeVars, reconVars>> PROVE RInv'
  OBVIOUS
<1>1. CASE ReconNext
  BY <1>1, ReadKeeps, OperationBetween DEF ReconNext
<1>2. CASE UNCHANGED <<storeVars, reconVars>>
  <2>1. UNCHANGED storeVars /\ UNCHANGED reconVars
    BY <1>2
  <2>2. FInv'
    BY <2>1, FilesKeep DEF RInv
  <2>3. UNCHANGED <<queue, lock, laneRun, recon, handle, owners, moved>>
    BY <2>1 DEF storeVars, reconVars
  <2>4. ReconTypeOK' /\ Remembered'
    BY <2>3 DEF RInv, ReconTypeOK, Remembered, ClosedBy, OwnersNow
  <2>5. Renamed'
    BY <2>3 DEF RInv, Renamed
  <2>6. Vouched(recon.report) => Vouched(recon.report)'
    BY <2>3, VouchedLasts
  <2>7. Current'
    BY <2>3, <2>6 DEF RInv, Current, Seen
  <2> QED
    BY <2>2, <2>4, <2>7, <2>5 DEF RInv
<1> QED
  BY <1>1, <1>2

LEMMA ReaderInvariant == ReconSpec => []RInv
BY RInvInit, RInvKept, PTL DEF ReconSpec

-----------------------------------------------------------------------------
(* Advice.                                                                 *)

(* A decision whose condition is met is not refused. *)
LEMMA NotRefused ==
  ASSUME task \in [Proc -> Task], NEW p \in Proc, NEW ok, NEW plan,
         ok, plan.at # "leaving", Decide(p, ok, plan)
  PROVE  ~Refused(p)
BY DEF Decide, Refused

(* A lane run that can be stopped can be completed, too. *)
LEMMA StopIsTaken ==
  ASSUME IInv, NEW p \in Proc, NEW r, CanBeStopped(r), Stop(p, r)
  PROVE  ~Refused(p)
<1>1. HasLock /\ Active
  BY DEF CanBeStopped, HasLock, Active
<1>2. PutBoth(ClosedLock("revoked"), StoppedRecord(r)).at # "leaving"
  BY DEF PutBoth
<1> QED
  BY <1>1, <1>2, NotRefused DEF Stop, CanBeStopped, IInv, TypeOK

LEMMA CompleteIsTaken ==
  ASSUME IInv, NEW p \in Proc, NEW r, CanBeStopped(r), NEW s \in Terminal, Complete(p, r, s)
  PROVE  ~Refused(p)
<1>1. PutBoth(ClosedLock(s), [queue EXCEPT !.status = s, !.ended[s] = r]).at # "leaving"
  BY DEF PutBoth
<1> QED
  BY <1>1, NotRefused DEF Complete, CanBeStopped, IInv, TypeOK

(* A queued record can be claimed unless its lock was closed before it. *)
LEMMA ClaimIsTaken ==
  ASSUME IInv, NEW p \in Proc, NEW c \in Run, ~Active, ~Torn, queue.status = "queued",
         Claim(p, c)
  PROVE  ~Refused(p)
<1>1. ~Stale(queue, lock)
  <2>1. lock.seq <= queue.seq /\ lock.seq \in Nat /\ queue.seq \in Nat
    BY DEF IInv, FilesAgree, ClaimHoldsQueuedRecord, TypeOK, Lock, QueueRecord
  <2> QED
    BY <2>1 DEF Stale, Torn
<1> DEFINE plan == PutLock([seq |-> queue.seq, run |-> c, status |-> "active"])
<1>2. plan.at # "leaving"
  BY DEF PutLock, Rest
<1> QED
  BY <1>1, <1>2, NotRefused DEF Claim, IInv, TypeOK

LEMMA LinkIsTaken ==
  ASSUME IInv, NEW p \in Proc, NEW r, NEW action, MayLink(r, action), Link(p, r, action)
  PROVE  ~Refused(p)
<1>1. PutQueue(LinkedRecord(r, action)).at # "leaving"
  BY DEF PutQueue, Rest
<1> QED
  BY <1>1, NotRefused DEF Link, IInv, TypeOK

-----------------------------------------------------------------------------
(* Theorems.                                                               *)

(* The reconciliation keeps its shape, and a report without mismatches has *)
(* the mildest category.                                                   *)
THEOREM ReconTypeCorrect == ReconSpec => []ReconTypeOK
<1>1. RInv => ReconTypeOK
  BY DEF RInv
<1> QED
  BY <1>1, ReaderInvariant, PTL

(* Files that only the operations wrote are never accused, whatever failed *)
(* in between.                                                             *)
THEOREM NoFalseAlarmTheorem == ReconSpec => []NoFalseAlarm
<1>1. RInv => NoFalseAlarm
  <2> SUFFICES ASSUME RInv, Fresh PROVE NoFalseAlarm
    BY DEF NoFalseAlarm
  <2>1. Vouched(recon.report)
    BY DEF RInv, Current, Fresh
  <2> QED
    BY <2>1 DEF Vouched, NoFalseAlarm
<1> QED
  BY <1>1, ReaderInvariant, PTL

(* Evidence is shown only of a lane run that held the lock or closed the   *)
(* record during the reading.                                              *)
THEOREM EvidenceTheorem == ReconSpec => EvidenceIsOwned
<1> DEFINE Owned == recon.at # "reported" /\ recon'.at = "reported" /\ recon'.report.shown
                      => recon'.report.run \in owners
<1>1. RInv /\ [ReconNext]_<<storeVars, reconVars>> => [Owned]_reconVars
  <2> SUFFICES ASSUME RInv, ReconNext, recon.at # "reported", recon'.at = "reported",
                      recon'.report.shown
               PROVE  recon'.report.run \in owners
    OBVIOUS
  <2>1. SeeLaneRun
    <3>1. ~Compare
      BY FailedReport DEF Compare
    <3> QED
      BY <3>1, AtTyped DEF ReconNext, StoreStep, ReconStep, Begin, SeeRecord, SeeLock, RInv,
                           ReconTypeOK, Recon
  <2>2. PICK rep \in ReportShape :
          /\ recon' = [At("reported") EXCEPT !.report = rep]
          /\ rep.shown => rep.run \in owners
    BY <2>1, ThirdRead
  <2>3. recon'.report = rep
    BY <2>2, AtTyped
  <2> QED
    BY <2>2, <2>3
<1> QED
  BY <1>1, ReaderInvariant, PTL DEF ReconSpec, EvidenceIsOwned

(* What a fresh report advises is not refused. *)
THEOREM AdviceTheorem == ReconSpec => AdviceCanBeFollowed
<1> DEFINE Followed ==
      \A p \in Proc :
        Fresh /\ task[p].at = "entered" => StaleCanBeStopped(p) /\ ConsistentCanGoOn(p)
<1>1. RInv => [Followed]_<<storeVars, reconVars>>
  <2> SUFFICES ASSUME RInv, NEW p \in Proc, Fresh
               PROVE  StaleCanBeStopped(p) /\ ConsistentCanGoOn(p)
    OBVIOUS
  <2>1. Vouched(recon.report) /\ IInv
    BY DEF RInv, FInv, Current, Fresh
  <2> DEFINE r == recon.report.run
  <2>2. StaleCanBeStopped(p)
    BY <2>1, StopIsTaken DEF Vouched, StaleCanBeStopped
  <2>3. ASSUME recon.report.kinds = {}, ~Torn PROVE
          /\ Active /\ (Stop(p, r) \/ \E s \in Terminal : Complete(p, r, s)) => ~Refused(p)
          /\ ~Active /\ queue.status = "queued" /\ (\E c \in Run : Claim(p, c)) => ~Refused(p)
          /\ queue.status \in Terminal
               /\ Link(p, r, IF HasLock THEN "retry" ELSE "requeue") => ~Refused(p)
    <3>1. Active => CanBeStopped(r)
      BY <2>1, <2>3 DEF Vouched
    <3>2. queue.status \in Terminal => MayLink(r, IF HasLock THEN "retry" ELSE "requeue")
      BY <2>1, <2>3 DEF Vouched
    <3>3. Active /\ Stop(p, r) => ~Refused(p)
      BY <2>1, <3>1, StopIsTaken
    <3>4. Active /\ (\E s \in Terminal : Complete(p, r, s)) => ~Refused(p)
      BY <2>1, <3>1, CompleteIsTaken
    <3>5. ~Active /\ queue.status = "queued" /\ (\E c \in Run : Claim(p, c)) => ~Refused(p)
      BY <2>1, <2>3, ClaimIsTaken
    <3>6. queue.status \in Terminal /\ Link(p, r, IF HasLock THEN "retry" ELSE "requeue")
            => ~Refused(p)
      BY <2>1, <3>2, LinkIsTaken
    <3> QED
      BY <3>3, <3>4, <3>5, <3>6
  <2>4. ConsistentCanGoOn(p)
    BY <2>3 DEF ConsistentCanGoOn
  <2> QED
    BY <2>2, <2>4
<1> QED
  BY <1>1, ReaderInvariant, PTL DEF AdviceCanBeFollowed
=============================================================================
