---------------------------- MODULE LaneRunStore -----------------------------
(***************************************************************************)
(* The queue record and the lane-run lock of one work item (two JSON files *)
(* under the state root), and every operation of src/lane/index.ts that    *)
(* writes them.  Each operation runs inside withLaneRunMutationLock: it    *)
(* reads both files, decides, and then writes at most two files, one       *)
(* atomic rename each.  A write may fail, and the process may die between  *)
(* any two steps.                                                          *)
(*                                                                         *)
(* A refused operation (a thrown error or an { ok: false } result) leaves  *)
(* the files alone and only gives the mutation lock back.  Timestamps are  *)
(* not kept: a bad one refuses the call, and an admissible one exists for  *)
(* every call the other guards admit.                                      *)
(***************************************************************************)
EXTENDS Naturals, FiniteSets

CONSTANTS Proc,        (* processes that call the operations                *)
          Run,         (* lane run identifiers                              *)
          NoRun,       (* "no lane run"                                     *)
          MaxAttempts  (* bound: enqueue sequence numbers handed out        *)

ASSUME StoreAssumption ==
  /\ NoRun \notin Run
  /\ MaxAttempts \in Nat

VARIABLES queue,    (* lane-run-queue/<work item>.json                      *)
          lock,     (* lane-run-locks/<work item>.json                      *)
          laneRun,  (* lane-runs/<lane run>.json, per lane run              *)
          task,     (* per process: the writes of the operation it is in    *)
          faults    (* history: the kinds of fault that have happened       *)

storeVars == <<queue, lock, laneRun, task, faults>>

-----------------------------------------------------------------------------
(* The shape of the files.                                                 *)

Terminal == {"completed", "revoked", "superseded"}
LinkAction == {"retry", "requeue"}
RunOrNone == Run \cup {NoRun}

(* What a lane run's state file can be for an operator action: missing,    *)
(* unreadable, of this work item (blocked or in another status), or of     *)
(* another work item.                                                      *)
LaneRunFile == {"absent", "malformed", "blocked", "other", "foreign"}

QueueRecord ==
  [seq : Nat,                             (* enqueueSequence, 0: no file    *)
   status : {"none", "queued"} \cup Terminal,
   blocker : BOOLEAN,                     (* metadata.blockerReason is set  *)
   ended : [Terminal -> RunOrNone],       (* metadata.<status>LaneRunId     *)
   of : [LinkAction -> RunOrNone],        (* metadata.<action>OfLaneRunId   *)
   act : {"none", "stop"} \cup LinkAction,(* metadata.operatorAction        *)
   prev : Nat]                            (* metadata.previousQueueRecordId *)

(* A lock names its queue record by id, which is its sequence number. *)
Lock == [seq : Nat, run : RunOrNone, status : {"none", "active"} \cup Terminal]

Unlinked(S) == [x \in S |-> NoRun]

NoRecord == [seq |-> 0, status |-> "none", blocker |-> FALSE,
             ended |-> Unlinked(Terminal), of |-> Unlinked(LinkAction),
             act |-> "none", prev |-> 0]
NoLock == [seq |-> 0, run |-> NoRun, status |-> "none"]

HasLock == lock.status # "none"
Active == lock.status = "active"

(* A task is the rest of an operation: the lock and the queue record still *)
(* to be written, and the lock to restore if the queue write fails.        *)
Task == [at : {"idle", "entered", "lock", "queue", "undo", "leaving"},
         lock : Lock, queue : QueueRecord, undo : Lock]

Rest(at) == [at |-> at, lock |-> NoLock, queue |-> NoRecord, undo |-> NoLock]
PutLock(l) == [Rest("lock") EXCEPT !.lock = l]
PutQueue(q) == [Rest("queue") EXCEPT !.queue = q]

(* Wrong: the closed lock is not restored when the record cannot be written. *)
PutBothNoUndo(l, q) == [at |-> "lock", lock |-> l, queue |-> q, undo |-> NoLock]

(* persistCompletedLaneRunState: the lock first, then the queue record. *)
PutBoth(l, q) == [at |-> "lock", lock |-> l, queue |-> q, undo |-> lock]

-----------------------------------------------------------------------------
(* Decisions.  A process that has entered reads the files and either       *)
(* refuses or plans its writes.                                            *)

Decide(p, ok, plan) ==
  /\ task[p].at = "entered"
  /\ task' = [task EXCEPT ![p] = IF ok THEN plan ELSE Rest("leaving")]
  /\ UNCHANGED <<queue, lock, laneRun, faults>>

(* Wrong: a lock on the record's own attempt does not make it stale. *)
StaleOnlyIfOlder(q, l) == l.status \in Terminal /\ l.seq > q.seq

(* isStaleQueueRecordForTerminalLock *)
Stale(q, l) == l.status \in Terminal /\ l.seq >= q.seq

FreshRecord(blocker) ==
  [NoRecord EXCEPT !.seq = queue.seq + 1, !.status = "queued",
                   !.blocker = blocker]

(* Wrong: enqueue does not look for an active lock. *)
EnqueueUnguarded(p, blocker) ==
  /\ queue.seq < MaxAttempts
  /\ Decide(p, TRUE, PutQueue(FreshRecord(blocker)))

Enqueue(p, blocker) ==
  /\ queue.seq < MaxAttempts
  /\ Decide(p, ~Active, PutQueue(FreshRecord(blocker)))

Claim(p, r) ==
  Decide(p, queue.status = "queued" /\ ~Stale(queue, lock) /\ ~Active,
         PutLock([seq |-> queue.seq, run |-> r, status |-> "active"]))

ClosedLock(status) == [lock EXCEPT !.status = status]

(* Wrong: completion does not compare the lane run with the lock's. *)
CompleteAnyRun(p, r, status) ==
  Decide(p, Active /\ queue.seq = lock.seq,
         PutBoth(ClosedLock(status),
                 [queue EXCEPT !.status = status, !.ended[status] = r]))

(* completeLaneRunLock keeps the record's other metadata, blockerReason    *)
(* included.                                                               *)
Complete(p, r, status) ==
  Decide(p, lock.run = r /\ Active /\ queue.seq = lock.seq,
         PutBoth(ClosedLock(status),
                 [queue EXCEPT !.status = status, !.ended[status] = r]))

(* Wrong: the stopped record takes the lock's status as it was read. *)
StoppedRecordLockStatus(r) ==
  [queue EXCEPT !.status = lock.status, !.blocker = FALSE, !.act = "stop",
                !.ended["revoked"] = r]

StoppedRecord(r) ==
  [queue EXCEPT !.status = "revoked", !.blocker = FALSE, !.act = "stop",
                !.ended["revoked"] = r]

(* Wrong: a lock that is already terminal can be stopped again. *)
StopTerminal(p, r) ==
  IF HasLock
  THEN Decide(p, lock.run = r /\ queue.seq = lock.seq /\ laneRun[r] # "malformed",
              PutBoth(ClosedLock("revoked"), StoppedRecord(r)))
  ELSE Decide(p, queue.status = "queued" /\ queue.blocker /\ laneRun[r] = "blocked",
              PutQueue(StoppedRecord(r)))

(* stopLaneRun: an active claim is revoked; an unclaimed record only if it *)
(* is blocked and the lane run's own state says so too.                    *)
Stop(p, r) ==
  IF HasLock
  THEN Decide(p, /\ lock.run = r /\ Active /\ queue.seq = lock.seq
                 /\ laneRun[r] # "malformed",
              PutBoth(ClosedLock("revoked"), StoppedRecord(r)))
  ELSE Decide(p, queue.status = "queued" /\ queue.blocker /\ laneRun[r] = "blocked",
              PutQueue(StoppedRecord(r)))

(* Without a lock, a requeue needs a terminal record that names r and a    *)
(* lane run state of this work item.                                       *)
VerifiedTerminal(r) ==
  /\ laneRun[r] \in {"blocked", "other"}
  /\ queue.ended[queue.status] = r

(* Wrong: the target is not compared with the lane run of the lock. *)
MayLinkAnyRun(r, action) ==
  /\ queue.status \in IF action = "retry" THEN Terminal
                                          ELSE {"revoked", "superseded"}
  /\ IF HasLock
     THEN ~Active /\ laneRun[r] # "malformed"
     ELSE action = "requeue" /\ VerifiedTerminal(r)

MayLink(r, action) ==
  /\ queue.status \in IF action = "retry" THEN Terminal
                                          ELSE {"revoked", "superseded"}
  /\ IF HasLock
     THEN lock.run = r /\ ~Active /\ laneRun[r] # "malformed"
     ELSE action = "requeue" /\ VerifiedTerminal(r)

LinkedRecord(r, action) ==
  [queue EXCEPT !.seq = queue.seq + 1, !.status = "queued", !.blocker = FALSE,
                !.act = action, !.of[action] = r, !.prev = queue.seq]

(* createLinkedQueuedOperatorAttempt, for retryLaneRun and requeueLaneRun *)
Link(p, r, action) ==
  /\ queue.seq < MaxAttempts
  /\ Decide(p, MayLink(r, action), PutQueue(LinkedRecord(r, action)))

-----------------------------------------------------------------------------
(* The steps around and after a decision.                                  *)

(* Wrong: the mutation lock is not taken. *)
EnterUnlocked(p) ==
  /\ task[p].at = "idle"
  /\ task' = [task EXCEPT ![p] = Rest("entered")]
  /\ UNCHANGED <<queue, lock, laneRun, faults>>

(* withLaneRunMutationLock admits one process at a time. *)
Enter(p) ==
  /\ \A q \in Proc : task[q].at = "idle"
  /\ task' = [task EXCEPT ![p] = Rest("entered")]
  /\ UNCHANGED <<queue, lock, laneRun, faults>>

Leave(p) ==
  /\ task[p].at = "leaving"
  /\ task' = [task EXCEPT ![p] = Rest("idle")]
  /\ UNCHANGED <<queue, lock, laneRun, faults>>

WriteLock(p) ==
  /\ task[p].at = "lock"
  /\ lock' = task[p].lock
  /\ task' = [task EXCEPT ![p] = IF task[p].queue.seq = 0
                                 THEN Rest("leaving")
                                 ELSE [task[p] EXCEPT !.at = "queue"]]
  /\ UNCHANGED <<queue, laneRun, faults>>

WriteQueue(p) ==
  /\ task[p].at = "queue"
  /\ queue' = task[p].queue
  /\ task' = [task EXCEPT ![p] = Rest("leaving")]
  /\ UNCHANGED <<lock, laneRun, faults>>

(* A write that throws has not been renamed into place. *)
FailWrite(p) ==
  /\ task[p].at \in {"lock", "queue"}
  /\ task' = [task EXCEPT ![p] =
               IF task[p].at = "queue" /\ task[p].undo.seq # 0
               THEN [task[p] EXCEPT !.at = "undo"]
               ELSE Rest("leaving")]
  /\ faults' = faults \cup {"write"}
  /\ UNCHANGED <<queue, lock, laneRun>>

Rollback(p) ==
  /\ task[p].at = "undo"
  /\ lock' = task[p].undo
  /\ task' = [task EXCEPT ![p] = Rest("leaving")]
  /\ UNCHANGED <<queue, laneRun, faults>>

(* Completion failed and lock rollback failed: the AggregateError. *)
FailRollback(p) ==
  /\ task[p].at = "undo"
  /\ task' = [task EXCEPT ![p] = Rest("leaving")]
  /\ faults' = faults \cup {"rollback"}
  /\ UNCHANGED <<queue, lock, laneRun>>

(* The process dies; its mutation lock is recovered later. *)
Crash(p) ==
  /\ task[p].at # "idle"
  /\ task' = [task EXCEPT ![p] = Rest("idle")]
  /\ faults' = faults \cup {"crash"}
  /\ UNCHANGED <<queue, lock, laneRun>>

(* The executor and the branch-lane planner write a lane run's own state   *)
(* file without taking the mutation lock, and in place, so that a reader   *)
(* may meet a malformed one.                                               *)
RecordLaneRun(r, file) ==
  /\ laneRun' = [laneRun EXCEPT ![r] = file]
  /\ UNCHANGED <<queue, lock, task, faults>>

-----------------------------------------------------------------------------
Init ==
  /\ queue = NoRecord
  /\ lock = NoLock
  /\ laneRun = [r \in Run |-> "absent"]
  /\ task = [p \in Proc |-> Rest("idle")]
  /\ faults = {}

Operation(p) ==
  \/ \E blocker \in BOOLEAN : Enqueue(p, blocker)
  \/ \E r \in Run : Claim(p, r)
  \/ \E r \in Run, status \in Terminal : Complete(p, r, status)
  \/ \E r \in Run : Stop(p, r)
  \/ \E r \in Run, action \in LinkAction : Link(p, r, action)

Write(p) ==
  \/ WriteLock(p)
  \/ WriteQueue(p)
  \/ FailWrite(p)
  \/ Rollback(p)
  \/ FailRollback(p)

Next ==
  \/ \E p \in Proc : Enter(p) \/ Operation(p) \/ Write(p) \/ Leave(p) \/ Crash(p)
  \/ \E r \in Run, file \in LaneRunFile : RecordLaneRun(r, file)

Spec == Init /\ [][Next]_storeVars

-----------------------------------------------------------------------------
(* Properties.                                                             *)

(* The files and the tasks have the shapes above. *)
TypeOK ==
  /\ queue \in QueueRecord
  /\ lock \in Lock
  /\ laneRun \in [Run -> LaneRunFile]
  /\ task \in [Proc -> Task]
  /\ faults \subseteq {"crash", "write", "rollback"}

(* An active claim holds the current queue record, still queued: no        *)
(* enqueue, retry, requeue or stop may move the record on under a running  *)
(* lane, and no lock may be ahead of the queue.                            *)
ClaimHoldsQueuedRecord ==
  /\ lock.seq <= queue.seq
  /\ Active => queue.status = "queued" /\ queue.seq = lock.seq

(* A terminal record beside a lock is that lock's own record, closed with  *)
(* the same status, and its metadata names the lane run that held it: what *)
(* retry, requeue and reconciliation trust when they pick their target.    *)
TerminalRecordAgreesWithLock ==
  queue.status \in Terminal /\ HasLock =>
    /\ lock.seq = queue.seq
    /\ lock.status = queue.status
    /\ queue.ended[queue.status] = lock.run

(* What a process has planned still fits the files when it writes: a claim *)
(* its queued record, a close the active lock it read (only a stop clears  *)
(* the blocker), a new record the sequence number it counted on and the    *)
(* closed attempt it continues.                                            *)
OpensNext(q) ==
  /\ q.seq = queue.seq + 1 /\ q.status = "queued"
  /\ q.prev # 0 => /\ q.prev = queue.seq
                   /\ queue.status \in Terminal
                   /\ q.of[q.act] = queue.ended[queue.status]

Withdraws(q) ==
  /\ q.seq = queue.seq /\ q.status = "revoked" /\ ~q.blocker
  /\ queue.status = "queued" /\ queue.blocker /\ lock.seq = 0
  /\ q.ended[q.status] \in Run

ClosesRecord(q, l) ==
  /\ q.seq = l.seq /\ q.status = l.status /\ q.ended[q.status] = l.run
  /\ q.blocker # queue.blocker => q.status = "revoked" /\ ~q.blocker

(* The first half of a close is on disk, and can be undone. *)
HalfClosed(t) ==
  /\ lock.status \in Terminal /\ queue.status = "queued" /\ lock.seq = queue.seq
  /\ t.undo.status = "active" /\ t.undo.seq = lock.seq /\ t.undo.run = lock.run

PlanFits(t) ==
  CASE t.at = "lock" /\ t.queue.seq = 0 ->
         /\ queue.status = "queued" /\ ~Active /\ lock.seq < queue.seq
         /\ t.lock.status = "active" /\ t.lock.seq = queue.seq /\ t.lock.run \in Run
    [] t.at = "lock" /\ t.queue.seq # 0 ->
         /\ Active /\ t.undo = lock
         /\ t.lock.seq = lock.seq /\ t.lock.run = lock.run
         /\ t.lock.status \in Terminal /\ ClosesRecord(t.queue, t.lock)
    [] t.at = "queue" /\ t.undo.seq = 0 ->
         ~Active /\ (OpensNext(t.queue) \/ Withdraws(t.queue))
    [] t.at = "queue" /\ t.undo.seq # 0 -> HalfClosed(t) /\ ClosesRecord(t.queue, lock)
    [] t.at = "undo" -> HalfClosed(t)
    [] OTHER -> TRUE

PlansFitTheFiles == \A p \in Proc : PlanFits(task[p])

(* A lock closed in front of a record that still says queued. *)
Torn == lock.status \in Terminal /\ queue.status = "queued" /\ lock.seq = queue.seq

(* Once nobody is inside an operation, a torn pair is the work of a crash  *)
(* or of a rollback that failed too: one failed write never leaves mixed   *)
(* queue and lock state behind.                                            *)
OneFailedWriteLeavesNoMixedState ==
  Torn /\ (\A p \in Proc : task[p].at = "idle") => faults \cap {"crash", "rollback"} # {}

(* A lock never goes back to an earlier attempt, and one attempt is never  *)
(* handed to a second lane run, not even by a rollback.                    *)
AttemptNeverChangesHands ==
  [][lock' # lock => \/ lock'.seq > lock.seq
                     \/ lock'.seq = lock.seq /\ lock'.run = lock.run]_storeVars

(* A linked attempt follows the record it replaces without a gap, starts   *)
(* from a closed one, and names the lane run that closed it, although the  *)
(* code takes that name from the lock or the caller and not from the       *)
(* record's own metadata.                                                  *)
LineageNamesTheClosedRun ==
  [][queue'.seq # queue.seq /\ queue'.prev # 0 =>
       /\ queue'.prev = queue.seq /\ queue'.seq = queue.seq + 1
       /\ queue.status \in Terminal
       /\ queue'.of[queue'.act] = queue.ended[queue.status]]_storeVars

(* The pair of files implements a numbered sequence of attempts, each      *)
(* claimed once and closed once (LaneRunAttempts).                         *)
Phase ==
  IF queue.status # "queued" THEN queue.status
  ELSE IF lock.seq # queue.seq THEN "queued"
  ELSE IF Active THEN "active" ELSE "closing"

OutcomeSeen ==
  IF queue.status \in Terminal THEN queue.status
  ELSE IF Phase = "closing" THEN lock.status ELSE "none"

RunSeen ==
  IF queue.status \in Terminal THEN queue.ended[queue.status]
  ELSE IF lock.seq = queue.seq THEN lock.run ELSE NoRun

Attempts == INSTANCE LaneRunAttempts
              WITH attempt <- queue.seq, phase <- Phase,
                   outcome <- OutcomeSeen, run <- RunSeen

ImplementsAttempts == Attempts!Spec

(* Every step that changes the files is one write that LaneRunFiles        *)
(* allows: what the readers of LaneRunStatus rely on when they look at     *)
(* these files without the mutation lock.                                  *)
View ==
  [record |-> [seq |-> queue.seq, status |-> queue.status, blocker |-> queue.blocker],
   lock |-> [seq |-> lock.seq, status |-> lock.status]]

Outside == INSTANCE LaneRunFiles

ImplementsFiles ==
  /\ View = Outside!NoFiles
  /\ [][View' # View => View' \in Outside!Successors(View)]_storeVars
=============================================================================
