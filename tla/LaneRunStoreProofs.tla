------------------------- MODULE LaneRunStoreProofs --------------------------
(***************************************************************************)
(* Theorems about LaneRunStore, for every set of processes and lane runs   *)
(* and every bound on the number of attempts.                              *)
(***************************************************************************)
EXTENDS LaneRunStore, TLAPS

-----------------------------------------------------------------------------
(* Types.                                                                  *)

(* The values the operations build have the shapes of the files. *)
LEMMA ShapesTyped ==
  /\ NoRecord \in QueueRecord
  /\ NoLock \in Lock
  /\ \A at \in {"idle", "entered", "lock", "queue", "undo", "leaving"} : Rest(at) \in Task
<1>1. NoRecord \in QueueRecord
  BY DEF NoRecord, QueueRecord, Unlinked, RunOrNone, Terminal, LinkAction
<1>2. NoLock \in Lock
  BY DEF NoLock, Lock, RunOrNone
<1> QED
  BY <1>1, <1>2 DEF Rest, Task

LEMMA PutLockTyped ==
  ASSUME NEW l \in Lock
  PROVE  PutLock(l) \in Task
BY ShapesTyped DEF PutLock, Rest, Task

LEMMA PutQueueTyped ==
  ASSUME NEW q \in QueueRecord
  PROVE  PutQueue(q) \in Task
BY ShapesTyped DEF PutQueue, Rest, Task

LEMMA PutBothTyped ==
  ASSUME NEW l \in Lock, NEW q \in QueueRecord, lock \in Lock
  PROVE  PutBoth(l, q) \in Task
BY DEF PutBoth, Task

LEMMA FreshRecordTyped ==
  ASSUME NEW blocker \in BOOLEAN, queue \in QueueRecord
  PROVE  FreshRecord(blocker) \in QueueRecord
<1>1. queue.seq + 1 \in Nat
  BY DEF QueueRecord
<1> QED
  BY <1>1, ShapesTyped DEF FreshRecord, NoRecord, QueueRecord

LEMMA ClosedRecordTyped ==
  ASSUME NEW r \in Run, NEW status \in Terminal, queue \in QueueRecord
  PROVE  [queue EXCEPT !.status = status, !.ended[status] = r] \in QueueRecord
BY DEF QueueRecord, RunOrNone

LEMMA StoppedRecordTyped ==
  ASSUME NEW r \in Run, queue \in QueueRecord
  PROVE  StoppedRecord(r) \in QueueRecord
BY DEF StoppedRecord, QueueRecord, RunOrNone, Terminal

LEMMA LinkedRecordTyped ==
  ASSUME NEW r \in Run, NEW action \in LinkAction, queue \in QueueRecord
  PROVE  LinkedRecord(r, action) \in QueueRecord
<1>1. queue.seq \in Nat /\ queue.seq + 1 \in Nat
  BY DEF QueueRecord
<1>2. [queue.of EXCEPT ![action] = r] \in [LinkAction -> RunOrNone]
  BY DEF QueueRecord, RunOrNone
<1> QED
  BY <1>1, <1>2 DEF LinkedRecord, QueueRecord

LEMMA ClosedLockTyped ==
  ASSUME NEW status \in Terminal, lock \in Lock
  PROVE  ClosedLock(status) \in Lock
BY DEF ClosedLock, Lock

LEMMA DecideTyped ==
  ASSUME TypeOK, NEW p \in Proc, NEW ok, NEW plan, ok => plan \in Task, Decide(p, ok, plan)
  PROVE  TypeOK'
BY ShapesTyped DEF Decide, TypeOK

(* Every operation plans writes of the right shape. *)
LEMMA OperationTyped ==
  ASSUME TypeOK, NEW p \in Proc, Operation(p)
  PROVE  TypeOK'
<1> USE DEF TypeOK
<1>1. ASSUME NEW blocker \in BOOLEAN, Enqueue(p, blocker)
      PROVE  TypeOK'
  BY <1>1, FreshRecordTyped, PutQueueTyped, DecideTyped DEF Enqueue
<1>2. ASSUME NEW r \in Run, Claim(p, r)
      PROVE  TypeOK'
  <2>1. [seq |-> queue.seq, run |-> r, status |-> "active"] \in Lock
    BY DEF Lock, RunOrNone, QueueRecord
  <2> QED
    BY <1>2, <2>1, PutLockTyped, DecideTyped DEF Claim
<1>3. ASSUME NEW r \in Run, NEW status \in Terminal, Complete(p, r, status)
      PROVE  TypeOK'
  BY <1>3, ClosedLockTyped, ClosedRecordTyped, PutBothTyped, DecideTyped DEF Complete
<1>4. ASSUME NEW r \in Run, Stop(p, r)
      PROVE  TypeOK'
  <2>1. PutBoth(ClosedLock("revoked"), StoppedRecord(r)) \in Task
    BY ClosedLockTyped, StoppedRecordTyped, PutBothTyped DEF Terminal
  <2>2. PutQueue(StoppedRecord(r)) \in Task
    BY StoppedRecordTyped, PutQueueTyped
  <2> QED
    BY <1>4, <2>1, <2>2, DecideTyped DEF Stop
<1>5. ASSUME NEW r \in Run, NEW action \in LinkAction, Link(p, r, action)
      PROVE  TypeOK'
  BY <1>5, LinkedRecordTyped, PutQueueTyped, DecideTyped DEF Link
<1> QED
  BY <1>1, <1>2, <1>3, <1>4, <1>5 DEF Operation

LEMMA WriteTyped ==
  ASSUME TypeOK, NEW p \in Proc, Write(p)
  PROVE  TypeOK'
<1> USE ShapesTyped DEF TypeOK
<1>1. ASSUME WriteLock(p) PROVE TypeOK'
  BY <1>1 DEF WriteLock, Task
<1>2. ASSUME WriteQueue(p) PROVE TypeOK'
  BY <1>2 DEF WriteQueue, Task
<1>3. ASSUME FailWrite(p) PROVE TypeOK'
  BY <1>3 DEF FailWrite, Task
<1>4. ASSUME Rollback(p) PROVE TypeOK'
  BY <1>4 DEF Rollback, Task
<1>5. ASSUME FailRollback(p) PROVE TypeOK'
  BY <1>5 DEF FailRollback, Task
<1> QED
  BY <1>1, <1>2, <1>3, <1>4, <1>5 DEF Write

LEMMA StepTyped == TypeOK /\ [Next]_storeVars => TypeOK'
<1> SUFFICES ASSUME TypeOK, [Next]_storeVars PROVE TypeOK'
  OBVIOUS
<1>1. ASSUME NEW p \in Proc, Enter(p) \/ Leave(p) \/ Crash(p) PROVE TypeOK'
  BY <1>1, ShapesTyped DEF TypeOK, Enter, Leave, Crash
<1>2. ASSUME NEW r \in Run, NEW file \in LaneRunFile, RecordLaneRun(r, file)
      PROVE  TypeOK'
  BY <1>2 DEF TypeOK, RecordLaneRun
<1>3. CASE UNCHANGED storeVars
  BY <1>3 DEF TypeOK, storeVars
<1> QED
  BY <1>1, <1>2, <1>3, OperationTyped, WriteTyped DEF Next

(* The queue record, the lock, the lane runs' files and every planned      *)
(* write keep their shape.                                                 *)
THEOREM TypeCorrect == Spec => []TypeOK
<1>1. Init => TypeOK
  BY ShapesTyped DEF Init, TypeOK, LaneRunFile
<1> QED
  BY <1>1, StepTyped, PTL DEF Spec

-----------------------------------------------------------------------------
(* The inductive invariant.                                                *)

(* A file exists exactly when it has a sequence number. *)
Numbered ==
  /\ lock.status = "none" <=> lock.seq = 0
  /\ queue.status = "none" <=> queue.seq = 0

OneInside ==
  \A p, q \in Proc : task[p].at # "idle" /\ task[q].at # "idle" => p = q

FilesAgree == Numbered /\ ClaimHoldsQueuedRecord /\ TerminalRecordAgreesWithLock

(* The files agree with each other, at most one process is inside an       *)
(* operation, and what it still has to write fits the files it read.       *)
IInv == TypeOK /\ FilesAgree /\ OneInside /\ PlansFitTheFiles

(* A process that is not between a decision and its last write has no plan *)
LEMMA RestFits ==
  ASSUME NEW at \in {"idle", "entered", "leaving"}
  PROVE  PlanFits(Rest(at))
BY DEF PlanFits, Rest

(* A step that leaves both files alone and gives its process a plan that   *)
(* fits them keeps the invariant.                                          *)
LEMMA QuietStep ==
  ASSUME IInv, NEW p \in Proc, NEW t,
         UNCHANGED <<queue, lock>>, TypeOK',
         task' = [task EXCEPT ![p] = t],
         PlanFits(t),
         \A q \in Proc : q # p => task[q].at = "idle"
  PROVE  IInv'
<1> USE DEF IInv
<1>1. FilesAgree'
  BY DEF FilesAgree, Numbered, ClaimHoldsQueuedRecord, TerminalRecordAgreesWithLock,
         HasLock, Active
<1>2. task'[p] = t /\ \A q \in Proc : q # p => task'[q] = task[q]
  BY DEF TypeOK
<1>3. OneInside'
  BY <1>2 DEF OneInside
<1>4. ASSUME NEW q \in Proc PROVE PlanFits(task[q])'
  <2>1. PlanFits(task'[q])
    BY <1>2 DEF PlansFitTheFiles
  <2> QED
    BY <2>1 DEF PlanFits, HalfClosed, ClosesRecord, OpensNext, Withdraws, Active
<1> QED
  BY <1>1, <1>3, <1>4 DEF PlansFitTheFiles

(* Everyone else is outside while a process is inside. *)
LEMMA OthersIdle ==
  ASSUME IInv, NEW p \in Proc, task[p].at # "idle"
  PROVE  \A q \in Proc : q # p => task[q].at = "idle"
BY DEF IInv, OneInside

(* A decision keeps the invariant if the plan it makes fits. *)
LEMMA DecideKeeps ==
  ASSUME IInv, TypeOK', NEW p \in Proc, NEW ok, NEW plan,
         ok => PlanFits(plan), Decide(p, ok, plan)
  PROVE  IInv'
<1>1. PlanFits(IF ok THEN plan ELSE Rest("leaving"))
  BY RestFits
<1>2. \A q \in Proc : q # p => task[q].at = "idle"
  BY OthersIdle DEF Decide
<1> QED
  BY <1>1, <1>2, QuietStep DEF Decide

-----------------------------------------------------------------------------
(* Every operation's plan fits the files it was made from.                 *)

LEMMA PutQueueFits ==
  ASSUME NEW q, ~Active, OpensNext(q) \/ Withdraws(q)
  PROVE  PlanFits(PutQueue(q))
BY DEF PlanFits, PutQueue, Rest, NoLock

LEMMA CloseFits ==
  ASSUME IInv, Active, NEW q, NEW status \in Terminal,
         q.seq = lock.seq, q.status = status, q.ended[status] = lock.run,
         q.blocker # queue.blocker => status = "revoked" /\ ~q.blocker
  PROVE  PlanFits(PutBoth(ClosedLock(status), q))
<1>1. lock \in Lock /\ lock.seq # 0
  BY DEF IInv, TypeOK, FilesAgree, Numbered, Active
<1>2. /\ ClosedLock(status).seq = lock.seq
      /\ ClosedLock(status).run = lock.run
      /\ ClosedLock(status).status = status
  BY <1>1 DEF ClosedLock, Lock
<1> QED
  BY <1>1, <1>2 DEF PlanFits, PutBoth, ClosesRecord

LEMMA StoppedRecordFields ==
  ASSUME NEW r, queue \in QueueRecord
  PROVE  /\ StoppedRecord(r).seq = queue.seq
         /\ StoppedRecord(r).status = "revoked"
         /\ ~StoppedRecord(r).blocker
         /\ StoppedRecord(r).ended["revoked"] = r
BY DEF StoppedRecord, QueueRecord, Terminal

LEMMA OperationKeeps ==
  ASSUME IInv, NEW p \in Proc, Operation(p)
  PROVE  IInv'
<1>0. TypeOK' /\ queue \in QueueRecord /\ lock \in Lock
  BY OperationTyped DEF IInv, TypeOK
<1>1. ASSUME NEW blocker \in BOOLEAN, Enqueue(p, blocker)
      PROVE  IInv'
  <2>1. OpensNext(FreshRecord(blocker))
    BY <1>0 DEF OpensNext, FreshRecord, NoRecord, QueueRecord
  <2> QED
    BY <1>0, <1>1, <2>1, PutQueueFits, DecideKeeps DEF Enqueue
<1>2. ASSUME NEW r \in Run, Claim(p, r)
      PROVE  IInv'
  <2> DEFINE new == [seq |-> queue.seq, run |-> r, status |-> "active"]
             ok == queue.status = "queued" /\ ~Stale(queue, lock) /\ ~Active
  <2>1. ASSUME ok PROVE lock.seq < queue.seq
    <3>1. lock.seq \in Nat /\ queue.seq \in Nat /\ lock.status \in {"none", "active"} \cup Terminal
      BY <1>0 DEF Lock, QueueRecord
    <3>2. CASE lock.status = "none"
      BY <2>1, <3>1, <3>2 DEF IInv, FilesAgree, Numbered
    <3>3. CASE lock.status \in Terminal
      BY <2>1, <3>1, <3>3 DEF Stale
    <3> QED
      BY <2>1, <3>1, <3>2, <3>3 DEF Active
  <2>2. ok => PlanFits(PutLock(new))
    BY <2>1 DEF PlanFits, PutLock, Rest, NoRecord
  <2> QED
    BY <1>0, <1>2, <2>2, DecideKeeps DEF Claim
<1>3. ASSUME NEW r \in Run, NEW status \in Terminal, Complete(p, r, status)
      PROVE  IInv'
  <2> DEFINE q == [queue EXCEPT !.status = status, !.ended[status] = r]
  <2>1. /\ q.seq = queue.seq /\ q.status = status /\ q.ended[status] = r
        /\ q.blocker = queue.blocker
    BY <1>0 DEF QueueRecord
  <2>2. lock.run = r /\ Active /\ queue.seq = lock.seq
          => PlanFits(PutBoth(ClosedLock(status), q))
    BY <2>1, CloseFits
  <2> QED
    BY <1>0, <1>3, <2>2, DecideKeeps DEF Complete
<1>4. ASSUME NEW r \in Run, Stop(p, r)
      PROVE  IInv'
  <2>1. lock.run = r /\ Active /\ queue.seq = lock.seq
          => PlanFits(PutBoth(ClosedLock("revoked"), StoppedRecord(r)))
    BY <1>0, StoppedRecordFields, CloseFits DEF Terminal
  <2>2. ~HasLock /\ queue.status = "queued" /\ queue.blocker
          => PlanFits(PutQueue(StoppedRecord(r)))
    <3> SUFFICES ASSUME ~HasLock, queue.status = "queued", queue.blocker
                 PROVE  PlanFits(PutQueue(StoppedRecord(r)))
      OBVIOUS
    <3>1. lock.seq = 0 /\ ~Active
      BY DEF IInv, FilesAgree, Numbered, HasLock, Active
    <3>2. Withdraws(StoppedRecord(r))
      BY <1>0, <3>1, StoppedRecordFields DEF Withdraws
    <3> QED
      BY <3>1, <3>2, PutQueueFits
  <2> QED
    BY <1>0, <1>4, <2>1, <2>2, DecideKeeps DEF Stop
<1>5. ASSUME NEW r \in Run, NEW action \in LinkAction, Link(p, r, action)
      PROVE  IInv'
  <2> DEFINE q == LinkedRecord(r, action)
  <2>1. /\ q.seq = queue.seq + 1 /\ q.status = "queued" /\ q.prev = queue.seq
        /\ q.of[q.act] = r
    BY <1>0 DEF LinkedRecord, QueueRecord
  <2>2. ASSUME MayLink(r, action) PROVE OpensNext(q) /\ ~Active
    <3>1. queue.status \in Terminal
      BY <2>2 DEF MayLink, Terminal
    <3>2. CASE HasLock
      BY <2>1, <2>2, <3>1, <3>2
      DEF MayLink, OpensNext, IInv, FilesAgree, TerminalRecordAgreesWithLock
    <3>3. CASE ~HasLock
      BY <2>1, <2>2, <3>1, <3>3 DEF MayLink, VerifiedTerminal, OpensNext, HasLock, Active
    <3> QED
      BY <3>2, <3>3
  <2> QED
    BY <1>0, <1>5, <2>2, PutQueueFits, DecideKeeps DEF Link
<1> QED
  BY <1>1, <1>2, <1>3, <1>4, <1>5 DEF Operation

-----------------------------------------------------------------------------
(* Writes.                                                                 *)

(* A process that leaves its last write behind, and everyone else outside: *)
(* only the files remain to be checked.                                    *)
LEMMA LastWrite ==
  ASSUME IInv, NEW p \in Proc, task[p].at # "idle",
         task' = [task EXCEPT ![p] = Rest("leaving")],
         TypeOK', FilesAgree'
  PROVE  IInv'
<1>1. \A q \in Proc : q # p => task'[q].at = "idle"
  BY OthersIdle DEF IInv, TypeOK
<1>2. task'[p].at = "leaving"
  BY DEF IInv, TypeOK, Rest
<1>3. OneInside'
  BY <1>1, <1>2 DEF OneInside
<1>4. PlansFitTheFiles'
  BY <1>1, <1>2 DEF PlansFitTheFiles, PlanFits
<1> QED
  BY <1>3, <1>4 DEF IInv

LEMMA WriteLockKeeps ==
  ASSUME IInv, NEW p \in Proc, WriteLock(p)
  PROVE  IInv'
<1>0. /\ TypeOK' /\ queue \in QueueRecord /\ lock \in Lock /\ task[p] \in Task
      /\ PlanFits(task[p]) /\ FilesAgree
      /\ task[p].at = "lock" /\ lock' = task[p].lock /\ queue' = queue
  BY WriteTyped DEF IInv, TypeOK, Write, WriteLock, PlansFitTheFiles
<1>1. CASE task[p].queue.seq = 0
  <2>1. FilesAgree'
    BY <1>0, <1>1
    DEF PlanFits, FilesAgree, Numbered, ClaimHoldsQueuedRecord,
        TerminalRecordAgreesWithLock, HasLock, Active, Terminal, Lock, QueueRecord
  <2> QED
    BY <1>0, <1>1, <2>1, LastWrite DEF WriteLock
<1>2. CASE task[p].queue.seq # 0
  <2> DEFINE t == [task[p] EXCEPT !.at = "queue"]
  <2>1. FilesAgree'
    BY <1>0, <1>2
    DEF PlanFits, FilesAgree, Numbered, ClaimHoldsQueuedRecord,
        TerminalRecordAgreesWithLock, HasLock, Active, Terminal, Lock, QueueRecord
  <2>2. t.at = "queue" /\ t.queue = task[p].queue /\ t.undo = task[p].undo
    BY <1>0 DEF Task
  <2>3. task'[p] = t /\ \A q \in Proc : q # p => task'[q].at = "idle"
    BY <1>0, <1>2, OthersIdle DEF IInv, TypeOK, WriteLock
  <2>4. PlanFits(task[p])'
    BY <1>0, <1>2, <2>2, <2>3
    DEF PlanFits, HalfClosed, ClosesRecord, FilesAgree, Numbered, ClaimHoldsQueuedRecord,
        Active, Terminal
  <2>5. OneInside'
    BY <2>3 DEF OneInside
  <2>6. PlansFitTheFiles'
    BY <2>3, <2>4 DEF PlansFitTheFiles, PlanFits
  <2> QED
    BY <1>0, <2>1, <2>5, <2>6 DEF IInv
<1> QED
  BY <1>1, <1>2

LEMMA WriteQueueKeeps ==
  ASSUME IInv, NEW p \in Proc, WriteQueue(p)
  PROVE  IInv'
<1>0. /\ TypeOK' /\ queue \in QueueRecord /\ lock \in Lock /\ task[p] \in Task
      /\ PlanFits(task[p]) /\ FilesAgree
      /\ task[p].at = "queue" /\ queue' = task[p].queue /\ lock' = lock
  BY WriteTyped DEF IInv, TypeOK, Write, WriteQueue, PlansFitTheFiles
<1>1. CASE task[p].undo.seq = 0
  <2>1. ~Active /\ (OpensNext(queue') \/ Withdraws(queue'))
    BY <1>0, <1>1 DEF PlanFits
  <2>2. ASSUME OpensNext(queue') PROVE FilesAgree'
    BY <1>0, <2>1, <2>2
    DEF OpensNext, FilesAgree, Numbered, ClaimHoldsQueuedRecord,
        TerminalRecordAgreesWithLock, HasLock, Active, Terminal, Lock, QueueRecord
  <2>3. ASSUME Withdraws(queue') PROVE FilesAgree'
    BY <1>0, <2>1, <2>3
    DEF Withdraws, FilesAgree, Numbered, ClaimHoldsQueuedRecord,
        TerminalRecordAgreesWithLock, HasLock, Active, Terminal, Lock, QueueRecord
  <2>4. FilesAgree'
    BY <2>1, <2>2, <2>3
  <2> QED
    BY <1>0, <2>4, LastWrite DEF WriteQueue
<1>2. CASE task[p].undo.seq # 0
  BY <1>0, <1>2, LastWrite
  DEF PlanFits, HalfClosed, ClosesRecord, FilesAgree, Numbered, ClaimHoldsQueuedRecord,
      TerminalRecordAgreesWithLock, HasLock, Active, Terminal, Lock, QueueRecord, WriteQueue
<1> QED
  BY <1>1, <1>2

LEMMA RollbackKeeps ==
  ASSUME IInv, NEW p \in Proc, Rollback(p)
  PROVE  IInv'
<1>0. /\ TypeOK' /\ queue \in QueueRecord /\ lock \in Lock /\ task[p] \in Task
      /\ PlanFits(task[p]) /\ FilesAgree
      /\ task[p].at = "undo" /\ lock' = task[p].undo /\ queue' = queue
  BY WriteTyped DEF IInv, TypeOK, Write, Rollback, PlansFitTheFiles
<1> QED
  BY <1>0, LastWrite
  DEF PlanFits, HalfClosed, FilesAgree, Numbered, ClaimHoldsQueuedRecord,
      TerminalRecordAgreesWithLock, HasLock, Active, Terminal, Lock, QueueRecord, Rollback

LEMMA FailWriteKeeps ==
  ASSUME IInv, NEW p \in Proc, FailWrite(p)
  PROVE  IInv'
<1>0. /\ TypeOK' /\ task[p] \in Task /\ PlanFits(task[p])
      /\ \A q \in Proc : q # p => task[q].at = "idle"
  BY WriteTyped, OthersIdle DEF IInv, TypeOK, Write, FailWrite, PlansFitTheFiles
<1>1. CASE task[p].at = "queue" /\ task[p].undo.seq # 0
  <2> DEFINE t == [task[p] EXCEPT !.at = "undo"]
  <2>1. t.at = "undo" /\ t.undo = task[p].undo
    BY <1>0 DEF Task
  <2>2. PlanFits(t)
    BY <1>0, <1>1, <2>1 DEF PlanFits, HalfClosed
  <2> QED
    BY <1>0, <1>1, <2>2, QuietStep DEF FailWrite
<1>2. CASE ~(task[p].at = "queue" /\ task[p].undo.seq # 0)
  <2>1. task' = [task EXCEPT ![p] = Rest("leaving")] /\ UNCHANGED <<queue, lock>>
    BY <1>2 DEF FailWrite
  <2> QED
    BY <1>0, <2>1, RestFits, QuietStep
<1> QED
  BY <1>1, <1>2

LEMMA WriteKeeps ==
  ASSUME IInv, NEW p \in Proc, Write(p)
  PROVE  IInv'
<1>1. ASSUME FailRollback(p) PROVE IInv'
  BY <1>1, WriteTyped, OthersIdle, RestFits, QuietStep DEF IInv, Write, FailRollback
<1> QED
  BY <1>1, WriteLockKeeps, WriteQueueKeeps, RollbackKeeps, FailWriteKeeps DEF Write

LEMMA StepKeeps == IInv /\ [Next]_storeVars => IInv'
<1> SUFFICES ASSUME IInv, [Next]_storeVars PROVE IInv'
  OBVIOUS
<1>0. TypeOK'
  BY StepTyped DEF IInv
<1>1. ASSUME NEW p \in Proc, Enter(p) PROVE IInv'
  BY <1>0, <1>1, RestFits, QuietStep DEF Enter
<1>2. ASSUME NEW p \in Proc, Leave(p) PROVE IInv'
  BY <1>0, <1>2, RestFits, OthersIdle, QuietStep DEF Leave
<1>3. ASSUME NEW p \in Proc, Crash(p) PROVE IInv'
  BY <1>0, <1>3, RestFits, OthersIdle, QuietStep DEF Crash
<1>4. ASSUME UNCHANGED <<queue, lock, task>> PROVE IInv'
  BY <1>0, <1>4
  DEF IInv, FilesAgree, Numbered, ClaimHoldsQueuedRecord, TerminalRecordAgreesWithLock,
      HasLock, Active, OneInside, PlansFitTheFiles, PlanFits, HalfClosed, ClosesRecord,
      OpensNext, Withdraws
<1> QED
  BY <1>1, <1>2, <1>3, <1>4, OperationKeeps, WriteKeeps DEF Next, storeVars, RecordLaneRun

LEMMA InitGood == Init => IInv
<1> SUFFICES ASSUME Init PROVE IInv
  OBVIOUS
<1>1. TypeOK
  BY ShapesTyped DEF Init, TypeOK, LaneRunFile
<1>2. FilesAgree
  BY DEF Init, FilesAgree, Numbered, ClaimHoldsQueuedRecord,
         TerminalRecordAgreesWithLock, HasLock, Active, NoLock, NoRecord, Terminal
<1>3. OneInside /\ PlansFitTheFiles
  BY RestFits DEF Init, OneInside, PlansFitTheFiles, Rest
<1> QED
  BY <1>1, <1>2, <1>3 DEF IInv

LEMMA InvariantHolds == Spec => []IInv
BY InitGood, StepKeeps, PTL DEF Spec

(* An active claim always holds the current, queued record. *)
THEOREM ClaimSafety == Spec => []ClaimHoldsQueuedRecord
<1>1. IInv => ClaimHoldsQueuedRecord
  BY DEF IInv, FilesAgree
<1> QED
  BY <1>1, InvariantHolds, PTL

(* A terminal record agrees with the lock beside it. *)
THEOREM TerminalAgreement == Spec => []TerminalRecordAgreesWithLock
<1>1. IInv => TerminalRecordAgreesWithLock
  BY DEF IInv, FilesAgree
<1> QED
  BY <1>1, InvariantHolds, PTL

(* What a process has decided to write still fits the files. *)
THEOREM PlansStayGood == Spec => []PlansFitTheFiles
<1>1. IInv => PlansFitTheFiles
  BY DEF IInv
<1> QED
  BY <1>1, InvariantHolds, PTL

-----------------------------------------------------------------------------
(* What a step may do to the files.                                        *)

LEMMA OnlyWritesTouchFiles ==
  ASSUME [Next]_storeVars
  PROVE  \/ UNCHANGED <<queue, lock>>
         \/ \E p \in Proc : WriteLock(p) \/ WriteQueue(p) \/ Rollback(p)
BY DEF Next, storeVars, Enter, Leave, Crash, RecordLaneRun, Operation, Enqueue, Claim,
       Complete, Stop, Link, Decide, Write, FailWrite, FailRollback

(* No attempt is handed to a second lane run, and locks never go back. *)
THEOREM HandsTheorem == Spec => AttemptNeverChangesHands
<1> DEFINE Kept == lock' # lock => \/ lock'.seq > lock.seq
                                   \/ lock'.seq = lock.seq /\ lock'.run = lock.run
<1>1. IInv /\ [Next]_storeVars => [Kept]_storeVars
  <2> SUFFICES ASSUME IInv, [Next]_storeVars PROVE Kept
    OBVIOUS
  <2>0. lock \in Lock /\ queue \in QueueRecord
    BY DEF IInv, TypeOK
  <2>1. ASSUME NEW p \in Proc, WriteLock(p) \/ Rollback(p) PROVE Kept
    <3>1. PlanFits(task[p]) /\ task[p] \in Task
      BY DEF IInv, PlansFitTheFiles, TypeOK
    <3> QED
      BY <2>0, <2>1, <3>1 DEF WriteLock, Rollback, PlanFits, HalfClosed, Lock, QueueRecord, Task
  <2>2. ASSUME NEW p \in Proc, WriteQueue(p) PROVE Kept
    BY <2>2 DEF WriteQueue
  <2> QED
    BY <2>1, <2>2, OnlyWritesTouchFiles
<1> QED
  BY <1>1, InvariantHolds, PTL DEF Spec, AttemptNeverChangesHands

(* A linked attempt names the lane run that closed the one it continues. *)
THEOREM LineageTheorem == Spec => LineageNamesTheClosedRun
<1> DEFINE Linked == queue'.seq # queue.seq /\ queue'.prev # 0 =>
                       /\ queue'.prev = queue.seq /\ queue'.seq = queue.seq + 1
                       /\ queue.status \in Terminal
                       /\ queue'.of[queue'.act] = queue.ended[queue.status]
<1>1. IInv /\ [Next]_storeVars => [Linked]_storeVars
  <2> SUFFICES ASSUME IInv, [Next]_storeVars PROVE Linked
    OBVIOUS
  <2>1. ASSUME NEW p \in Proc, WriteQueue(p) PROVE Linked
    <3>1. PlanFits(task[p]) /\ task[p].at = "queue" /\ queue' = task[p].queue
      BY <2>1 DEF IInv, PlansFitTheFiles, WriteQueue
    <3>2. OpensNext(queue') \/ queue'.seq = queue.seq
      BY <3>1 DEF PlanFits, Withdraws, HalfClosed, ClosesRecord
    <3> QED
      BY <3>2 DEF OpensNext
  <2>2. ASSUME NEW p \in Proc, WriteLock(p) \/ Rollback(p) PROVE Linked
    BY <2>2 DEF WriteLock, Rollback
  <2> QED
    BY <2>1, <2>2, OnlyWritesTouchFiles
<1> QED
  BY <1>1, InvariantHolds, PTL DEF Spec, LineageNamesTheClosedRun

(* A closed record is final: nothing rewrites it or the lock beside it,    *)
(* not a late completion, stop or rollback, until the next number is       *)
(* queued in its place.                                                    *)
ClosedRecordStays ==
  [][queue.status \in Terminal =>
       /\ lock' = lock
       /\ queue' # queue => queue'.seq = queue.seq + 1 /\ queue'.status = "queued"]_storeVars

(* A record leaves its terminal status only for a new attempt.             *)
THEOREM ClosedTheorem == Spec => ClosedRecordStays
<1> DEFINE Closed == queue.status \in Terminal =>
                       /\ lock' = lock
                       /\ queue' # queue => /\ queue'.seq = queue.seq + 1
                                           /\ queue'.status = "queued"
<1>1. IInv /\ [Next]_storeVars => [Closed]_storeVars
  <2> SUFFICES ASSUME IInv, [Next]_storeVars, queue.status \in Terminal
               PROVE  /\ lock' = lock
                      /\ queue' # queue => queue'.seq = queue.seq + 1 /\ queue'.status = "queued"
    OBVIOUS
  <2>1. queue.status # "queued" /\ ~Active
    BY DEF Terminal, IInv, FilesAgree, ClaimHoldsQueuedRecord
  <2>2. ASSUME NEW p \in Proc PROVE ~WriteLock(p) /\ ~Rollback(p)
    BY <2>1 DEF IInv, PlansFitTheFiles, PlanFits, HalfClosed, WriteLock, Rollback
  <2>3. ASSUME NEW p \in Proc, WriteQueue(p) PROVE OpensNext(queue') /\ lock' = lock
    BY <2>1, <2>3 DEF IInv, PlansFitTheFiles, PlanFits, HalfClosed, Withdraws, WriteQueue
  <2> QED
    BY <2>2, <2>3, OnlyWritesTouchFiles DEF OpensNext
<1> QED
  BY <1>1, InvariantHolds, PTL DEF Spec, ClosedRecordStays

-----------------------------------------------------------------------------
(* Refinement: the files implement LaneRunAttempts.                        *)

LEMMA WriteLockMaps ==
  ASSUME IInv, IInv', NEW p \in Proc, WriteLock(p)
  PROVE  Attempts!Next
<1>0. /\ queue \in QueueRecord /\ lock \in Lock /\ task[p] \in Task
      /\ PlanFits(task[p]) /\ FilesAgree /\ FilesAgree'
      /\ task[p].at = "lock" /\ lock' = task[p].lock /\ queue' = queue
  BY DEF IInv, TypeOK, WriteLock, PlansFitTheFiles
<1>1. CASE task[p].queue.seq = 0
  <2>1. /\ queue.status = "queued" /\ lock.seq # queue.seq
        /\ lock'.seq = queue.seq /\ lock'.status = "active" /\ lock'.run \in Run
    BY <1>0, <1>1 DEF PlanFits, Lock, QueueRecord
  <2>2. /\ Phase = "queued" /\ Phase' = "active"
        /\ OutcomeSeen = "none" /\ OutcomeSeen' = "none"
    BY <1>0, <2>1 DEF Phase, OutcomeSeen, Active, Terminal
  <2>3. RunSeen' = lock'.run
    BY <1>0, <2>1 DEF RunSeen, Terminal
  <2>4. Attempts!Claim(lock'.run)
    BY <1>0, <2>2, <2>3 DEF Attempts!Claim
  <2> QED
    BY <2>1, <2>4 DEF Attempts!Next
<1>2. CASE task[p].queue.seq # 0
  <2>1. /\ Active /\ queue.status = "queued" /\ lock.seq = queue.seq
        /\ lock'.seq = lock.seq /\ lock'.run = lock.run /\ lock'.status \in Terminal
    BY <1>0, <1>2 DEF PlanFits, FilesAgree, ClaimHoldsQueuedRecord
  <2>2. Attempts!BeginClose(lock'.status)
    BY <1>0, <2>1
    DEF Attempts!BeginClose, Phase, OutcomeSeen, RunSeen, Active, Terminal
  <2> QED
    BY <2>1, <2>2 DEF Attempts!Next, Attempts!Outcome, Terminal
<1> QED
  BY <1>1, <1>2

LEMMA WriteQueueMaps ==
  ASSUME IInv, IInv', NEW p \in Proc, WriteQueue(p)
  PROVE  Attempts!Next
<1>0. /\ queue \in QueueRecord /\ lock \in Lock /\ FilesAgree
      /\ PlanFits(task[p])
      /\ task[p].at = "queue" /\ queue' = task[p].queue /\ lock' = lock
  BY DEF IInv, TypeOK, WriteQueue, PlansFitTheFiles
<1>1. CASE task[p].undo.seq = 0 /\ OpensNext(queue')
  <2>1. /\ ~Active /\ queue'.seq = queue.seq + 1 /\ queue'.status = "queued"
        /\ lock'.seq # queue'.seq
    BY <1>0, <1>1
    DEF PlanFits, OpensNext, FilesAgree, ClaimHoldsQueuedRecord, Lock, QueueRecord
  <2>2. Attempts!Open
    BY <1>0, <2>1
    DEF Attempts!Open, Attempts!Unclaimed, Phase, OutcomeSeen, RunSeen, Active, Terminal,
        QueueRecord
  <2> QED
    BY <2>2 DEF Attempts!Next
<1>2. CASE task[p].undo.seq = 0 /\ Withdraws(queue')
  <2>1. /\ queue'.seq = queue.seq /\ queue'.status = "revoked" /\ queue.status = "queued"
        /\ lock.seq # queue.seq /\ queue'.ended["revoked"] \in Run
    BY <1>0, <1>2 DEF Withdraws, FilesAgree, Numbered
  <2>2. Phase = "queued" /\ Phase' = "revoked"
    BY <1>0, <2>1 DEF Phase
  <2>3. OutcomeSeen' = "revoked" /\ RunSeen' = queue'.ended["revoked"]
    BY <1>0, <2>1, <2>2 DEF OutcomeSeen, RunSeen, Terminal
  <2>4. Attempts!Withdraw(queue'.ended["revoked"])
    BY <2>1, <2>2, <2>3 DEF Attempts!Withdraw
  <2> QED
    BY <2>1, <2>4 DEF Attempts!Next
<1>3. CASE task[p].undo.seq # 0
  <2>1. /\ lock.status \in Terminal /\ queue.status = "queued" /\ lock.seq = queue.seq
        /\ ClosesRecord(queue', lock)
    BY <1>0, <1>3 DEF PlanFits, HalfClosed
  <2>2. Attempts!Close
    BY <1>0, <2>1
    DEF Attempts!Close, Phase, OutcomeSeen, RunSeen, ClosesRecord, Active, Terminal
  <2> QED
    BY <2>2 DEF Attempts!Next
<1> QED
  BY <1>0, <1>1, <1>2, <1>3 DEF PlanFits

LEMMA RollbackMaps ==
  ASSUME IInv, NEW p \in Proc, Rollback(p)
  PROVE  Attempts!Next
<1>1. /\ PlanFits(task[p]) /\ task[p].at = "undo"
      /\ lock' = task[p].undo /\ queue' = queue
  BY DEF IInv, Rollback, PlansFitTheFiles
<1>2. HalfClosed(task[p])
  BY <1>1 DEF PlanFits
<1>3. Attempts!Reopen
  BY <1>1, <1>2
  DEF HalfClosed, Attempts!Reopen, Phase, OutcomeSeen, RunSeen, Active, Terminal
<1> QED
  BY <1>3 DEF Attempts!Next

(* The two files, written one after the other by processes that may die    *)
(* anywhere, implement the numbered sequence of attempts.                  *)
THEOREM Refinement == Spec => ImplementsAttempts
<1>1. Init => Attempts!Init
  <2> SUFFICES ASSUME Init PROVE Attempts!Init
    OBVIOUS
  <2>1. /\ queue.status = "none" /\ queue.seq = 0
        /\ lock.seq = 0 /\ lock.run = NoRun
    BY DEF Init, NoRecord, NoLock
  <2>2. Phase = "none" /\ RunSeen = NoRun
    BY <2>1 DEF Phase, RunSeen, Terminal
  <2>3. OutcomeSeen = "none"
    BY <2>1, <2>2 DEF OutcomeSeen, Terminal
  <2> QED
    BY <2>1, <2>2, <2>3 DEF Attempts!Init
<1>2. IInv /\ IInv' /\ [Next]_storeVars => [Attempts!Next]_(Attempts!attemptVars)
  <2> SUFFICES ASSUME IInv, IInv', [Next]_storeVars
               PROVE  Attempts!Next \/ UNCHANGED Attempts!attemptVars
    OBVIOUS
  <2>1. CASE UNCHANGED <<queue, lock>>
    BY <2>1 DEF Attempts!attemptVars, Phase, OutcomeSeen, RunSeen, Active
  <2> QED
    BY <2>1, WriteLockMaps, WriteQueueMaps, RollbackMaps, OnlyWritesTouchFiles
<1> QED
  BY <1>1, <1>2, InvariantHolds, PTL DEF Spec, ImplementsAttempts, Attempts!Spec
-----------------------------------------------------------------------------
(* Refinement: seen from outside, the files change as LaneRunFiles says.   *)

LEMMA ViewFields ==
  /\ View.record = [seq |-> queue.seq, status |-> queue.status, blocker |-> queue.blocker]
  /\ View.lock = [seq |-> lock.seq, status |-> lock.status]
BY DEF View

LEMMA RecordWritten ==
  ASSUME NEW f, NEW seq, NEW status, NEW blockers, NEW b \in blockers
  PROVE  [record |-> [seq |-> seq, status |-> status, blocker |-> b], lock |-> f.lock]
           \in Outside!WithRecord(f, seq, status, blockers)
BY DEF Outside!WithRecord

LEMMA WriteLockIsOutside ==
  ASSUME IInv, NEW p \in Proc, WriteLock(p)
  PROVE  View' \in Outside!Successors(View)
<1>0. /\ PlanFits(task[p]) /\ task[p].at = "lock"
      /\ lock' = task[p].lock /\ queue' = queue
      /\ lock.seq \in Nat /\ queue.seq \in Nat
  BY DEF IInv, TypeOK, WriteLock, PlansFitTheFiles, Lock, QueueRecord
<1>1. View' = [record |-> View.record, lock |-> [seq |-> lock'.seq, status |-> lock'.status]]
  BY <1>0 DEF View
<1>2. CASE task[p].queue.seq = 0
  <2>1. /\ queue.status = "queued" /\ ~Active /\ lock.seq < queue.seq
        /\ lock'.status = "active" /\ lock'.seq = queue.seq
    BY <1>0, <1>2 DEF PlanFits
  <2>2. View' \in Outside!WithLock(View, View.record.seq, {"active"})
    BY <1>1, <2>1, ViewFields DEF Outside!WithLock
  <2>3. /\ View.record.status = "queued" /\ ~Outside!Stale(View.record, View.lock)
        /\ ~Outside!Active(View)
    BY <1>0, <2>1, ViewFields DEF Outside!Stale, Outside!Active, Active
  <2>4. View' \in Outside!Claimed(View)
    BY <2>2, <2>3 DEF Outside!Claimed, Outside!Provided
  <2> QED
    BY <2>4 DEF Outside!Successors
<1>3. CASE task[p].queue.seq # 0
  <2>1. Active /\ lock'.seq = lock.seq /\ lock'.status \in Outside!Terminal
    BY <1>0, <1>3 DEF PlanFits, Terminal, Outside!Terminal
  <2>2. View' \in Outside!WithLock(View, View.lock.seq, Outside!Terminal)
    BY <1>1, <2>1, ViewFields DEF Outside!WithLock
  <2>3. Outside!Active(View)
    BY <2>1, ViewFields DEF Outside!Active, Active
  <2>4. View' \in Outside!Closed(View)
    BY <2>2, <2>3 DEF Outside!Closed, Outside!Provided
  <2> QED
    BY <2>4 DEF Outside!Successors
<1> QED
  BY <1>2, <1>3

LEMMA WriteQueueIsOutside ==
  ASSUME IInv, TypeOK', NEW p \in Proc, WriteQueue(p)
  PROVE  View' \in Outside!Successors(View)
<1>0. /\ PlanFits(task[p]) /\ task[p].at = "queue" /\ FilesAgree
      /\ queue' = task[p].queue /\ lock' = lock
      /\ queue.blocker \in BOOLEAN /\ queue'.blocker \in BOOLEAN
  BY DEF IInv, TypeOK, WriteQueue, PlansFitTheFiles, QueueRecord
<1> DEFINE record == [seq |-> queue'.seq, status |-> queue'.status,
                      blocker |-> queue'.blocker]
<1>1. View' = [record |-> record, lock |-> View.lock]
  BY <1>0 DEF View
<1>2. CASE task[p].undo.seq = 0 /\ OpensNext(queue')
  <2>1. ~Active /\ queue'.seq = queue.seq + 1 /\ queue'.status = "queued"
    BY <1>0, <1>2 DEF PlanFits, OpensNext
  <2>2. View' \in Outside!WithRecord(View, View.record.seq + 1, "queued", BOOLEAN)
    BY <1>0, <1>1, <2>1, ViewFields DEF Outside!WithRecord
  <2>3. ~Outside!Active(View)
    BY <2>1, ViewFields DEF Outside!Active, Active
  <2>4. View' \in Outside!Opened(View)
    BY <2>2, <2>3 DEF Outside!Opened, Outside!Provided
  <2> QED
    BY <2>4 DEF Outside!Successors
<1>3. CASE task[p].undo.seq = 0 /\ Withdraws(queue')
  <2>1. /\ queue'.seq = View.record.seq /\ queue'.status = "revoked"
        /\ queue.status = "queued" /\ queue.blocker /\ lock.status = "none"
    BY <1>0, <1>3, ViewFields DEF Withdraws, FilesAgree, Numbered
  <2>2. queue'.blocker \in {FALSE}
    BY <1>0, <1>3 DEF Withdraws
  <2>3. View' \in Outside!WithRecord(View, View.record.seq, "revoked", {FALSE})
    BY <1>1, <2>1, <2>2, RecordWritten
  <2>4. View.record.status = "queued" /\ View.record.blocker /\ View.lock.status = "none"
    BY <2>1, ViewFields
  <2>5. View' \in Outside!Withdrawn(View)
    BY <2>3, <2>4 DEF Outside!Withdrawn, Outside!Provided
  <2> QED
    BY <2>5 DEF Outside!Successors
<1>4. CASE task[p].undo.seq # 0
  <2> DEFINE kept == IF View.lock.status = "revoked" THEN {FALSE, View.record.blocker}
                                                     ELSE {View.record.blocker}
  <2>1. /\ lock.status \in Outside!Terminal /\ queue.status = "queued"
        /\ lock.seq = queue.seq
        /\ queue'.seq = lock.seq /\ queue'.status = lock.status
        /\ queue'.blocker # queue.blocker => queue'.status = "revoked" /\ ~queue'.blocker
    BY <1>0, <1>4 DEF PlanFits, HalfClosed, ClosesRecord, Terminal, Outside!Terminal
  <2>2. queue'.blocker \in kept
    <3>1. View.record.blocker = queue.blocker /\ View.lock.status = lock.status
      BY ViewFields
    <3>2. \/ queue'.blocker = View.record.blocker
          \/ queue'.blocker = FALSE /\ View.lock.status = "revoked"
      BY <1>0, <2>1, <3>1
    <3>3. CASE queue'.blocker = View.record.blocker
      BY <3>3, Zenon
    <3> QED
      BY <3>2, <3>3, Zenon
  <2>3. queue'.seq = View.record.seq /\ queue'.status = View.lock.status
    BY <2>1, ViewFields
  <2>4. View' \in Outside!WithRecord(View, View.record.seq, View.lock.status, kept)
    BY <1>1, <2>2, <2>3, RecordWritten
  <2>5. Outside!Torn(View)
    BY <2>1, ViewFields DEF Outside!Torn
  <2>6. View' \in Outside!Recorded(View)
    BY <2>4, <2>5 DEF Outside!Recorded, Outside!Provided
  <2> QED
    BY <2>6 DEF Outside!Successors
<1> QED
  BY <1>0, <1>2, <1>3, <1>4 DEF PlanFits

LEMMA RollbackIsOutside ==
  ASSUME IInv, NEW p \in Proc, Rollback(p)
  PROVE  View' \in Outside!Successors(View)
<1>1. HalfClosed(task[p]) /\ lock' = task[p].undo /\ queue' = queue
  BY DEF IInv, Rollback, PlansFitTheFiles, PlanFits
<1>2. View' = [record |-> View.record, lock |-> [seq |-> lock'.seq, status |-> lock'.status]]
  BY <1>1 DEF View
<1>3. View' \in Outside!WithLock(View, View.lock.seq, {"active"})
  BY <1>1, <1>2, ViewFields DEF HalfClosed, Outside!WithLock
<1>4. Outside!Torn(View)
  BY <1>1, ViewFields DEF HalfClosed, Outside!Torn, Outside!Terminal, Terminal
<1>5. View' \in Outside!Reopened(View)
  BY <1>3, <1>4 DEF Outside!Reopened, Outside!Provided
<1> QED
  BY <1>5 DEF Outside!Successors

(* Whatever the operations do inside, the files only ever change by one of *)
(* the writes LaneRunFiles lists.                                          *)
THEOREM FilesRefinement == Spec => ImplementsFiles
<1> DEFINE Outer == View' # View => View' \in Outside!Successors(View)
<1>1. Init => View = Outside!NoFiles
  BY DEF Init, View, NoRecord, NoLock, Outside!NoFiles
<1>2. IInv /\ IInv' /\ [Next]_storeVars => [Outer]_storeVars
  <2> SUFFICES ASSUME IInv, IInv', [Next]_storeVars PROVE Outer
    OBVIOUS
  <2>1. CASE UNCHANGED <<queue, lock>>
    BY <2>1 DEF View
  <2>2. TypeOK'
    BY DEF IInv
  <2> QED
    BY <2>1, <2>2, WriteLockIsOutside, WriteQueueIsOutside, RollbackIsOutside,
       OnlyWritesTouchFiles
<1> QED
  BY <1>1, <1>2, InvariantHolds, PTL DEF Spec, ImplementsFiles

-----------------------------------------------------------------------------
(* Only a crash or a failed rollback leaves a torn pair behind.            *)

(* A torn pair is a close in progress, or somebody has already failed.     *)
TornIsExcused ==
  Torn => \/ faults \cap {"crash", "rollback"} # {}
          \/ \E p \in Proc : /\ task[p].at \in {"queue", "undo"}
                             /\ task[p].undo.seq # 0

(* Faults are never forgotten, so only steps that tear the pair or end an  *)
(* operation need an argument.                                             *)
LEMMA TornStep == IInv /\ TornIsExcused /\ [Next]_storeVars => TornIsExcused'
<1> SUFFICES ASSUME IInv, TornIsExcused, [Next]_storeVars, Torn',
                    faults' \cap {"crash", "rollback"} = {}
             PROVE  \E p \in Proc : /\ task'[p].at \in {"queue", "undo"}
                                    /\ task'[p].undo.seq # 0
  BY DEF TornIsExcused
<1>0. /\ TypeOK /\ FilesAgree /\ faults \cap {"crash", "rollback"} = {}
      /\ \A p \in Proc : task[p] \in Task /\ PlanFits(task[p])
  <2>1. faults \subseteq faults'
    BY DEF Next, storeVars, Enter, Leave, Crash, RecordLaneRun, Operation, Enqueue, Claim,
           Complete, Stop, Link, Decide, Write, FailWrite, FailRollback, WriteLock,
           WriteQueue, Rollback
  <2> QED
    BY <2>1 DEF IInv, TypeOK, PlansFitTheFiles
<1>1. ASSUME NEW p \in Proc, WriteLock(p)
      PROVE  task'[p].at \in {"queue", "undo"} /\ task'[p].undo.seq # 0
  <2>1. task[p].at = "lock" /\ lock' = task[p].lock /\ queue' = queue
    BY <1>1 DEF WriteLock
  <2>2. task[p].queue.seq # 0 /\ task[p].undo = lock /\ Active
    BY <1>0, <2>1 DEF PlanFits, Torn, Terminal
  <2>3. task'[p] = [task[p] EXCEPT !.at = "queue"]
    BY <1>0, <1>1, <2>2 DEF WriteLock, TypeOK
  <2>4. lock.seq # 0
    BY <1>0, <2>2 DEF FilesAgree, Numbered, Active
  <2> QED
    BY <1>0, <2>2, <2>3, <2>4 DEF Task
<1>2. ASSUME NEW p \in Proc, WriteQueue(p)
      PROVE  FALSE
  <2>1. task[p].at = "queue" /\ queue' = task[p].queue /\ lock' = lock
    BY <1>2 DEF WriteQueue
  <2>2. CASE task[p].undo.seq = 0 /\ OpensNext(queue')
    BY <1>0, <2>1, <2>2
    DEF OpensNext, Torn, FilesAgree, ClaimHoldsQueuedRecord, TypeOK, Lock, QueueRecord
  <2>3. CASE task[p].undo.seq = 0 /\ Withdraws(queue')
    BY <2>3 DEF Withdraws, Torn
  <2>4. CASE task[p].undo.seq # 0
    BY <1>0, <2>1, <2>4 DEF PlanFits, ClosesRecord, HalfClosed, Torn, Terminal
  <2> QED
    BY <1>0, <2>1, <2>2, <2>3, <2>4 DEF PlanFits
<1>3. ASSUME NEW p \in Proc, Rollback(p)
      PROVE  FALSE
  BY <1>0, <1>3 DEF Rollback, PlanFits, HalfClosed, Torn, Terminal
<1>4. CASE UNCHANGED <<queue, lock>>
  <2>1. PICK p \in Proc : task[p].at \in {"queue", "undo"} /\ task[p].undo.seq # 0
    BY <1>0, <1>4 DEF TornIsExcused, Torn
  <2>2. \A q \in Proc : q # p => task[q].at = "idle"
    BY <2>1, OthersIdle
  <2>3. CASE task' = task
    BY <2>1, <2>3
  <2>4. CASE FailWrite(p)
    <3>1. task'[p] = [task[p] EXCEPT !.at = "undo"] \/ task[p].at = "undo"
      BY <1>0, <2>1, <2>4 DEF FailWrite, TypeOK
    <3>2. task'[p] = [task[p] EXCEPT !.at = "undo"]
      BY <3>1, <2>4 DEF FailWrite
    <3> QED
      BY <1>0, <2>1, <3>2 DEF Task
  <2>5. ~Crash(p) /\ ~FailRollback(p)
    BY DEF Crash, FailRollback
  <2>6. ~Enter(p) /\ ~Operation(p) /\ ~Leave(p) /\ ~WriteLock(p)
    BY <2>1 DEF Enter, Operation, Enqueue, Claim, Complete, Stop, Link, Decide, Leave, WriteLock
  <2>7. ASSUME NEW q \in Proc, q # p
        PROVE  ~Enter(q) /\ ~Operation(q) /\ ~Leave(q) /\ ~Write(q) /\ ~Crash(q)
    BY <2>1, <2>2, <2>7
    DEF Enter, Operation, Enqueue, Claim, Complete, Stop, Link, Decide, Leave, Write, Crash,
        WriteLock, WriteQueue, FailWrite, Rollback, FailRollback
  <2>8. ~WriteQueue(p) /\ ~Rollback(p)
    BY <1>2, <1>3
  <2> QED
    BY <2>3, <2>4, <2>5, <2>6, <2>7, <2>8 DEF Next, storeVars, Write, RecordLaneRun
<1> QED
  BY <1>1, <1>2, <1>3, <1>4, OnlyWritesTouchFiles

(* Mixed queue and lock state is never the work of one failed write.       *)
THEOREM TornTheorem == Spec => []OneFailedWriteLeavesNoMixedState
<1>1. Init => TornIsExcused
  BY DEF Init, TornIsExcused, Torn, NoLock, Terminal
<1>2. TornIsExcused => OneFailedWriteLeavesNoMixedState
  BY DEF TornIsExcused, OneFailedWriteLeavesNoMixedState
<1> QED
  BY <1>1, <1>2, TornStep, InvariantHolds, PTL DEF Spec
=============================================================================
