------------------------- MODULE LaneRunSystemProofs -------------------------
(***************************************************************************)
(* Theorems about LaneRunSystem: the theorems about the lock               *)
(* (LaneMutationLockProofs) hold with real operations inside it, and the   *)
(* operations behind it make up LaneRunStore, whose theorems               *)
(* (LaneRunStoreProofs) then hold of processes that use the real lock.     *)
(* Most of it rests on NoRace: nothing is left behind (no process dies and *)
(* none fails to take back its directory), or no two recoveries of a stale *)
(* directory overlap.                                                      *)
(***************************************************************************)
EXTENDS LaneRunSystem, TLAPS

MutexP == INSTANCE LaneMutationLockProofs WITH Call <- Proc, Slow <- {}
StoreP == INSTANCE LaneRunStoreProofs

NoRace == SoloRecovery \/ (MaxCrashes = 0 /\ MaxBroken = 0)

-----------------------------------------------------------------------------
(* The lock and its steps as the proofs about it name them.                *)

(* The lock's assumptions, and its step lemma under them.                  *)
LEMMA MutexAssumed == NoRace => MutexP!Assumed
BY DEF NoRace, MutexP!Assumed

(* A step of the lock keeps the lock's invariant.                          *)
LEMMA LockKeeps ==
  MutexP!IInv /\ MutexP!Assumed /\ [MutexP!Next]_(MutexP!lockVars) => MutexP!IInv'
BY MutexP!StepKeeps, SystemAssumption

(* A definition of LaneMutationLock is the same in both instances.         *)
LEMMA SameStep == \A p \in Proc : Mutex!Step(p) <=> MutexP!Step(p)
BY DEF Mutex!Step, MutexP!Step, Mutex!Acquire, MutexP!Acquire, Mutex!Recover, MutexP!Recover,
       Mutex!Release, MutexP!Release, Mutex!Mkdir, MutexP!Mkdir, Mutex!StatMade, MutexP!StatMade,
       Mutex!WriteOwner, MutexP!WriteOwner, Mutex!OwnerCreated, MutexP!OwnerCreated,
       Mutex!Cleanup, MutexP!Cleanup, Mutex!Unown, MutexP!Unown,
       Mutex!RemoveOwner, MutexP!RemoveOwner,
       Mutex!Uncreate, MutexP!Uncreate, Mutex!Inspect, MutexP!Inspect,
       Mutex!Recheck, MutexP!Recheck, Mutex!Empty, MutexP!Empty, Mutex!Remove, MutexP!Remove,
       Mutex!BeginRelease, MutexP!BeginRelease, Mutex!CheckDir, MutexP!CheckDir,
       Mutex!CheckOwner, MutexP!CheckOwner, Mutex!RecheckDir, MutexP!RecheckDir,
       Mutex!Unlink, MutexP!Unlink, Mutex!Rmdir, MutexP!Rmdir,
       Mutex!Continue, MutexP!Continue, Mutex!Go, MutexP!Go, Mutex!TryAgain, MutexP!TryAgain,
       Mutex!Exists, MutexP!Exists, Mutex!SameDir, MutexP!SameDir, Mutex!RmdirIfEmpty,
       MutexP!RmdirIfEmpty, Mutex!Entries, MutexP!Entries, Mutex!NoDir, MutexP!NoDir,
       Mutex!Recovering, MutexP!Recovering

(* So are its other steps.                                                 *)
LEMMA SameRest ==
  /\ \A p \in Proc : (Mutex!Heartbeat(p) <=> MutexP!Heartbeat(p))
                    /\ (Mutex!Fault(p) <=> MutexP!Fault(p))
                    /\ (Mutex!Crash(p) <=> MutexP!Crash(p))
  /\ Mutex!Age <=> MutexP!Age
  /\ Mutex!Init <=> MutexP!Init
BY DEF Mutex!Heartbeat, MutexP!Heartbeat, Mutex!Crash, MutexP!Crash, Mutex!Age, MutexP!Age,
       Mutex!Fault, MutexP!Fault, Mutex!GiveUp, MutexP!GiveUp, Mutex!Break, MutexP!Break,
       Mutex!Dead, MutexP!Dead, Mutex!Broken, MutexP!Broken, Mutex!Undoing, MutexP!Undoing,
       Mutex!Init, MutexP!Init, Mutex!Go, MutexP!Go, Mutex!Exists, MutexP!Exists,
       Mutex!Entries, MutexP!Entries, Mutex!NoDir, MutexP!NoDir, Mutex!Settled, MutexP!Settled,
       Mutex!Acquiring, MutexP!Acquiring, Mutex!Inside, MutexP!Inside,
       Mutex!Releasing, MutexP!Releasing, Mutex!Recovering, MutexP!Recovering,
       Mutex!Cardinality, MutexP!Cardinality

-----------------------------------------------------------------------------
Working(p) == task[p].at # "idle"

(* Exactly the processes inside the lock are in the middle of an operation *)
Coupled ==
  /\ DOMAIN task = Proc
  /\ \A p \in Proc : "at" \in DOMAIN task[p] /\ (Working(p) <=> pc[p] = "critical")

SInv == MutexP!IInv /\ Coupled

(* How a step of the lock moves the processes in and out.                  *)
LEMMA LockMoves ==
  ASSUME MutexP!IInv, NEW p \in Proc, Mutex!Step(p)
  PROVE  /\ \A q \in Proc : q # p => pc'[q] = pc[q]
         /\ pc[p] # "statted" => pc'[p] # "critical"
BY DEF Mutex!Step, Mutex!Acquire, Mutex!Recover, Mutex!Release, Mutex!Mkdir, Mutex!StatMade,
       Mutex!WriteOwner, Mutex!Cleanup, Mutex!Unown, Mutex!Uncreate, Mutex!Inspect,
       Mutex!Recheck, Mutex!Empty, Mutex!Remove, Mutex!BeginRelease, Mutex!CheckDir, Mutex!CheckOwner,
       Mutex!RecheckDir, Mutex!Continue, Mutex!Unlink, Mutex!Rmdir, Mutex!Go, Mutex!TryAgain,
       MutexP!IInv, MutexP!TypeOK

(* An operation goes on: its process stays inside, and the others where    *)
(* they are.                                                               *)
Stays(p) ==
  /\ DOMAIN task' = Proc /\ "at" \in DOMAIN task'[p]
  /\ task[p].at # "idle" /\ task'[p].at # "idle"
  /\ \A q \in Proc : q # p => task'[q] = task[q]

(* A decision leaves either a plan of writes or an operation that is over. *)
LEMMA DecisionMoves ==
  ASSUME Coupled, NEW p \in Proc, NEW ok, NEW plan, "at" \in DOMAIN plan, plan.at # "idle",
         Store!Decide(p, ok, plan)
  PROVE  Stays(p)
<1>1. Store!Rest("leaving").at = "leaving" /\ "at" \in DOMAIN Store!Rest("leaving")
  BY DEF Store!Rest
<1> QED
  BY <1>1 DEF Coupled, Stays, Store!Decide

(* A plan of writes is not yet over.                                       *)
LEMMA PlansAreWork ==
  \A l, q : \A plan \in {Store!PutLock(l), Store!PutQueue(q), Store!PutBoth(l, q)} :
    "at" \in DOMAIN plan /\ plan.at \in {"lock", "queue"}
BY DEF Store!PutLock, Store!PutQueue, Store!PutBoth, Store!Rest

(* Each operation is a decision, and each write goes on with the plan.     *)
LEMMA OperationMoves ==
  ASSUME Coupled, NEW p \in Proc, Store!Operation(p)
  PROVE  Stays(p)
<1>1. ASSUME NEW blocker \in BOOLEAN, Store!Enqueue(p, blocker)
      PROVE  Stays(p)
  BY <1>1, DecisionMoves, PlansAreWork DEF Store!Enqueue
<1>2. ASSUME NEW r \in Run, Store!Claim(p, r)
      PROVE  Stays(p)
  BY <1>2, DecisionMoves, PlansAreWork DEF Store!Claim
<1>3. ASSUME NEW r \in Run, NEW status \in Store!Terminal, Store!Complete(p, r, status)
      PROVE  Stays(p)
  BY <1>3, DecisionMoves, PlansAreWork DEF Store!Complete
<1>4. ASSUME NEW r \in Run, Store!Stop(p, r)
      PROVE  Stays(p)
  BY <1>4, DecisionMoves, PlansAreWork DEF Store!Stop
<1>5. ASSUME NEW r \in Run, NEW action \in Store!LinkAction, Store!Link(p, r, action)
      PROVE  Stays(p)
  BY <1>5, DecisionMoves, PlansAreWork DEF Store!Link
<1> QED
  BY <1>1, <1>2, <1>3, <1>4, <1>5 DEF Store!Operation

(* So does a write that goes on to the next, or to the end.                *)
LEMMA WriteMoves ==
  ASSUME Coupled, NEW p \in Proc, Store!Write(p)
  PROVE  Stays(p)
<1>1. Store!Rest("leaving").at = "leaving" /\ "at" \in DOMAIN Store!Rest("leaving")
  BY DEF Store!Rest
<1>2. /\ [task[p] EXCEPT !.at = "queue"].at = "queue"
      /\ [task[p] EXCEPT !.at = "undo"].at = "undo"
      /\ "at" \in DOMAIN [task[p] EXCEPT !.at = "queue"]
      /\ "at" \in DOMAIN [task[p] EXCEPT !.at = "undo"]
  BY DEF Coupled
<1>3. PICK t : /\ task' = [task EXCEPT ![p] = t]
               /\ "at" \in DOMAIN t /\ t.at # "idle" /\ task[p].at # "idle"
  BY <1>1, <1>2 DEF Store!Write, Store!WriteLock, Store!WriteQueue, Store!FailWrite,
     Store!Rollback, Store!FailRollback
<1> QED
  BY <1>3 DEF Coupled, Stays

-----------------------------------------------------------------------------
(* Every step of the system is a step of the lock or leaves it alone. *)
LEMMA SystemStepsLock ==
  ASSUME [Next]_systemVars PROVE [MutexP!Next]_(MutexP!lockVars)
<1> USE DEF MutexP!Next, MutexP!lockVars
<1>1. ASSUME NEW p \in Proc, Begin(p) \/ End(p) PROVE MutexP!Step(p)
  BY <1>1, SameStep DEF Begin, End, Mutex!Step, Mutex!Acquire, Mutex!Release
<1>2. ASSUME NEW p \in Proc, Synchronise(p) \/ Die(p)
      PROVE  MutexP!Step(p) \/ MutexP!Heartbeat(p) \/ MutexP!Fault(p) \/ MutexP!Crash(p)
  BY <1>2, SameStep, SameRest DEF Synchronise, Die
<1>3. ASSUME NEW p \in Proc, Operate(p) PROVE UNCHANGED MutexP!lockVars
  BY <1>3 DEF Operate, mutexVars
<1>4. CASE UNCHANGED systemVars
  BY <1>4 DEF systemVars
<1> QED
  BY <1>1, <1>2, <1>3, <1>4, SameRest DEF Next

(* Every step of the system is one of the store or leaves it alone. *)
LEMMA SystemStep ==
  ASSUME SInv, NoRace, [Next]_systemVars
  PROVE  SInv' /\ [Store!Next]_(Store!storeVars)
<1> USE DEF SInv
<1>0. MutexP!IInv'
  BY SystemStepsLock, LockKeeps, MutexAssumed
<1>1. ASSUME NEW p \in Proc, Begin(p)
      PROVE  SInv' /\ [Store!Next]_(Store!storeVars)
  <2>2. pc[p] = "statted" /\ \A q \in Proc : q # p => pc'[q] = pc[q]
    BY <1>1 DEF Begin, Mutex!WriteOwner, Mutex!Go, MutexP!IInv, MutexP!TypeOK
  <2>3. CASE pc'[p] = "critical"
    <3>1. \A q \in Proc : q # p => pc'[q] # "critical"
      BY <1>0, <2>3 DEF MutexP!IInv, MutexP!OneBusy, MutexP!Busy, MutexP!Holding, MutexP!Inside
    <3>2. \A q \in Proc : task[q].at = "idle"
      BY <2>2, <3>1 DEF Coupled, Working
    <3>3. Store!Enter(p)
      BY <1>1, <2>3, <3>2 DEF Begin, Store!Enter
    <3>4. Coupled'
      BY <2>2, <2>3, <3>1, <3>2, <3>3 DEF Store!Enter, Coupled, Working, Store!Rest
    <3> QED
      BY <1>0, <3>3, <3>4 DEF Store!Next
  <2>4. CASE pc'[p] # "critical"
    <3>1. UNCHANGED fileVars
      BY <1>1, <2>4 DEF Begin
    <3> QED
      BY <1>0, <2>2, <2>4, <3>1 DEF fileVars, Store!storeVars, Coupled, Working
  <2> QED
    BY <2>3, <2>4
<1>2. ASSUME NEW p \in Proc, End(p)
      PROVE  SInv' /\ [Store!Next]_(Store!storeVars)
  <2>2. pc'[p] # "critical" /\ \A q \in Proc : q # p => pc'[q] = pc[q]
    BY <1>2 DEF End, Mutex!BeginRelease, Mutex!Continue, Mutex!Go, MutexP!IInv, MutexP!TypeOK
  <2>3. Store!Leave(p)
    BY <1>2 DEF End
  <2>4. Coupled'
    BY <2>2, <2>3 DEF Store!Leave, Coupled, Working, Store!Rest
  <2> QED
    BY <1>0, <2>3, <2>4 DEF Store!Next
<1>3. ASSUME NEW p \in Proc, Operate(p)
      PROVE  SInv' /\ [Store!Next]_(Store!storeVars)
  <2>1. UNCHANGED mutexVars
    BY <1>3 DEF Operate
  <2>3. Store!Operation(p) \/ Store!Write(p)
    BY <1>3 DEF Operate
  <2>4. Stays(p)
    BY <2>3, OperationMoves, WriteMoves
  <2>5. Coupled'
    BY <2>1, <2>4 DEF Stays, Coupled, Working, mutexVars
  <2> QED
    BY <1>0, <2>3, <2>5 DEF Store!Next
<1>4. ASSUME NEW p \in Proc, Synchronise(p)
      PROVE  SInv' /\ [Store!Next]_(Store!storeVars)
  <2>1. UNCHANGED fileVars
    BY <1>4 DEF Synchronise
  <2>3. \A q \in Proc : pc'[q] = "critical" <=> pc[q] = "critical"
    <3>1. CASE Mutex!Step(p)
      BY <1>4, <3>1, LockMoves DEF Synchronise
    <3>2. CASE Mutex!Heartbeat(p)
      BY <3>2 DEF Mutex!Heartbeat
    <3>3. CASE Mutex!Fault(p)
      BY <3>3 DEF Mutex!Fault, Mutex!GiveUp, Mutex!Break, Mutex!Go, Mutex!Undoing,
         Mutex!Releasing, Mutex!Recovering, MutexP!IInv, MutexP!TypeOK
    <3> QED
      BY <1>4, <3>1, <3>2, <3>3 DEF Synchronise
  <2> QED
    BY <2>1, <1>0, <2>3 DEF fileVars, Store!storeVars, Coupled, Working
<1>5. ASSUME NEW p \in Proc, Die(p)
      PROVE  SInv' /\ [Store!Next]_(Store!storeVars)
  <2>2. pc'[p] = "dead" /\ \A q \in Proc : q # p => pc'[q] = pc[q]
    BY <1>5 DEF Die, Mutex!Crash, Mutex!Go, MutexP!IInv, MutexP!TypeOK
  <2>3. CASE task[p].at = "idle"
    <3>1. UNCHANGED fileVars
      BY <1>5, <2>3 DEF Die
    <3> QED
      BY <1>0, <2>2, <2>3, <3>1 DEF fileVars, Store!storeVars, Coupled, Working
  <2>4. CASE task[p].at # "idle"
    <3>1. Store!Crash(p)
      BY <1>5, <2>4 DEF Die
    <3>2. Coupled'
      BY <2>2, <3>1 DEF Store!Crash, Coupled, Working, Store!Rest
    <3> QED
      BY <1>0, <3>1, <3>2 DEF Store!Next
  <2> QED
    BY <2>3, <2>4
<1>6. ASSUME Mutex!Age, UNCHANGED fileVars
      PROVE  SInv' /\ [Store!Next]_(Store!storeVars)
  <2>2. UNCHANGED pc
    BY <1>6 DEF Mutex!Age
  <2> QED
    BY <1>6, <1>0, <2>2 DEF fileVars, Store!storeVars, Coupled, Working
<1>7. CASE UNCHANGED systemVars
  BY <1>0, <1>7 DEF systemVars, Store!storeVars, Coupled, Working
<1> QED
  BY <1>1, <1>2, <1>3, <1>4, <1>5, <1>6, <1>7 DEF Next

(* Both initial states, with empty files and with one queued record. *)
LEMMA SystemInit == Init \/ InitQueued => SInv
<1>1. Mutex!Init => MutexP!IInv
  BY SameRest, MutexP!InitHolds, SystemAssumption
<1>2. ASSUME Mutex!Init, task = [p \in Proc |-> Store!Rest("idle")] PROVE Coupled
  BY <1>2 DEF Mutex!Init, Coupled, Working, Store!Rest
<1> QED
  BY <1>1, <1>2 DEF Init, InitQueued, Store!Init, SInv

(* The coupling holds of every behaviour.                                  *)
LEMMA SystemInvariant == ASSUME NoRace PROVE Spec \/ SpecQueued => []SInv
<1>1. SInv /\ [Next]_systemVars => SInv'
  BY SystemStep
<1> QED
  BY <1>1, SystemInit, PTL DEF Spec, SpecQueued

-----------------------------------------------------------------------------
(* The lock's variables have their types with operations inside it,        *)
(* whatever dies and recovers.                                             *)
THEOREM SystemLockTyped == Spec \/ SpecQueued => []LockTypeOK
<1>1. Init \/ InitQueued => MutexP!TypedTurns
  BY SystemInit DEF SInv, MutexP!IInv, MutexP!TypedTurns
<1>2. MutexP!TypedTurns /\ [Next]_systemVars => MutexP!TypedTurns'
  BY SystemStepsLock, MutexP!TurnsKept, SystemAssumption
<1>3. MutexP!TypedTurns => LockTypeOK
  BY DEF MutexP!TypedTurns, LockTypeOK, MutexP!TypeOK, Mutex!TypeOK, MutexP!Exists, Mutex!Exists,
     MutexP!NoDir, Mutex!NoDir, MutexP!Acquiring, Mutex!Acquiring, MutexP!Inside, Mutex!Inside,
     MutexP!Recovering, Mutex!Recovering, MutexP!Releasing, Mutex!Releasing,
     MutexP!Settled, Mutex!Settled, MutexP!Undoing, Mutex!Undoing
<1> QED
  BY <1>1, <1>2, <1>3, PTL DEF Spec, SpecQueued

(* At most one operation on the record and the lane-run lock runs at once. *)
THEOREM SystemExclusion == ASSUME NoRace PROVE Spec \/ SpecQueued => []MutualExclusion
<1>1. SInv => MutualExclusion
  BY DEF SInv, MutualExclusion, Mutex!MutualExclusion, MutexP!IInv, MutexP!OneBusy, MutexP!Busy,
     MutexP!Holding, MutexP!Inside
<1> QED
  BY <1>1, SystemInvariant, PTL

(* A lock directory that stays behind is that of a dead process, or of one *)
(* whose lstat, clean-up or release failed.                                *)
THEOREM SystemLeftWithCause ==
  ASSUME NoRace PROVE Spec \/ SpecQueued => []AbandonedLockHasACause
<1>1. SInv => AbandonedLockHasACause
  BY DEF SInv, AbandonedLockHasACause, Mutex!AbandonedLockHasACause, MutexP!IInv,
     MutexP!LeftBehind, MutexP!Lost, MutexP!Dead, MutexP!Broken, Mutex!Dead, Mutex!Broken,
     MutexP!Holding, MutexP!Acquiring, MutexP!Inside, MutexP!Undoing, MutexP!Releasing,
     Mutex!Settled, Mutex!Exists, MutexP!Exists
<1> QED
  BY <1>1, SystemInvariant, PTL

(* Nobody removes or replaces the directory of a lock being built or held. *)
THEOREM SystemDirectoryStays ==
  ASSUME NoRace PROVE Spec \/ SpecQueued => DirectoryStaysUnderItsMaker
<1> DEFINE DirStays ==
             \A c \in Proc : pc[c] \in Mutex!Acquiring \cup Mutex!Inside /\ pc'[c] # "dead"
                            => dir'.ino = dir.ino
<1>1. SInv /\ [Next]_systemVars => [DirStays]_(Mutex!lockVars)
  BY SystemStepsLock, MutexAssumed, MutexP!StepLeavesDirectory, SystemAssumption
     DEF SInv, Mutex!Acquiring, Mutex!Inside, MutexP!Acquiring, MutexP!Inside
<1> QED
  BY <1>1, SystemInvariant, PTL DEF Spec, SpecQueued, DirectoryStaysUnderItsMaker,
     Mutex!DirectoryStaysUnderItsMaker

(* Processes that go through the directory lock use the record and the     *)
(* lane-run lock as LaneRunStore says.                                     *)
THEOREM SystemImplementsStore == ASSUME NoRace PROVE Spec => ImplementsStore
<1>1. Init => Store!Init
  BY DEF Init
<1>2. SInv /\ [Next]_systemVars => [Store!Next]_(Store!storeVars)
  BY SystemStep
<1> QED
  BY <1>1, <1>2, SystemInvariant, PTL DEF Spec, ImplementsStore, Store!Spec

(* LaneRunStore as the proofs about it name it. *)
LEMMA SameStore ==
  (Store!Init <=> StoreP!Init) /\ (Store!Next <=> StoreP!Next)
BY DEF Store!Init, StoreP!Init, Store!Next, StoreP!Next, Store!Operation,
       StoreP!Operation, Store!Write, StoreP!Write, Store!Enter, StoreP!Enter,
       Store!Leave, StoreP!Leave, Store!Crash, StoreP!Crash, Store!RecordLaneRun,
       StoreP!RecordLaneRun, Store!Enqueue, StoreP!Enqueue, Store!Claim, StoreP!Claim,
       Store!Complete, StoreP!Complete, Store!Stop, StoreP!Stop, Store!Link,
       StoreP!Link, Store!WriteLock, StoreP!WriteLock, Store!WriteQueue,
       StoreP!WriteQueue, Store!FailWrite, StoreP!FailWrite, Store!Rollback,
       StoreP!Rollback, Store!FailRollback, StoreP!FailRollback, Store!Decide,
       StoreP!Decide, Store!Stale, StoreP!Stale, Store!FreshRecord, StoreP!FreshRecord,
       Store!ClosedLock, StoreP!ClosedLock, Store!StoppedRecord, StoreP!StoppedRecord,
       Store!LinkedRecord, StoreP!LinkedRecord, Store!MayLink, StoreP!MayLink,
       Store!VerifiedTerminal, StoreP!VerifiedTerminal, Store!HasLock, StoreP!HasLock,
       Store!Active, StoreP!Active, Store!PutLock, StoreP!PutLock, Store!PutQueue,
       StoreP!PutQueue, Store!PutBoth, StoreP!PutBoth, Store!Rest, StoreP!Rest,
       Store!NoLock, StoreP!NoLock, Store!NoRecord, StoreP!NoRecord, Store!Unlinked,
       StoreP!Unlinked, Store!Terminal, StoreP!Terminal, Store!LinkAction,
       StoreP!LinkAction, Store!LaneRunFile, StoreP!LaneRunFile, Store!storeVars,
       StoreP!storeVars

(* The system behaves as the store the proofs are about.                   *)
LEMMA SystemRunsTheStore == ASSUME NoRace PROVE Spec => StoreP!Spec
<1>1. Store!Init => StoreP!Init
  BY SameStore
<1>2. [Store!Next]_(Store!storeVars) => [StoreP!Next]_(StoreP!storeVars)
  BY SameStore DEF Store!storeVars, StoreP!storeVars
<1> QED
  BY <1>1, <1>2, SystemImplementsStore, PTL DEF Store!Spec, StoreP!Spec, ImplementsStore

(* What was proved of the store holds of the system: an attempt is never   *)
(* claimed for a second lane run,                                          *)
THEOREM SystemKeepsAttempts == ASSUME NoRace PROVE Spec => AttemptNeverChangesHands
<1>1. StoreP!Spec => StoreP!AttemptNeverChangesHands
  BY StoreP!HandsTheorem, SystemAssumption
<1>2. StoreP!AttemptNeverChangesHands => AttemptNeverChangesHands
  BY DEF AttemptNeverChangesHands, Store!AttemptNeverChangesHands,
         StoreP!AttemptNeverChangesHands, Store!storeVars, StoreP!storeVars
<1> QED
  BY <1>1, <1>2, SystemRunsTheStore, PTL

(* In the system, too, a claim holds its queued record, a closed record    *)
(* agrees with its lock, and one failed write leaves no mixed state.       *)
THEOREM SystemFilesAgree ==
  ASSUME NoRace
  PROVE  Spec => [](/\ Store!ClaimHoldsQueuedRecord
                    /\ Store!TerminalRecordAgreesWithLock
                    /\ Store!OneFailedWriteLeavesNoMixedState)
<1>1. /\ StoreP!Spec => []StoreP!ClaimHoldsQueuedRecord
      /\ StoreP!Spec => []StoreP!TerminalRecordAgreesWithLock
      /\ StoreP!Spec => []StoreP!OneFailedWriteLeavesNoMixedState
  BY StoreP!ClaimSafety, StoreP!TerminalAgreement, StoreP!TornTheorem, SystemAssumption
<1>2. /\ StoreP!ClaimHoldsQueuedRecord => Store!ClaimHoldsQueuedRecord
      /\ StoreP!TerminalRecordAgreesWithLock => Store!TerminalRecordAgreesWithLock
      /\ StoreP!OneFailedWriteLeavesNoMixedState => Store!OneFailedWriteLeavesNoMixedState
  BY DEF StoreP!ClaimHoldsQueuedRecord, Store!ClaimHoldsQueuedRecord,
         StoreP!TerminalRecordAgreesWithLock, Store!TerminalRecordAgreesWithLock,
         StoreP!OneFailedWriteLeavesNoMixedState, Store!OneFailedWriteLeavesNoMixedState,
         StoreP!Active, Store!Active, StoreP!HasLock, Store!HasLock,
         StoreP!Terminal, Store!Terminal, StoreP!Torn, Store!Torn
<1> QED
  BY <1>1, <1>2, SystemRunsTheStore, PTL

(* From the file-system calls of the lock to the sequence of attempts:     *)
(* processes that go through the directory lock use the two files as       *)
(* LaneRunAttempts says, each attempt claimed once and closed once.        *)
THEOREM SystemImplementsAttempts ==
  ASSUME NoRace PROVE Spec => StoreP!ImplementsAttempts
<1>1. StoreP!Spec => StoreP!ImplementsAttempts
  BY StoreP!Refinement, SystemAssumption
<1> QED
  BY <1>1, SystemRunsTheStore, PTL

(* Readers of the files see what LaneRunFiles says, and a linked attempt   *)
(* names the lane run that closed the one before it.                       *)
THEOREM SystemServesReaders ==
  ASSUME NoRace PROVE Spec => StoreP!ImplementsFiles /\ StoreP!LineageNamesTheClosedRun
<1>1. /\ StoreP!Spec => StoreP!ImplementsFiles
      /\ StoreP!Spec => StoreP!LineageNamesTheClosedRun
  BY StoreP!FilesRefinement, StoreP!LineageTheorem, SystemAssumption
<1> QED
  BY <1>1, SystemRunsTheStore, PTL
=============================================================================
