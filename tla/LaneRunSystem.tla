---------------------------- MODULE LaneRunSystem ----------------------------
(***************************************************************************)
(* The queue record and lane-run lock of one work item (LaneRunStore) used *)
(* by processes that really go through the directory lock                  *)
(* (LaneMutationLock), one withLaneRunMutationLock call each.  An          *)
(* operation's steps happen between the call's owner file being written    *)
(* and the start of its release; nothing else keeps two operations apart.  *)
(***************************************************************************)
EXTENDS Naturals, FiniteSets

CONSTANTS Proc, Run, NoRun, MaxAttempts,
          Ino, NoIno, SoloRecovery, MaxTries, MaxCrashes, MaxBroken

ASSUME SystemAssumption ==
  /\ NoRun \notin Run /\ MaxAttempts \in Nat
  /\ NoIno \notin Ino /\ SoloRecovery \in BOOLEAN
  /\ MaxTries \in Nat \ {0} /\ MaxCrashes \in Nat /\ MaxBroken \in Nat

VARIABLES dir, pc, seen, tries, queue, lock, laneRun, task, faults

Mutex == INSTANCE LaneMutationLock WITH Call <- Proc, Slow <- {}
Store == INSTANCE LaneRunStore

mutexVars == <<dir, pc, seen, tries>>
fileVars == <<queue, lock, laneRun, task, faults>>
systemVars == <<dir, pc, seen, tries, queue, lock, laneRun, task, faults>>

-----------------------------------------------------------------------------
(* The lock is acquired by writing the owner file: the operation starts. *)
Begin(p) ==
  /\ Mutex!WriteOwner(p)
  /\ IF pc'[p] = "critical"
     THEN /\ task' = [task EXCEPT ![p] = Store!Rest("entered")]
          /\ UNCHANGED <<queue, lock, laneRun, faults>>
     ELSE UNCHANGED fileVars

(* The finally block: the operation is over, its release starts. *)
End(p) == Mutex!BeginRelease(p) /\ Store!Leave(p)

Operate(p) ==
  /\ pc[p] = "critical"
  /\ Store!Operation(p) \/ Store!Write(p)
  /\ UNCHANGED mutexVars

(* Every other step of the lock protocol leaves the files alone, and so    *)
(* does an error that ends a call before or after its operation.           *)
Synchronise(p) ==
  /\ Mutex!Step(p) \/ Mutex!Heartbeat(p) \/ Mutex!Fault(p)
  /\ pc[p] # "statted" /\ ~(pc[p] = "critical" /\ pc'[p] # "critical")
  /\ UNCHANGED fileVars

Die(p) ==
  /\ Mutex!Crash(p)
  /\ IF task[p].at = "idle" THEN UNCHANGED fileVars ELSE Store!Crash(p)

Next ==
  \/ \E p \in Proc : Begin(p) \/ End(p) \/ Operate(p) \/ Synchronise(p) \/ Die(p)
  \/ Mutex!Age /\ UNCHANGED fileVars

(* The files start empty, or with one queued and unclaimed record. *)
Init ==
  /\ Mutex!Init
  /\ Store!Init

InitQueued ==
  /\ Mutex!Init
  /\ queue = [Store!NoRecord EXCEPT !.seq = 1, !.status = "queued"]
  /\ lock = Store!NoLock
  /\ laneRun = [r \in Run |-> "absent"]
  /\ task = [p \in Proc |-> Store!Rest("idle")]
  /\ faults = {}

Spec == Init /\ [][Next]_systemVars
SpecQueued == InitQueued /\ [][Next]_systemVars

-----------------------------------------------------------------------------
(* Properties.                                                             *)

(* The lock keeps its promises (LaneMutationLock) with real operations     *)
(* inside, as long as recoveries do not overlap: its variables have their  *)
(* types,                                                                  *)
LockTypeOK == Mutex!TypeOK

(* at most one operation on the two files runs at a time,                  *)
MutualExclusion == Mutex!MutualExclusion

(* nobody removes the directory of a lock that is being built or held,     *)
DirectoryStaysUnderItsMaker == Mutex!DirectoryStaysUnderItsMaker

(* and a directory stays behind only for a process that died or for an     *)
(* error that it could not recover from.                                   *)
AbandonedLockHasACause == Mutex!AbandonedLockHasACause

(* Behind the directory lock the operations run as LaneRunStore says they  *)
(* do: one at a time, each from its reads to its last write.  Everything   *)
(* shown of LaneRunStore carries over to processes that use the real lock. *)
ImplementsStore == Store!Spec

(* An attempt is never claimed for a second lane run (LaneRunStore).       *)
AttemptNeverChangesHands == Store!AttemptNeverChangesHands
=============================================================================
