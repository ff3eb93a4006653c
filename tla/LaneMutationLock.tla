-------------------------- MODULE LaneMutationLock ---------------------------
(***************************************************************************)
(* The cross-process mutation lock of one work item: a directory that      *)
(* mkdir creates, an owner file per acquisition inside it, a heartbeat     *)
(* that refreshes the directory's mtime, and recovery of a directory that  *)
(* has not been refreshed for laneRunMutationLockStaleMs.  Every step is   *)
(* one file-system call of withLaneRunMutationLock, so calls of different  *)
(* processes interleave between any two of them.                           *)
(*                                                                         *)
(* A Call is one withLaneRunMutationLock call: its owner token is drawn    *)
(* for that call alone, so the call itself stands for the token.  Inode    *)
(* numbers are drawn from a small set: the file system may give a new      *)
(* directory the number of a removed one.                                  *)
(***************************************************************************)
EXTENDS Naturals, FiniteSets

CONSTANTS Call,         (* calls of withLaneRunMutationLock                 *)
          Ino,          (* inode numbers                                    *)
          NoIno,        (* "not observed"                                   *)
          Slow,         (* calls whose process may be stopped for longer    *)
                        (* than the staleness limit while it holds the lock *)
          SoloRecovery, (* assumption on the environment: no two calls are  *)
                        (* inside the recovery of a stale lock at once      *)
          MaxTries,     (* the loop bound of the acquisition                *)
          MaxCrashes,   (* bound: calls whose process dies                  *)
          MaxBroken     (* bound: calls that cannot take back the directory *)
                        (* they made, because a file-system call failed     *)

ASSUME LockAssumption ==
  /\ NoIno \notin Ino
  /\ Slow \subseteq Call
  /\ SoloRecovery \in BOOLEAN
  /\ MaxTries \in Nat \ {0}
  /\ MaxCrashes \in Nat /\ MaxBroken \in Nat

VARIABLES dir,    (* the directory at lockPath, or NoDir                    *)
          pc,     (* per call: the next file-system call                    *)
          seen,   (* per call: the inode it compares the directory with     *)
          tries   (* per call: attempts of the acquisition loop used up     *)

lockVars == <<dir, pc, seen, tries>>

NoDir == [ino |-> NoIno, owners |-> {}, fresh |-> FALSE]
Exists == dir.ino # NoIno

(* The calls between their mkdir and the end of their release or clean-up. *)
Acquiring == {"made", "statted"}
Undoing == {"cleanup", "unown", "uncreate"}
Releasing == {"lstat1", "readOwner", "lstat2", "unlink", "rmdir"}
Inside == {"critical"}
Recovering == {"recheck", "empty", "remove"}
Settled == {"done", "failed", "broken", "dead"}

Dead == {c \in Call : pc[c] = "dead"}
Broken == {c \in Call : pc[c] = "broken"}

(* The same directory with other entries or another mtime. *)
Entries(owners, fresh) == [ino |-> dir.ino, owners |-> owners, fresh |-> fresh]

Go(c, label) == pc' = [pc EXCEPT ![c] = label]
SameDir(c) == dir.ino = seen[c]

-----------------------------------------------------------------------------
(* acquireLaneRunMutationLock                                              *)

(* Wrong: one turn too many. *)
TryAgainOnceMore(c) ==
  /\ tries' = [tries EXCEPT ![c] = @ + 1]
  /\ Go(c, IF tries[c] <= MaxTries THEN "start" ELSE "failed")

(* Wrong: the loop has no bound. *)
TryAgainForever(c) == Go(c, "start") /\ UNCHANGED tries

(* One turn of the loop is over: try again, or give up after the last. *)
TryAgain(c) ==
  /\ tries' = [tries EXCEPT ![c] = @ + 1]
  /\ Go(c, IF tries[c] + 1 < MaxTries THEN "start" ELSE "failed")

(* Wrong: mkdir with recursive set, which accepts an existing directory. *)
MkdirRecursive(c) ==
  /\ pc[c] = "start"
  /\ IF Exists
     THEN UNCHANGED dir
     ELSE \E i \in Ino : dir' = [ino |-> i, owners |-> {}, fresh |-> TRUE]
  /\ Go(c, "made")
  /\ UNCHANGED <<seen, tries>>

(* mkdir(lockPath) creates the directory, or fails with EEXIST. *)
Mkdir(c) ==
  /\ pc[c] = "start"
  /\ \/ /\ ~Exists
        /\ \E i \in Ino : dir' = [ino |-> i, owners |-> {}, fresh |-> TRUE]
        /\ Go(c, "made")
     \/ Exists /\ Go(c, "inspect") /\ UNCHANGED dir
  /\ UNCHANGED <<seen, tries>>

(* acquiredStats = lstat(lockPath); without a directory the call throws    *)
(* (and so it does when lstat fails otherwise, see Break).                 *)
StatMade(c) ==
  /\ pc[c] = "made"
  /\ seen' = [seen EXCEPT ![c] = dir.ino]
  /\ Go(c, IF Exists THEN "statted" ELSE "failed")
  /\ UNCHANGED <<dir, tries>>

OwnerCreated(c) == Exists /\ dir' = Entries(dir.owners \cup {c}, TRUE)

(* The owner file goes into whatever directory the path names now; the     *)
(* heartbeat starts and the operation may run.  Or a check, the open or    *)
(* the write fails, with the file created or not.                          *)
WriteOwner(c) ==
  /\ pc[c] = "statted"
  /\ \/ OwnerCreated(c) /\ Go(c, "critical")
     \/ (OwnerCreated(c) \/ UNCHANGED dir) /\ Go(c, "cleanup")
  /\ UNCHANGED <<seen, tries>>

(* removeCreatedLaneRunMutationLock, when the owner file could not be      *)
(* written: if the directory looks like the one the call made, first its   *)
(* own owner file, which may be missing, ...                               *)
Cleanup(c) ==
  /\ pc[c] = "cleanup"
  /\ Go(c, IF Exists /\ SameDir(c) THEN "unown" ELSE "failed")
  /\ UNCHANGED <<dir, seen, tries>>

RemoveOwner(c) == dir' = Entries(dir.owners \ {c}, dir.fresh \/ c \in dir.owners)

(* Wrong: the owner file is not removed before the directory. *)
UnownSkipped(c) ==
  /\ pc[c] = "unown"
  /\ Go(c, "uncreate")
  /\ UNCHANGED <<dir, seen, tries>>

Unown(c) ==
  /\ pc[c] = "unown"
  /\ RemoveOwner(c)
  /\ Go(c, "uncreate")
  /\ UNCHANGED <<seen, tries>>

RmdirIfEmpty == dir' = IF dir.owners = {} THEN NoDir ELSE dir

(* ... then the directory. *)
Uncreate(c) ==
  /\ pc[c] = "uncreate"
  /\ RmdirIfEmpty
  /\ Go(c, "failed")
  /\ UNCHANGED <<seen, tries>>

-----------------------------------------------------------------------------
(* recoverStaleLaneRunMutationLock                                         *)

(* First lstat: gone or fresh ends the turn; stale leads, after a delay,   *)
(* to a second look.                                                       *)
Inspect(c) ==
  /\ pc[c] = "inspect"
  /\ \/ /\ ~Exists \/ dir.fresh
        /\ TryAgain(c)
        /\ UNCHANGED <<dir, seen>>
     \/ /\ Exists /\ ~dir.fresh
        /\ SoloRecovery => \A d \in Call : pc[d] \notin Recovering
        /\ seen' = [seen EXCEPT ![c] = dir.ino]
        /\ Go(c, "recheck")
        /\ UNCHANGED <<dir, tries>>

(* Second lstat: only the same directory, still stale, is removed. *)
Recheck(c) ==
  /\ pc[c] = "recheck"
  /\ IF Exists /\ SameDir(c) /\ ~dir.fresh
     THEN Go(c, "empty") /\ UNCHANGED tries
     ELSE TryAgain(c)
  /\ UNCHANGED <<dir, seen>>

(* rm(lockPath, { recursive: true }): first the entries, by path. *)
Empty(c) ==
  /\ pc[c] = "empty"
  /\ IF Exists
     THEN /\ dir' = Entries({}, dir.fresh \/ dir.owners # {})
          /\ Go(c, "remove")
          /\ UNCHANGED tries
     ELSE TryAgain(c) /\ UNCHANGED dir
  /\ UNCHANGED seen

(* ... then the directory; an entry made meanwhile makes it throw. *)
Remove(c) ==
  /\ pc[c] = "remove"
  /\ RmdirIfEmpty
  /\ IF dir.owners = {} THEN TryAgain(c) ELSE Go(c, "failed") /\ UNCHANGED tries
  /\ UNCHANGED seen

-----------------------------------------------------------------------------
(* releaseLaneRunMutationLock, one file-system call each.  Any check that  *)
(* fails ends the release without touching the directory.                  *)

Continue(c, from, ok, to) ==
  /\ pc[c] = from
  /\ Go(c, IF ok THEN to ELSE "done")
  /\ UNCHANGED <<dir, seen, tries>>

(* The operation is over: the heartbeat stops and the release begins. *)
BeginRelease(c) == Continue(c, "critical", TRUE, "lstat1")
CheckDir(c) == Continue(c, "lstat1", Exists /\ SameDir(c), "readOwner")
CheckOwner(c) == Continue(c, "readOwner", c \in dir.owners, "lstat2")
RecheckDir(c) == Continue(c, "lstat2", Exists /\ SameDir(c), "unlink")

Unlink(c) ==
  /\ pc[c] = "unlink"
  /\ RemoveOwner(c)
  /\ Go(c, IF c \in dir.owners THEN "rmdir" ELSE "done")
  /\ UNCHANGED <<seen, tries>>

Rmdir(c) ==
  /\ pc[c] = "rmdir"
  /\ RmdirIfEmpty
  /\ Go(c, "done")
  /\ UNCHANGED <<seen, tries>>

-----------------------------------------------------------------------------
(* Time and failure.                                                       *)

(* refreshLaneRunMutationLockHeartbeat: by path, whoever's directory it is *)
Heartbeat(c) ==
  /\ pc[c] = "critical"
  /\ Exists
  /\ dir' = Entries(dir.owners, TRUE)
  /\ UNCHANGED <<pc, seen, tries>>

(* Wrong: nothing refreshes the directory while an operation runs. *)
AgeWithoutHeartbeat ==
  /\ Exists /\ dir.fresh
  /\ dir' = Entries(dir.owners, FALSE)
  /\ UNCHANGED <<pc, seen, tries>>

(* Five minutes pass without a refresh: only while no running process is   *)
(* between its mkdir and its rmdir, since a critical one beats every       *)
(* minute and the other steps take no such time.                           *)
Age ==
  /\ Exists /\ dir.fresh
  /\ \A c \in Call \ Slow : pc[c] \notin Acquiring \cup Inside \cup Releasing
                                     \cup Recovering \cup Undoing
  /\ dir' = Entries(dir.owners, FALSE)
  /\ UNCHANGED <<pc, seen, tries>>

Crash(c) ==
  /\ pc[c] \notin Settled
  /\ Cardinality(Dead) < MaxCrashes
  /\ Go(c, "dead")
  /\ UNCHANGED <<dir, seen, tries>>

(* A file-system call fails: the error leaves withLaneRunMutationLock.     *)
(* Before the call has made a directory, or while it removes another's,    *)
(* that is all;                                                            *)
GiveUp(c) ==
  /\ pc[c] \in {"start", "inspect"} \cup Recovering
  /\ Go(c, "failed")
  /\ UNCHANGED <<dir, seen, tries>>

(* but the call's own directory stays where it is when the lstat after its *)
(* mkdir fails, since acquiredStats is still undefined then, and when a    *)
(* call of its clean-up or of its release does.                            *)
Break(c) ==
  /\ pc[c] \in {"made"} \cup Undoing \cup Releasing
  /\ Cardinality(Broken) < MaxBroken
  /\ Go(c, "broken")
  /\ UNCHANGED <<dir, seen, tries>>

Fault(c) == GiveUp(c) \/ Break(c)

-----------------------------------------------------------------------------
Init ==
  /\ dir = NoDir
  /\ pc = [c \in Call |-> "start"]
  /\ seen = [c \in Call |-> NoIno]
  /\ tries = [c \in Call |-> 0]

Acquire(c) == \/ Mkdir(c) \/ StatMade(c) \/ WriteOwner(c)
              \/ Cleanup(c) \/ Unown(c) \/ Uncreate(c)
Recover(c) == Inspect(c) \/ Recheck(c) \/ Empty(c) \/ Remove(c)
Release(c) == \/ BeginRelease(c) \/ CheckDir(c) \/ CheckOwner(c) \/ RecheckDir(c)
              \/ Unlink(c) \/ Rmdir(c)
Step(c) == Acquire(c) \/ Recover(c) \/ Release(c)

Next ==
  \/ \E c \in Call : Step(c) \/ Heartbeat(c) \/ Fault(c) \/ Crash(c)
  \/ Age

(* A process that has not died goes on: each step awaits one file-system   *)
(* call or a short delay.  Nothing forces a lock to become stale.          *)
Spec == Init /\ [][Next]_lockVars /\ \A c \in Call : WF_lockVars(Step(c))
-----------------------------------------------------------------------------
(* Properties.                                                             *)

(* Every variable has its type; a directory that does not exist is NoDir.  *)
TypeOK ==
  /\ dir \in [ino : Ino \cup {NoIno}, owners : SUBSET Call, fresh : BOOLEAN]
  /\ ~Exists => dir = NoDir
  /\ pc \in [Call -> {"start", "inspect"} \cup Acquiring \cup Inside \cup Undoing
                       \cup Recovering \cup Releasing \cup Settled]
  /\ seen \in [Call -> Ino \cup {NoIno}]
  /\ tries \in [Call -> 0..MaxTries]

(* Two lane-run mutations of one work item never run at once: what every   *)
(* operation on the queue record and the lane-run lock relies on.          *)
MutualExclusion ==
  \A c, d \in Call : pc[c] = "critical" /\ pc[d] = "critical" => c = d

(* While a call builds or holds its lock, nobody removes or replaces the   *)
(* directory under it: not a recovery that took it for stale, and not the  *)
(* late rmdir of an earlier holder.                                        *)
DirectoryStaysUnderItsMaker ==
  [][\A c \in Call : pc[c] \in Acquiring \cup Inside /\ pc'[c] # "dead"
                       => dir'.ino = dir.ino]_lockVars

(* When all calls are over, a lock directory remains only if a process has *)
(* died, or a call met an error that it cannot recover from: at the lstat  *)
(* after its mkdir, or in its clean-up or release.  No owner file is in it *)
(* but theirs.  Every other failure cleans up after itself, above all that *)
(* of the owner file, half written or not: no work item is blocked for     *)
(* five minutes for nothing.                                               *)
AbandonedLockHasACause ==
  Exists /\ (\A c \in Call : pc[c] \in Settled)
    => Dead \cup Broken # {} /\ dir.owners \subseteq Dead \cup Broken

(* No call is stuck: it gets the lock and gives it back, or reports that   *)
(* the record is being modified, or its process dies; and there it stays.  *)
EveryCallSettles == <>(\A c \in Call : pc[c] \in Settled)
=============================================================================
