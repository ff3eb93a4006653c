----------------------- MODULE LaneMutationLockProofs ------------------------
(***************************************************************************)
(* Theorems about LaneMutationLock, for every set of calls and of inode    *)
(* numbers (which may be used again) and every bound on tries, on crashes  *)
(* and on calls that cannot take back their directory.  Exclusion and what *)
(* belongs to it need an assumption: no process is stopped for longer than *)
(* the staleness limit while it holds the lock, and either nothing is left *)
(* behind (no process dies and none fails to take back its directory) or   *)
(* no two recoveries of a stale directory overlap.  Types and termination  *)
(* need none.                                                              *)
(***************************************************************************)
EXTENDS LaneMutationLock, FiniteSetTheorems, TLAPS

Assumed == Slow = {} /\ (SoloRecovery \/ (MaxCrashes = 0 /\ MaxBroken = 0))

-----------------------------------------------------------------------------
(* The inductive invariant.                                                *)

Holding == Acquiring \cup Inside \cup Undoing \cup Releasing

(* A call that has made the directory or found it stale, and is not over.  *)
Busy == Holding \cup Recovering

(* At most one call is busy. *)
OneBusy == \A c, d \in Call : pc[c] \in Busy /\ pc[d] \in Busy => c = d

(* What the busy call knows of the directory at each step. *)
Knows(c) ==
  /\ pc[c] \in Busy => Exists
  /\ pc[c] \in Holding => dir.fresh = TRUE
  /\ pc[c] \in {"recheck", "empty"} => dir.fresh = FALSE
  /\ pc[c] \in (Busy \ {"made", "rmdir", "remove"}) => SameDir(c)
  /\ pc[c] \in {"made", "statted", "uncreate", "rmdir", "remove"} => dir.owners = {}
  /\ pc[c] \in {"cleanup", "unown"} => dir.owners \subseteq {c}
  /\ pc[c] \in Inside \cup (Releasing \ {"rmdir"}) => dir.owners = {c}

(* A call that may still turn round the loop has a turn left. *)
HasTurn(c) == pc[c] \in {"start", "inspect"} \cup Recovering => tries[c] < MaxTries

(* A directory that nobody holds was left by a dead call or one that broke *)
(* off, with no owner file but theirs.                                     *)
Lost == Dead \cup Broken

LeftBehind ==
  Exists /\ (\A c \in Call : pc[c] \notin Holding)
    => Lost # {} /\ dir.owners \subseteq Lost

(* Nobody dies or breaks off where nobody may. *)
AsManyLost == (MaxCrashes = 0 => Dead = {}) /\ (MaxBroken = 0 => Broken = {})

IInv ==
  /\ TypeOK
  /\ OneBusy
  /\ \A c \in Call : Knows(c) /\ HasTurn(c)
  /\ LeftBehind
  /\ AsManyLost

-----------------------------------------------------------------------------
(* What going on and trying again do to the place of a call.               *)

Label == {"start", "inspect"} \cup Acquiring \cup Inside \cup Undoing
          \cup Recovering \cup Releasing \cup Settled

(* Going on moves one call and no other,                                   *)
LEMMA GoMoves ==
  ASSUME TypeOK, NEW c \in Call, NEW label \in Label, Go(c, label)
  PROVE  /\ pc' \in [Call -> Label] /\ pc'[c] = label
         /\ \A d \in Call : d # c => pc'[d] = pc[d]
BY DEF TypeOK, Go, Label

(* and so does trying again, which may also be the end.                    *)
LEMMA TryAgainMoves ==
  ASSUME TypeOK, NEW c \in Call, tries[c] < MaxTries, TryAgain(c)
  PROVE  /\ tries' \in [Call -> 0..MaxTries]
         /\ pc' \in [Call -> Label]
         /\ pc'[c] \in {"start", "failed"}
         /\ pc'[c] = "start" => tries'[c] < MaxTries
         /\ \A d \in Call : d # c => pc'[d] = pc[d] /\ tries'[d] = tries[d]
<1>1. {"start", "failed"} \subseteq Label
  BY DEF Label, Settled
<1> QED
  BY <1>1, LockAssumption DEF TypeOK, TryAgain, Go, Label

(* Making the directory and putting the owner file into it, or taking both *)
(* back: nobody else is busy while there is no directory, so the paths for *)
(* a directory that was lost meanwhile are never taken.                    *)
LEMMA Acquires ==
  ASSUME IInv, NEW c \in Call, Acquire(c)
  PROVE  IInv'
<1> USE LockAssumption DEF Label, Acquiring, Inside, Undoing, Releasing, Recovering, Settled,
                          Holding, Busy, IInv, TypeOK, OneBusy, Knows, HasTurn, LeftBehind,
                          AsManyLost, Lost, Dead, Broken, Exists, SameDir, NoDir
<1>1. ASSUME Mkdir(c) PROVE IInv'
  <2>1. CASE Exists
    <3>1. Go(c, "inspect")
      BY <1>1, <2>1 DEF Mkdir
    <3> QED
      BY <1>1, <2>1, <3>1, GoMoves DEF Mkdir
  <2>2. CASE ~Exists
    <3>1. Go(c, "made")
      BY <1>1, <2>2 DEF Mkdir
    <3>2. PICK i \in Ino : dir' = [ino |-> i, owners |-> {}, fresh |-> TRUE]
      BY <1>1, <2>2 DEF Mkdir
    <3>3. \A d \in Call : pc[d] \notin Busy
      BY <2>2
    <3>4. dir'.ino # NoIno /\ dir'.owners = {} /\ dir'.fresh = TRUE
      BY <3>2
    <3>5. TypeOK'
      BY <1>1, <3>1, <3>2, GoMoves DEF Mkdir
    <3>6. UNCHANGED <<seen, tries>>
      BY <1>1 DEF Mkdir
    <3> QED
      BY <1>1, <3>1, <3>3, <3>4, <3>5, <3>6, GoMoves
  <2> QED
    BY <2>1, <2>2
<1>2. ASSUME StatMade(c) PROVE IInv'
  <2>1. Exists /\ Go(c, "statted") /\ UNCHANGED <<dir, tries>> /\ pc[c] = "made"
    BY <1>2 DEF StatMade
  <2>2. seen' \in [Call -> Ino \cup {NoIno}] /\ seen'[c] = dir.ino
        /\ \A d \in Call : d # c => seen'[d] = seen[d]
    BY <1>2 DEF StatMade
  <2> QED
    BY <2>1, <2>2, GoMoves
<1>3. ASSUME WriteOwner(c) PROVE IInv'
  <2>1. PICK label \in {"critical", "cleanup"} :
          /\ Go(c, label) /\ UNCHANGED <<seen, tries>> /\ pc[c] = "statted"
          /\ OwnerCreated(c) \/ (label = "cleanup" /\ UNCHANGED dir)
    BY <1>3 DEF WriteOwner
  <2>2. CASE OwnerCreated(c)
    <3>1. dir' = Entries(dir.owners \cup {c}, TRUE)
      BY <2>2 DEF OwnerCreated
    <3>2. dir' \in [ino : Ino \cup {NoIno}, owners : SUBSET Call, fresh : BOOLEAN]
      BY <3>1 DEF Entries
    <3>3. dir'.ino = dir.ino /\ dir'.owners = {c} /\ dir'.fresh = TRUE
      BY <2>1, <3>1 DEF Entries
    <3> QED
      BY <2>1, <3>2, <3>3, GoMoves
  <2>3. CASE label = "cleanup" /\ UNCHANGED dir
    BY <2>1, <2>3, GoMoves
  <2> QED
    BY <2>1, <2>2, <2>3
<1>4. ASSUME Cleanup(c) PROVE IInv'
  <2>1. Go(c, "unown") /\ UNCHANGED <<dir, seen, tries>> /\ pc[c] = "cleanup"
    BY <1>4 DEF Cleanup
  <2> QED
    BY <2>1, GoMoves
<1>5. ASSUME Unown(c) PROVE IInv'
  <2>1. Go(c, "uncreate") /\ UNCHANGED <<seen, tries>> /\ pc[c] = "unown"
    BY <1>5 DEF Unown
  <2>2. dir' = Entries(dir.owners \ {c}, dir.fresh \/ c \in dir.owners)
    BY <1>5 DEF Unown, RemoveOwner
  <2>3. dir' \in [ino : Ino \cup {NoIno}, owners : SUBSET Call, fresh : BOOLEAN]
    BY <2>2 DEF Entries
  <2>4. dir'.ino = dir.ino /\ dir'.owners = {} /\ dir'.fresh = TRUE
    BY <2>1, <2>2 DEF Entries
  <2> QED
    BY <2>1, <2>3, <2>4, GoMoves
<1>6. ASSUME Uncreate(c) PROVE IInv'
  <2>1. Go(c, "failed") /\ dir' = NoDir /\ UNCHANGED <<seen, tries>> /\ pc[c] = "uncreate"
    BY <1>6 DEF Uncreate, RmdirIfEmpty
  <2> QED
    BY <2>1, GoMoves
<1> QED
  BY <1>1, <1>2, <1>3, <1>4, <1>5, <1>6 DEF Acquire

(* A recovery starts at a stale directory, which was left behind, and ends *)
(* with none: nobody is busy when it starts, nor becomes so before it ends.*)
LEMMA Recovers ==
  ASSUME IInv, Assumed, NEW c \in Call, Recover(c)
  PROVE  IInv'
<1> USE LockAssumption DEF Label, Acquiring, Inside, Undoing, Releasing, Recovering, Settled,
                          Holding, Busy, IInv, TypeOK, OneBusy, Knows, HasTurn, LeftBehind,
                          AsManyLost, Lost, Dead, Broken, Exists, SameDir, NoDir
<1>1. ASSUME Inspect(c) PROVE IInv'
  <2>1. CASE ~Exists \/ dir.fresh
    <3>1. TryAgain(c) /\ UNCHANGED <<dir, seen>> /\ pc[c] = "inspect"
      BY <1>1, <2>1 DEF Inspect
    <3> QED
      BY <3>1, TryAgainMoves
  <2>2. CASE ~(~Exists \/ dir.fresh)
    <3>1. /\ Go(c, "recheck") /\ UNCHANGED <<dir, tries>> /\ pc[c] = "inspect"
          /\ \A d \in Call : pc[d] \notin Recovering
      BY <1>1, <2>2 DEF Inspect, Assumed
    <3>2. seen' \in [Call -> Ino \cup {NoIno}] /\ seen'[c] = dir.ino
          /\ \A d \in Call : d # c => seen'[d] = seen[d]
      BY <1>1, <2>2 DEF Inspect
    <3>3. dir.fresh = FALSE /\ Exists /\ \A d \in Call : pc[d] \notin Busy
      BY <2>2, <3>1
    <3> QED
      BY <3>1, <3>2, <3>3, GoMoves
  <2> QED
    BY <2>1, <2>2
<1>2. ASSUME Recheck(c) PROVE IInv'
  <2>1. Go(c, "empty") /\ UNCHANGED <<dir, seen, tries>> /\ pc[c] = "recheck"
    BY <1>2 DEF Recheck
  <2> QED
    BY <2>1, GoMoves
<1>3. ASSUME Empty(c) PROVE IInv'
  <2>1. Exists /\ Go(c, "remove") /\ UNCHANGED <<seen, tries>> /\ pc[c] = "empty"
    BY <1>3 DEF Empty
  <2>2. dir' = Entries({}, dir.fresh \/ dir.owners # {})
    BY <1>3, <2>1 DEF Empty
  <2>3. dir' \in [ino : Ino \cup {NoIno}, owners : SUBSET Call, fresh : BOOLEAN]
    BY <2>2 DEF Entries
  <2>4. dir'.ino = dir.ino /\ dir'.owners = {}
    BY <2>2 DEF Entries
  <2> QED
    BY <2>1, <2>3, <2>4, GoMoves
<1>4. ASSUME Remove(c) PROVE IInv'
  <2>1. TryAgain(c) /\ dir' = NoDir /\ UNCHANGED seen /\ pc[c] = "remove"
    BY <1>4 DEF Remove, RmdirIfEmpty
  <2>2. \A d \in Call : d # c => pc[d] \notin Busy
    BY <2>1
  <2> QED
    BY <2>1, <2>2, TryAgainMoves
<1> QED
  BY <1>1, <1>2, <1>3, <1>4 DEF Recover

(* A release finds the directory and the owner file it made.               *)
LEMMA Releases ==
  ASSUME IInv, NEW c \in Call, Release(c)
  PROVE  IInv'
<1> USE LockAssumption DEF Label, Acquiring, Inside, Undoing, Releasing, Recovering, Settled,
                          Holding, Busy, IInv, TypeOK, OneBusy, Knows, HasTurn, LeftBehind,
                          AsManyLost, Lost, Dead, Broken, Exists, SameDir, NoDir
<1>1. ASSUME BeginRelease(c) \/ CheckDir(c) \/ CheckOwner(c) \/ RecheckDir(c) PROVE IInv'
  <2>1. PICK to \in {"lstat1", "readOwner", "lstat2", "unlink"} :
          Go(c, to) /\ UNCHANGED <<dir, seen, tries>>
          /\ pc[c] \in {"critical", "lstat1", "readOwner", "lstat2"}
    BY <1>1 DEF BeginRelease, CheckDir, CheckOwner, RecheckDir, Continue
  <2> QED
    BY <2>1, GoMoves
<1>2. ASSUME Unlink(c) PROVE IInv'
  <2>1. Go(c, "rmdir") /\ UNCHANGED <<seen, tries>> /\ pc[c] = "unlink"
    BY <1>2 DEF Unlink
  <2>2. dir' = Entries(dir.owners \ {c}, dir.fresh \/ c \in dir.owners)
    BY <1>2 DEF Unlink, RemoveOwner
  <2>3. dir' \in [ino : Ino \cup {NoIno}, owners : SUBSET Call, fresh : BOOLEAN]
    BY <2>2 DEF Entries
  <2>4. dir'.ino = dir.ino /\ dir'.owners = {} /\ dir'.fresh = TRUE
    BY <2>1, <2>2 DEF Entries
  <2> QED
    BY <2>1, <2>3, <2>4, GoMoves
<1>3. ASSUME Rmdir(c) PROVE IInv'
  <2>1. Go(c, "done") /\ dir' = NoDir /\ UNCHANGED <<seen, tries>> /\ pc[c] = "rmdir"
    BY <1>3 DEF Rmdir, RmdirIfEmpty
  <2> QED
    BY <2>1, GoMoves
<1> QED
  BY <1>1, <1>2, <1>3 DEF Release

(* Only a directory without a live holder grows old.                       *)
LEMMA TimePasses ==
  ASSUME IInv, Assumed, Age
  PROVE  IInv'
<1> USE DEF Acquiring, Inside, Undoing, Releasing, Recovering, Settled, Holding,
            Busy, IInv, OneBusy, Knows, HasTurn, LeftBehind, AsManyLost, Lost, Dead, Broken,
            Exists, SameDir
<1>1. /\ Exists /\ dir' = Entries(dir.owners, FALSE) /\ UNCHANGED <<pc, seen, tries>>
      /\ \A c \in Call : pc[c] \notin Busy
  BY DEF Age, Assumed
<1>2. TypeOK'
  BY <1>1 DEF TypeOK, NoDir, Entries
<1>3. dir'.ino = dir.ino /\ dir'.owners = dir.owners
  BY <1>1 DEF TypeOK, Entries
<1>4. Dead' = Dead /\ Broken' = Broken
  BY <1>1
<1>5. LeftBehind'
  <2> HIDE DEF Dead, Broken
  <2> QED
    BY <1>1, <1>3, <1>4
<1>6. AsManyLost'
  <2> HIDE DEF Dead, Broken
  <2> QED
    BY <1>4
<1>7. OneBusy'
  BY <1>1
<1>8. ASSUME NEW d \in Call PROVE Knows(d)' /\ HasTurn(d)'
  BY <1>1, <1>3
<1> QED
  BY <1>2, <1>5, <1>6, <1>7, <1>8

(* The holder's heartbeat, and its death, change no one else's knowledge.  *)
LEMMA HeartBeats ==
  ASSUME IInv, NEW c \in Call, Heartbeat(c)
  PROVE  IInv'
<1> USE DEF Acquiring, Inside, Undoing, Releasing, Recovering, Settled, Holding,
            Busy, IInv, OneBusy, Knows, HasTurn, LeftBehind, AsManyLost, Lost, Dead, Broken,
            Exists, SameDir
<1>1. /\ Exists /\ dir' = Entries(dir.owners, TRUE) /\ UNCHANGED <<pc, seen, tries>>
      /\ pc[c] = "critical"
  BY DEF Heartbeat
<1>2. TypeOK'
  BY <1>1 DEF TypeOK, NoDir, Entries
<1>3. dir'.ino = dir.ino /\ dir'.owners = dir.owners /\ dir'.fresh = TRUE
  BY <1>1 DEF TypeOK, Entries
<1>4. Dead' = Dead /\ Broken' = Broken
  BY <1>1
<1>5. LeftBehind'
  <2> HIDE DEF Dead, Broken
  <2> QED
    BY <1>1, <1>3, <1>4
<1>6. AsManyLost'
  <2> HIDE DEF Dead, Broken
  <2> QED
    BY <1>4
<1>7. OneBusy'
  BY <1>1
<1>8. ASSUME NEW d \in Call PROVE Knows(d)' /\ HasTurn(d)'
  <2>1. CASE d = c
    BY <1>1, <1>3, <2>1
  <2>2. CASE pc[d] \notin Busy
    BY <1>1, <1>3, <2>2
  <2> QED
    BY <1>1, <2>1, <2>2
<1> QED
  BY <1>2, <1>5, <1>6, <1>7, <1>8

(* A death leaves the directory to be found stale.                         *)
LEMMA Dies ==
  ASSUME IInv, NEW c \in Call, Crash(c)
  PROVE  IInv'
<1> USE DEF Label, Acquiring, Inside, Undoing, Releasing, Recovering, Settled, Holding,
            Busy, IInv, TypeOK, OneBusy, Knows, HasTurn, LeftBehind, AsManyLost, Lost, Dead,
            Broken, Exists, SameDir, NoDir
<1>1. Go(c, "dead") /\ UNCHANGED <<dir, seen, tries>>
  BY DEF Crash
<1>2. MaxCrashes # 0
  <2>1. Cardinality(Dead) < MaxCrashes
    BY DEF Crash
  <2> HIDE DEF Dead
  <2>2. ASSUME MaxCrashes = 0 PROVE Cardinality(Dead) = 0
    <3>1. Dead = {}
      BY <2>2 DEF AsManyLost
    <3> QED
      BY <3>1, FS_EmptySet, Zenon
  <2> QED
    BY <2>1, <2>2
<1> QED
  BY <1>1, <1>2, GoMoves

(* So does a call that breaks off with its directory made; one that gives  *)
(* up had none.                                                            *)
LEMMA Fails ==
  ASSUME IInv, NEW c \in Call, Fault(c)
  PROVE  IInv'
<1> USE DEF Label, Acquiring, Inside, Undoing, Releasing, Recovering, Settled, Holding,
            Busy, IInv, TypeOK, OneBusy, Knows, HasTurn, LeftBehind, AsManyLost, Lost, Dead,
            Broken, Exists, SameDir, NoDir
<1>1. CASE GiveUp(c)
  <2>1. /\ Go(c, "failed") /\ UNCHANGED <<dir, seen, tries>>
        /\ pc[c] \in {"start", "inspect"} \cup Recovering
    BY <1>1 DEF GiveUp
  <2> QED
    BY <2>1, GoMoves
<1>2. CASE Break(c)
  <2>1. Go(c, "broken") /\ UNCHANGED <<dir, seen, tries>> /\ pc[c] \in Holding
    BY <1>2 DEF Break
  <2>2. MaxBroken # 0
    <3>1. Cardinality(Broken) < MaxBroken
      BY <1>2 DEF Break
    <3> HIDE DEF Broken
    <3>2. ASSUME MaxBroken = 0 PROVE Cardinality(Broken) = 0
      <4>1. Broken = {}
        BY <3>2 DEF AsManyLost
      <4> QED
        BY <4>1, FS_EmptySet, Zenon
    <3> QED
      BY <3>1, <3>2
  <2>3. \A d \in Call : d # c => pc[d] \notin Busy
    BY <2>1
  <2> QED
    BY <2>1, <2>2, <2>3, GoMoves
<1> QED
  BY <1>1, <1>2 DEF Fault

(* The invariant is inductive, and holds of every behaviour.               *)
LEMMA StepKeeps == IInv /\ Assumed /\ [Next]_lockVars => IInv'
<1> SUFFICES ASSUME IInv, Assumed, [Next]_lockVars PROVE IInv'
  OBVIOUS
<1>1. CASE UNCHANGED lockVars
  BY <1>1 DEF lockVars, IInv, TypeOK, OneBusy, Knows, HasTurn, LeftBehind, AsManyLost, Lost, Dead,
     Broken, Exists, SameDir
<1> QED
  BY <1>1, Acquires, Recovers, Releases, TimePasses, HeartBeats, Dies, Fails DEF Next, Step

(* The invariant holds at first,                                           *)
LEMMA InitHolds == Init => IInv
BY LockAssumption DEF Init, IInv, TypeOK, OneBusy, Knows, HasTurn, LeftBehind, AsManyLost, Lost,
   Dead, Broken, Exists, NoDir, Acquiring, Inside, Undoing, Releasing, Recovering, Settled, Holding, Busy

(* and of every behaviour.                                                 *)
LEMMA Invariant == ASSUME Assumed PROVE Spec => []IInv
<1>1. IInv /\ [Next]_lockVars => IInv'
  BY StepKeeps
<1> QED
  BY <1>1, InitHolds, PTL DEF Spec

(* Two mutations of one work item are never inside the lock at once.       *)
THEOREM Exclusion == ASSUME Assumed PROVE Spec => []MutualExclusion
<1>1. IInv => MutualExclusion
  BY DEF IInv, OneBusy, MutualExclusion, Busy, Holding, Inside
<1> QED
  BY <1>1, Invariant, PTL

(* A lock that stays when all calls are over is a dead process's, or that  *)
(* of a call whose lstat, clean-up or release failed; failures to write    *)
(* the owner file clean up after themselves.                               *)
THEOREM LeftWithCause == ASSUME Assumed PROVE Spec => []AbandonedLockHasACause
<1>1. IInv => AbandonedLockHasACause
  BY DEF IInv, LeftBehind, Lost, AbandonedLockHasACause, Holding, Acquiring, Inside, Undoing,
     Releasing, Settled
<1> QED
  BY <1>1, Invariant, PTL

(* The inode changes only where a call makes or removes the directory.     *)
LEMMA StepLeavesDirectory ==
  ASSUME IInv, Assumed, [Next]_lockVars, NEW c \in Call,
         pc[c] \in Acquiring \cup Inside, pc'[c] # "dead"
  PROVE  dir'.ino = dir.ino
<1> USE DEF Acquiring, Inside, Undoing, Recovering, Releasing, Holding, Busy, IInv, OneBusy,
            Knows, Exists
<1>1. Exists /\ \A d \in Call : d # c => pc[d] \notin Busy
  OBVIOUS
<1>2. ASSUME NEW d \in Call, Step(d) PROVE dir'.ino = dir.ino
  BY <1>1, <1>2 DEF Step, Acquire, Recover, Release, Mkdir, StatMade, WriteOwner, Cleanup,
     OwnerCreated, Unown, RemoveOwner, Uncreate, Inspect, Recheck, Empty, Remove, BeginRelease,
     CheckDir, CheckOwner, RecheckDir, Continue, Unlink, Rmdir, Entries
<1>3. ASSUME NEW d \in Call, Heartbeat(d) \/ Fault(d) \/ Crash(d) PROVE dir'.ino = dir.ino
  BY <1>3 DEF Heartbeat, Fault, GiveUp, Break, Crash, Entries
<1>4. ASSUME Age PROVE dir'.ino = dir.ino
  BY <1>4 DEF Age, Entries
<1>5. CASE UNCHANGED lockVars
  BY <1>5 DEF lockVars
<1> QED
  BY <1>2, <1>3, <1>4, <1>5 DEF Next

(* Nobody removes or replaces a directory under the call that builds or    *)
(* holds the lock.                                                         *)
THEOREM DirectoryStays == ASSUME Assumed PROVE Spec => DirectoryStaysUnderItsMaker
<1>1. IInv /\ [Next]_lockVars =>
        [\A c \in Call : pc[c] \in Acquiring \cup Inside /\ pc'[c] # "dead"
                           => dir'.ino = dir.ino]_lockVars
  BY StepLeavesDirectory
<1> QED
  BY <1>1, Invariant, PTL DEF Spec, DirectoryStaysUnderItsMaker
-----------------------------------------------------------------------------
(* What holds whoever dies, is suspended or recovers at the same time.     *)

TypedTurns == TypeOK /\ \A c \in Call : HasTurn(c)

(* How many steps a call can still take: those from its place to the end   *)
(* of this turn of the loop, and all of each further turn.                 *)
Level(label) ==
  CASE label = "start"     -> 13
    [] label = "inspect"   -> 12
    [] label = "recheck"   -> 11
    [] label = "empty"     -> 10
    [] label = "remove"    -> 9
    [] label = "made"      -> 8
    [] label = "statted"   -> 7
    [] label = "critical"  -> 6
    [] label = "lstat1"    -> 5
    [] label = "readOwner" -> 4
    [] label = "lstat2"    -> 3
    [] label = "cleanup"   -> 3
    [] label \in {"unlink", "unown"}    -> 2
    [] label \in {"rmdir", "uncreate"}  -> 1
    [] OTHER -> 0

Left(c) == 14 * (MaxTries - tries[c]) + Level(pc[c])

(* A call that uses up its turn has fewer steps left, wherever it was in   *)
(* that turn.                                                              *)
LEMMA TurnsRunOut ==
  ASSUME TypedTurns, NEW c \in Call, pc[c] \in {"inspect"} \cup Recovering, TryAgain(c)
  PROVE  /\ tries' \in [Call -> 0..MaxTries]
         /\ pc' \in [Call -> Label]
         /\ (\A d \in Call : HasTurn(d))'
         /\ \A d \in Call : d # c => pc'[d] = pc[d] /\ tries'[d] = tries[d]
         /\ Left(c)' < Left(c)
<1>1. tries[c] < MaxTries /\ tries[c] \in Nat /\ MaxTries \in Nat
  BY LockAssumption DEF TypedTurns, HasTurn, TypeOK
<1>2. /\ tries' \in [Call -> 0..MaxTries] /\ pc' \in [Call -> Label]
      /\ pc'[c] \in {"start", "failed"}
      /\ pc'[c] = "start" => tries'[c] < MaxTries
      /\ \A d \in Call : d # c => pc'[d] = pc[d] /\ tries'[d] = tries[d]
  BY <1>1, TryAgainMoves DEF TypedTurns
<1>3. tries'[c] = tries[c] + 1
  BY DEF TryAgain, TypedTurns, TypeOK
<1>4. (\A d \in Call : HasTurn(d))'
  BY <1>2 DEF HasTurn, Recovering, TypedTurns
<1>5. Level(pc'[c]) \in 0..13 /\ Level(pc[c]) \in 9..13
  BY <1>2 DEF Level, Recovering
<1>6. Left(c)' < Left(c)
  BY <1>1, <1>3, <1>5 DEF Left
<1> QED
  BY <1>2, <1>4, <1>6

(* A step to a later place of the same turn, too, uses one up.             *)
LEMMA StepsOnward ==
  ASSUME TypedTurns, NEW c \in Call, NEW label \in Label, Go(c, label), UNCHANGED tries,
         Level(label) < Level(pc[c]), label \in {"inspect"} \cup Recovering =>
           pc[c] \in {"start", "inspect"} \cup Recovering, label # "start"
  PROVE  /\ pc' \in [Call -> Label]
         /\ (\A d \in Call : HasTurn(d))'
         /\ \A d \in Call : d # c => pc'[d] = pc[d] /\ tries'[d] = tries[d]
         /\ Left(c)' < Left(c)
<1>1. /\ pc' \in [Call -> Label] /\ pc'[c] = label
      /\ \A d \in Call : d # c => pc'[d] = pc[d]
  BY GoMoves DEF TypedTurns
<1>2. (\A d \in Call : HasTurn(d))'
  BY <1>1 DEF HasTurn, Recovering, TypedTurns
<1>3. Level(label) \in 0..13 /\ Level(pc[c]) \in 0..13 /\ tries[c] \in Nat /\ MaxTries \in Nat
  BY LockAssumption DEF Level, TypedTurns, TypeOK
<1>4. Left(c)' < Left(c)
  BY <1>1, <1>3 DEF Left
<1> QED
  BY <1>1, <1>2, <1>4

(* Every step of a call does one or the other.                             *)
Onward(c) ==
  \/ pc[c] \in {"inspect"} \cup Recovering /\ TryAgain(c)
  \/ \E label \in Label \ {"start"} :
       /\ Go(c, label) /\ UNCHANGED tries /\ Level(label) < Level(pc[c])
       /\ label \in {"inspect"} \cup Recovering => pc[c] \in {"start", "inspect"} \cup Recovering

(* One place leads to a later one.                                         *)
LEMMA GoesOnward ==
  ASSUME NEW c \in Call, NEW label \in Label \ {"start"}, Go(c, label), UNCHANGED tries,
         Level(label) < Level(pc[c]),
         label \in {"inspect"} \cup Recovering => pc[c] \in {"start", "inspect"} \cup Recovering
  PROVE  Onward(c)
BY DEF Onward

(* Wherever a call is, its next step, failure or death is one of those.    *)
LEMMA StepIsOnward ==
  ASSUME TypedTurns, NEW c \in Call, Step(c) \/ Fault(c) \/ Crash(c)
  PROVE  Onward(c)
<1> USE DEF Label, Acquiring, Inside, Undoing, Releasing, Recovering, Settled, Level
<1>1. ASSUME Mkdir(c) PROVE Onward(c)
  BY <1>1, GoesOnward DEF Mkdir
<1>2. ASSUME StatMade(c) PROVE Onward(c)
  BY <1>2, GoesOnward DEF StatMade
<1>3. ASSUME WriteOwner(c) PROVE Onward(c)
  <2>1. PICK label \in {"critical", "cleanup"} : Go(c, label) /\ UNCHANGED tries
    BY <1>3 DEF WriteOwner
  <2>2. pc[c] = "statted"
    BY <1>3 DEF WriteOwner
  <2> QED
    BY <2>1, <2>2, GoesOnward
<1>4. ASSUME Cleanup(c) \/ Unown(c) \/ Uncreate(c) PROVE Onward(c)
  BY <1>4, GoesOnward DEF Cleanup, Unown, Uncreate
<1>5. ASSUME Inspect(c) PROVE Onward(c)
  <2>1. CASE TryAgain(c)
    BY <1>5, <2>1 DEF Inspect, Onward
  <2>2. CASE Go(c, "recheck") /\ UNCHANGED tries
    BY <1>5, <2>2, GoesOnward DEF Inspect
  <2> QED
    BY <1>5, <2>1, <2>2 DEF Inspect
<1>6. ASSUME Recheck(c) PROVE Onward(c)
  <2>1. CASE TryAgain(c)
    BY <1>6, <2>1 DEF Recheck, Onward
  <2>2. CASE Go(c, "empty") /\ UNCHANGED tries
    BY <1>6, <2>2, GoesOnward DEF Recheck
  <2> QED
    BY <1>6, <2>1, <2>2 DEF Recheck
<1>7. ASSUME Empty(c) PROVE Onward(c)
  <2>1. CASE TryAgain(c)
    BY <1>7, <2>1 DEF Empty, Onward
  <2>2. CASE Go(c, "remove") /\ UNCHANGED tries
    BY <1>7, <2>2, GoesOnward DEF Empty
  <2> QED
    BY <1>7, <2>1, <2>2 DEF Empty
<1>8. ASSUME Remove(c) PROVE Onward(c)
  <2>1. CASE TryAgain(c)
    BY <1>8, <2>1 DEF Remove, Onward
  <2>2. CASE Go(c, "failed") /\ UNCHANGED tries
    BY <1>8, <2>2, GoesOnward DEF Remove
  <2> QED
    BY <1>8, <2>1, <2>2 DEF Remove
<1>9. ASSUME BeginRelease(c) \/ CheckDir(c) \/ CheckOwner(c) \/ RecheckDir(c) PROVE Onward(c)
  BY <1>9, GoesOnward DEF BeginRelease, CheckDir, CheckOwner, RecheckDir, Continue
<1>10. ASSUME Unlink(c) \/ Rmdir(c) PROVE Onward(c)
  BY <1>10, GoesOnward DEF Unlink, Rmdir
<1>11. ASSUME Crash(c) PROVE Onward(c)
  <2>1. Level("dead") < Level(pc[c])
    BY <1>11 DEF Crash, TypedTurns, TypeOK
  <2> QED
    BY <1>11, <2>1, GoesOnward DEF Crash
<1>12. ASSUME Fault(c) PROVE Onward(c)
  BY <1>12, GoesOnward DEF Fault, GiveUp, Break
<1> QED
  BY <1>1, <1>2, <1>3, <1>4, <1>5, <1>6, <1>7, <1>8, <1>9, <1>10, <1>11, <1>12
     DEF Step, Acquire, Recover, Release

(* The directory keeps its type whoever makes, fills or removes it.        *)
LEMMA DirectoryTyped ==
  ASSUME TypeOK, [Next]_lockVars
  PROVE  /\ dir' \in [ino : Ino \cup {NoIno}, owners : SUBSET Call, fresh : BOOLEAN]
         /\ ~Exists' => dir' = NoDir'
<1> USE LockAssumption DEF TypeOK, Exists, NoDir
<1>1. CASE UNCHANGED dir
  BY <1>1
<1>2. ASSUME NEW owners \in SUBSET Call, NEW fresh \in BOOLEAN, dir' = Entries(owners, fresh),
             Exists \/ (owners = {} /\ fresh = FALSE)
      PROVE  /\ dir' \in [ino : Ino \cup {NoIno}, owners : SUBSET Call, fresh : BOOLEAN]
             /\ ~Exists' => dir' = NoDir'
  BY <1>2 DEF Entries
<1>3. CASE RmdirIfEmpty
  BY <1>3 DEF RmdirIfEmpty
<1>4. ASSUME NEW c \in Call, Mkdir(c)
      PROVE  /\ dir' \in [ino : Ino \cup {NoIno}, owners : SUBSET Call, fresh : BOOLEAN]
             /\ ~Exists' => dir' = NoDir'
  <2>1. UNCHANGED dir \/ \E i \in Ino : dir' = [ino |-> i, owners |-> {}, fresh |-> TRUE]
    BY <1>4 DEF Mkdir
  <2>2. ASSUME NEW i \in Ino, dir' = [ino |-> i, owners |-> {}, fresh |-> TRUE]
        PROVE  /\ dir' \in [ino : Ino \cup {NoIno}, owners : SUBSET Call, fresh : BOOLEAN]
               /\ ~Exists' => dir' = NoDir'
    BY <2>2
  <2> QED
    BY <1>1, <2>1, <2>2
<1>5. ASSUME NEW c \in Call, \/ WriteOwner(c) \/ Empty(c) \/ Heartbeat(c) \/ Age
                             \/ Unown(c) \/ Unlink(c)
      PROVE  \/ UNCHANGED dir
             \/ \E owners \in SUBSET Call, fresh \in BOOLEAN :
                  /\ dir' = Entries(owners, fresh)
                  /\ Exists \/ (owners = {} /\ fresh = FALSE)
  <2>1. CASE WriteOwner(c)
    BY <2>1 DEF WriteOwner, OwnerCreated
  <2>2. CASE Empty(c)
    BY <2>2 DEF Empty
  <2>3. CASE Heartbeat(c) \/ Age
    BY <2>3 DEF Heartbeat, Age
  <2>4. CASE Unown(c) \/ Unlink(c)
    <3>1. dir' = Entries(dir.owners \ {c}, dir.fresh \/ c \in dir.owners)
      BY <2>4 DEF Unown, Unlink, RemoveOwner
    <3>2. (dir.fresh \/ c \in dir.owners) \in BOOLEAN /\ dir.owners \ {c} \in SUBSET Call
      OBVIOUS
    <3>3. ~Exists => dir.owners \ {c} = {} /\ (dir.fresh \/ c \in dir.owners) = FALSE
      OBVIOUS
    <3> QED
      BY <3>1, <3>2, <3>3
  <2> QED
    BY <1>5, <2>1, <2>2, <2>3, <2>4
<1>6. ASSUME NEW c \in Call, Step(c)
      PROVE  \/ UNCHANGED dir \/ RmdirIfEmpty \/ Mkdir(c)
             \/ WriteOwner(c) \/ Empty(c) \/ Unown(c) \/ Unlink(c)
  BY <1>6 DEF Step, Acquire, Recover, Release, StatMade, Cleanup, Uncreate, Inspect, Recheck,
     Remove, BeginRelease, CheckDir, CheckOwner, RecheckDir, Continue, Rmdir
<1>7. ASSUME NEW c \in Call, Fault(c) \/ Crash(c) PROVE UNCHANGED dir
  BY <1>7 DEF Fault, GiveUp, Break, Crash
<1>8. UNCHANGED lockVars => UNCHANGED dir
  BY DEF lockVars
<1>9. \/ UNCHANGED dir \/ RmdirIfEmpty \/ Age
      \/ \E c \in Call : \/ Mkdir(c) \/ WriteOwner(c) \/ Empty(c)
                         \/ Unown(c) \/ Unlink(c) \/ Heartbeat(c)
  BY <1>6, <1>7, <1>8 DEF Next
<1>10. CASE Age
  BY <1>2, <1>10 DEF Age
<1> QED
  BY <1>1, <1>2, <1>3, <1>4, <1>5, <1>9, <1>10

(* What a call remembers keeps its type.                                   *)
LEMMA SeenTyped ==
  ASSUME TypeOK, [Next]_lockVars
  PROVE  seen' \in [Call -> Ino \cup {NoIno}]
<1>1. dir.ino \in Ino \cup {NoIno} /\ seen \in [Call -> Ino \cup {NoIno}]
  BY DEF TypeOK
<1>2. UNCHANGED seen \/ \E c \in Call : seen' = [seen EXCEPT ![c] = dir.ino]
  BY DEF Next, lockVars, Step, Acquire, Recover, Release, Mkdir, StatMade, WriteOwner, Cleanup,
     Unown, Uncreate, Inspect, Recheck, Empty, Remove, BeginRelease, CheckDir, CheckOwner,
     RecheckDir, Continue, Unlink, Rmdir, Heartbeat, Fault, GiveUp, Break, Crash, Age
<1> QED
  BY <1>1, <1>2

(* A step of a call uses up one of its own and none of another's.          *)
LEMMA StepCounts ==
  ASSUME TypedTurns, NEW c \in Call, Step(c) \/ Fault(c) \/ Crash(c)
  PROVE  /\ pc' \in [Call -> Label] /\ tries' \in [Call -> 0..MaxTries]
         /\ (\A d \in Call : HasTurn(d))'
         /\ \A d \in Call : d # c => Left(d)' = Left(d)
         /\ Left(c)' < Left(c)
<1>1. Onward(c)
  BY StepIsOnward
<1>2. CASE pc[c] \in {"inspect"} \cup Recovering /\ TryAgain(c)
  BY <1>2, TurnsRunOut DEF Left
<1>3. ASSUME NEW label \in Label \ {"start"}, Go(c, label), UNCHANGED tries,
             Level(label) < Level(pc[c]),
             label \in {"inspect"} \cup Recovering =>
               pc[c] \in {"start", "inspect"} \cup Recovering
      PROVE  /\ pc' \in [Call -> Label] /\ tries' \in [Call -> 0..MaxTries]
             /\ (\A d \in Call : HasTurn(d))'
             /\ \A d \in Call : d # c => Left(d)' = Left(d)
             /\ Left(c)' < Left(c)
  <2>1. tries' \in [Call -> 0..MaxTries]
    BY <1>3 DEF TypedTurns, TypeOK
  <2> QED
    BY <1>3, <2>1, StepsOnward DEF Left
<1> QED
  BY <1>1, <1>2, <1>3 DEF Onward

(* A heartbeat and the passing of time move no call.                       *)
LEMMA OthersRest ==
  ASSUME (\E c \in Call : Heartbeat(c)) \/ Age \/ UNCHANGED lockVars
  PROVE  UNCHANGED <<pc, tries>>
BY DEF Heartbeat, Age, lockVars

(* Types, and a turn for every call that may go round again.               *)
LEMMA TurnsKept == TypedTurns /\ [Next]_lockVars => TypedTurns'
<1> SUFFICES ASSUME TypedTurns, [Next]_lockVars PROVE TypedTurns'
  OBVIOUS
<1>1. pc' \in [Call -> Label] /\ tries' \in [Call -> 0..MaxTries] /\ (\A d \in Call : HasTurn(d))'
  <2>1. CASE UNCHANGED <<pc, tries>>
    BY <2>1 DEF TypedTurns, TypeOK, HasTurn, Label
  <2> QED
    BY <2>1, StepCounts, OthersRest DEF Next
<1> QED
  BY <1>1, DirectoryTyped, SeenTyped DEF TypedTurns, TypeOK, Label

(* They hold of every behaviour.                                           *)
LEMMA TurnsHold == Spec => []TypedTurns
<1>1. Init => TypedTurns
  BY InitHolds DEF IInv, TypedTurns
<1> QED
  BY <1>1, TurnsKept, PTL DEF Spec

(* Every variable of the lock protocol keeps its type.                     *)
THEOREM TypeCorrect == Spec => []TypeOK
<1>1. TypedTurns => TypeOK
  BY DEF TypedTurns
<1> QED
  BY <1>1, TurnsHold, PTL

(* The number of steps left is one.                                        *)
LEMMA LeftBounded == TypedTurns => \A c \in Call : Left(c) \in 0..(14 * MaxTries + 13)
<1> SUFFICES ASSUME TypedTurns, NEW c \in Call PROVE Left(c) \in 0..(14 * MaxTries + 13)
  OBVIOUS
<1>1. Level(pc[c]) \in 0..13
  BY DEF Level
<1>2. tries[c] \in 0..MaxTries /\ MaxTries \in Nat
  BY LockAssumption DEF TypedTurns, TypeOK
<1> QED
  BY <1>1, <1>2 DEF Left

(* A call of withLaneRunMutationLock has a bounded number of steps to the  *)
(* end, each of its steps uses one up, and nothing that another call does  *)
(* gives it more: not even a recovery that removes its directory sends it  *)
(* round for ever.                                                         *)
StepsAreBounded == \A c \in Call : Left(c) \in 0..(14 * MaxTries + 13)

StepsRunOut ==
  [][\A c \in Call : Left(c)' <= Left(c) /\ (Step(c) => Left(c)' < Left(c))]_lockVars

(* So what EveryCallSettles needs besides is that calls go on.             *)
THEOREM CallsRunOut == Spec => []StepsAreBounded /\ StepsRunOut
<1>1. TypedTurns => StepsAreBounded
  BY LeftBounded DEF StepsAreBounded
<1>2. TypedTurns' => StepsAreBounded'
  BY <1>1, PTL
<1>3. TypedTurns /\ [Next]_lockVars =>
        [\A c \in Call : Left(c)' <= Left(c) /\ (Step(c) => Left(c)' < Left(c))]_lockVars
  <2> SUFFICES ASSUME TypedTurns, [Next]_lockVars, NEW c \in Call
               PROVE  Left(c)' <= Left(c) /\ (Step(c) => Left(c)' < Left(c))
    OBVIOUS
  <2>1. Left(c) \in Nat /\ Left(c)' \in Nat
    BY <1>1, <1>2, TurnsKept, LockAssumption DEF StepsAreBounded
  <2>2. CASE Step(c)
    BY <2>1, <2>2, StepCounts
  <2>3. CASE UNCHANGED <<pc, tries>> /\ ~Step(c)
    BY <2>1, <2>3 DEF Left
  <2>4. ASSUME NEW d \in Call, Step(d) \/ Fault(d) \/ Crash(d) PROVE Left(c)' <= Left(c)
    BY <2>1, <2>4, StepCounts
  <2> QED
    BY <2>2, <2>3, <2>4, OthersRest DEF Next
<1> QED
  BY <1>1, <1>3, TurnsHold, PTL DEF Spec, StepsRunOut
=============================================================================
