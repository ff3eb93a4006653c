------------------------- MODULE LocalLanePersistence -------------------------
(***************************************************************************)
(* The commands that keep the result of a local lane: the local lane smoke *)
(* command (prepare, gate, executor, persistLaneExecutorResult) and the    *)
(* branch lane skeleton (planBranchLaneRunSkeleton: prepare, then a queued *)
(* lane run state).  Evidence files are created exclusively; the lane run  *)
(* state is opened, truncated and written in place.  Nothing locks the     *)
(* lane.  A step may throw, a process may die.                             *)
(***************************************************************************)
EXTENDS LocalLaneWorkspace, FiniteSets

CONSTANTS Skeleton,   (* processes that plan the branch lane skeleton      *)
          Refs,       (* number of evidence references of a result         *)
          MaxFaults,  (* bound: processes that meet a failing call         *)
          MaxDeaths   (* bound: processes that die                         *)

ASSUME PersistenceAssumption ==
  /\ Skeleton \subseteq Alone
  /\ Refs \in Nat \ {0}
  /\ MaxFaults \in Nat /\ MaxDeaths \in Nat

VARIABLES evidence,   (* per reference: its metadata file                  *)
          laneState,  (* the lane run state file: who created the file and *)
                      (* whose text is in it                               *)
          wrote,      (* per process: the evidence it has written          *)
          existed,    (* per process: statePathExistedBeforeAttempt        *)
          hurt        (* history: processes that met a failing call        *)

vars == <<dir, marker, pc, my, evidence, laneState, wrote, existed, hurt>>
lane == <<dir, marker>>
kept == <<evidence, laneState>>
notes == <<wrote, existed, hurt>>

Ref == 1..Refs
Smoke == Proc \ Skeleton

(* A file that another process's file has replaced is not reached by path: *)
(* who created it stands for its inode.                                    *)
NoEvidence == [by |-> NoProc, full |-> FALSE]
NoState == [file |-> NoProc, text |-> NoProc]
Evidence == [by : Proc \cup {NoProc}, full : BOOLEAN]
LaneState == [file : Proc \cup {NoProc}, text : Proc \cup {NoProc}]

Writing == {"open", "verify", "truncate", "write"}
Keeping == {"note", "evidence", "complete"} \cup Writing
Cleaning == {"undo", "undoState", "clear", "clearState", "unmake"}
Labels == Preparing \cup {"prepared", "gate", "recheck"} \cup Keeping
            \cup Cleaning \cup Resting

-----------------------------------------------------------------------------
(* A command starts with prepareLocalLaneWorkspace. *)
Start(p) ==
  /\ pc[p] = "idle"
  /\ \A q \in Alone : pc[q] \in Resting
  /\ p \in Alone => \A q \in Proc : pc[q] \in Resting
  /\ Go(p, "look")
  /\ UNCHANGED <<lane, my, kept, notes>>

(* The prepared lane goes to the gate, or to the queued lane run state. *)
Prepared(p) ==
  /\ pc[p] = "prepared"
  /\ Go(p, IF p \in Skeleton THEN "open" ELSE "gate")
  /\ UNCHANGED <<lane, my, kept, notes>>

(* invokeLaneExecutor: an issue gives a blocked result, not an error; the  *)
(* adapter's own outcome does not matter for what follows.                 *)
Gate(p) ==
  /\ pc[p] = "gate"
  /\ IF LastProbe(p)
     THEN /\ my' = [my EXCEPT ![p].at = 1, ![p].issue = FALSE,
                              ![p].blocked = my[p].issue \/ Unsound(p)]
          /\ Go(p, "recheck")
     ELSE Probe(p) /\ UNCHANGED pc
  /\ UNCHANGED <<lane, kept, notes>>

-----------------------------------------------------------------------------
(* persistLaneExecutorResult                                               *)

(* The gate again: an issue now is thrown before anything is written. *)
Recheck(p) ==
  /\ pc[p] = "recheck"
  /\ Probe(p)
  /\ Go(p, IF ~LastProbe(p) THEN "recheck"
           ELSE IF my[p].issue \/ Unsound(p) THEN "rejected" ELSE "note")
  /\ UNCHANGED <<lane, kept, notes>>

(* Wrong: the catch block always removes the state. *)
NoteNothing(p) ==
  /\ pc[p] = "note"
  /\ Go(p, "evidence")
  /\ UNCHANGED <<lane, my, kept, notes>>

(* laneRunStatePathExists *)
NoteState(p) ==
  /\ pc[p] = "note"
  /\ existed' = [existed EXCEPT ![p] = laneState.file # NoProc]
  /\ Go(p, "evidence")
  /\ UNCHANGED <<lane, my, kept, wrote, hurt>>

(* Evidence references are written one after the other. *)
Due(p) == my[p].at

(* Wrong: flag "w", which takes over a file that exists. *)
CreateEvidenceOver(p) ==
  /\ pc[p] = "evidence"
  /\ evidence' = [evidence EXCEPT ![Due(p)] = [by |-> p, full |-> FALSE]]
  /\ Go(p, "complete")
  /\ UNCHANGED <<lane, my, laneState, notes>>

(* writeFile with flag "wx" creates the file, and only then writes it; the *)
(* checks before it need the state directory.                              *)
CreateEvidence(p) ==
  /\ pc[p] = "evidence"
  /\ IF dir["stateLane"] # NoProc /\ evidence[Due(p)].by = NoProc
     THEN /\ evidence' = [evidence EXCEPT ![Due(p)] = [by |-> p, full |-> FALSE]]
          /\ Go(p, "complete")
     ELSE Go(p, "undo") /\ UNCHANGED evidence
  /\ UNCHANGED <<lane, my, laneState, notes>>

CompleteEvidence(p) ==
  /\ pc[p] = "complete"
  /\ evidence' = [evidence EXCEPT ![Due(p)].full = TRUE]
  /\ wrote' = [wrote EXCEPT ![p] = @ \cup {Due(p)}]
  /\ my' = [my EXCEPT ![p].at = IF @ < Refs THEN @ + 1 ELSE @]
  /\ Go(p, IF my[p].at < Refs THEN "evidence" ELSE "open")
  /\ UNCHANGED <<lane, laneState, existed, hurt>>

(* An error in the try block of persistLaneExecutorResult, or in the one   *)
(* around the skeleton's writeLaneRunState.                                *)
KeepingError(p) == Go(p, IF p \in Skeleton THEN "clear" ELSE "undo")

(* Wrong: removes the evidence of every reference, whoever wrote it. *)
UndoEverything(p) ==
  /\ pc[p] = "undo"
  /\ evidence' = [r \in Ref |-> NoEvidence]
  /\ wrote' = [wrote EXCEPT ![p] = {}]
  /\ Go(p, IF existed[p] THEN "failed" ELSE "undoState")
  /\ UNCHANGED <<lane, my, laneState, existed, hurt>>

(* Wrong: forgets the evidence. *)
UndoStateOnly(p) ==
  /\ pc[p] = "undo"
  /\ Go(p, IF existed[p] THEN "failed" ELSE "undoState")
  /\ UNCHANGED <<lane, my, kept, notes>>

(* The catch block removes what this call wrote, one rm at a time, and     *)
(* then, unless it was there before, the lane run state.                   *)
Undo(p) ==
  /\ pc[p] = "undo"
  /\ IF wrote[p] = {}
     THEN /\ Go(p, IF existed[p] THEN "failed" ELSE "undoState")
          /\ UNCHANGED <<evidence, wrote>>
     ELSE \E r \in wrote[p] :
            /\ evidence' = [evidence EXCEPT ![r] = NoEvidence]
            /\ wrote' = [wrote EXCEPT ![p] = @ \ {r}]
            /\ UNCHANGED pc
  /\ UNCHANGED <<lane, my, laneState, existed, hurt>>

UndoState(p) ==
  /\ pc[p] = "undoState"
  /\ laneState' = NoState
  /\ Go(p, "failed")
  /\ UNCHANGED <<lane, my, evidence, notes>>

-----------------------------------------------------------------------------
(* writeLaneRunState                                                       *)

(* open(statePath, O_RDWR | O_CREAT) *)
OpenState(p) ==
  /\ pc[p] = "open"
  /\ laneState' = IF laneState.file = NoProc
                  THEN [file |-> p, text |-> NoProc] ELSE laneState
  /\ my' = [my EXCEPT ![p].into = laneState'.file]
  /\ Go(p, "verify")
  /\ UNCHANGED <<lane, evidence, notes>>

(* assertOpenedLaneRunStateFileSafeForAccess: the path must still name the *)
(* opened file.                                                            *)
VerifyState(p) ==
  /\ pc[p] = "verify"
  /\ IF laneState.file = my[p].into THEN Go(p, "truncate") ELSE KeepingError(p)
  /\ UNCHANGED <<lane, my, kept, notes>>

SetText(p, text) ==
  laneState' = IF laneState.file = my[p].into
               THEN [laneState EXCEPT !.text = text] ELSE laneState

TruncateState(p) ==
  /\ pc[p] = "truncate"
  /\ SetText(p, NoProc)
  /\ Go(p, "write")
  /\ UNCHANGED <<lane, my, evidence, notes>>

WriteState(p) ==
  /\ pc[p] = "write"
  /\ SetText(p, p)
  /\ Go(p, "done")
  /\ UNCHANGED <<lane, my, evidence, notes>>

-----------------------------------------------------------------------------
(* The skeleton's catch block removes the lane directories that its        *)
(* preparation made, with all that is in them.                             *)
Clear(p) ==
  /\ pc[p] = "clear"
  /\ IF "workspaceLane" \in my[p].created
     THEN Remove(p, "workspaceLane") ELSE UNCHANGED lane
  /\ Go(p, "clearState")
  /\ UNCHANGED <<my, kept, notes>>

ClearState(p) ==
  /\ pc[p] = "clearState"
  /\ IF "stateLane" \in my[p].created
     THEN /\ Remove(p, "stateLane")
          /\ evidence' = [r \in Ref |-> NoEvidence]
     ELSE UNCHANGED <<lane, evidence>>
  /\ Go(p, "failed")
  /\ UNCHANGED <<my, laneState, notes>>

-----------------------------------------------------------------------------
(* Any call that can throw does so now; a file it was writing stays as it  *)
(* is.  The gates turn errors into issues; clean-up does not fail again.   *)
Fault(p) ==
  /\ pc[p] \in Preparing \cup Keeping
  /\ Cardinality(hurt) < MaxFaults
  /\ hurt' = hurt \cup {p}
  /\ IF pc[p] \in Preparing THEN PreparationError(p)
     ELSE IF pc[p] = "note" THEN Go(p, "rejected") ELSE KeepingError(p)
  /\ UNCHANGED <<lane, my, kept, wrote, existed>>

Die(p) ==
  /\ pc[p] \notin Resting
  /\ Cardinality({q \in Proc : pc[q] = "dead"}) < MaxDeaths
  /\ Go(p, "dead")
  /\ UNCHANGED <<lane, my, kept, notes>>

Persist(p) ==
  \/ Recheck(p) \/ NoteState(p) \/ CreateEvidence(p) \/ CompleteEvidence(p)
  \/ Undo(p) \/ UndoState(p)

WriteLaneState(p) ==
  OpenState(p) \/ VerifyState(p) \/ TruncateState(p) \/ WriteState(p)

Step(p) ==
  \/ Start(p) \/ Prepared(p) \/ Gate(p)
  \/ Prepare(p) /\ UNCHANGED <<kept, notes>>
  \/ Persist(p) \/ WriteLaneState(p) \/ Clear(p) \/ ClearState(p)

Next == \E p \in Proc : Step(p) \/ Fault(p) \/ Die(p)

Init ==
  /\ WorkspaceInit
  /\ evidence = [r \in Ref |-> NoEvidence]
  /\ laneState = NoState
  /\ wrote = [p \in Proc |-> {}]
  /\ existed = [p \in Proc |-> FALSE]
  /\ hurt = {}

Spec == Init /\ [][Next]_vars

-----------------------------------------------------------------------------
(* Properties.                                                             *)

(* Files, directories and process states have their types, and no series   *)
(* of calls runs past its end.                                             *)
TypeOK ==
  /\ WorkspaceTypeOK
  /\ pc \in [Proc -> Labels]
  /\ \A p \in Proc : pc[p] \in {"note", "evidence", "complete"} => my[p].at \in Ref
  /\ evidence \in [Ref -> Evidence]
  /\ laneState \in LaneState
  /\ wrote \in [Proc -> SUBSET Ref]
  /\ existed \in [Proc -> BOOLEAN]
  /\ hurt \subseteq Proc

AllEvidenceBy(p) == \A r \in Ref : evidence[r] = [by |-> p, full |-> TRUE]

(* A smoke command that reported success owns every piece of the lane's    *)
(* evidence for ever: no overlapping command, clean-up or retry replaces   *)
(* or removes it, so two commands never both succeed.                      *)
SuccessKeepsEvidence ==
  \A p \in Smoke : pc[p] = "done" => AllEvidenceBy(p)

(* A lane run state that records an executor result stands beside the      *)
(* complete evidence of the same command, at every moment and after every  *)
(* failure or death.                                                       *)
StateHasEvidence ==
  laneState.text \in Smoke => AllEvidenceBy(laneState.text)

(* Nothing but a failing call of its own or evidence left by an earlier    *)
(* command makes a smoke command fail that no other command overlaps, and  *)
(* only a success, a death or a half-written file leaves evidence.         *)
UndisturbedSucceeds ==
  \A p \in Alone \ hurt :
    /\ pc[p] \notin {"unprepared", "rejected"}
    /\ ~my[p].blocked
    /\ pc[p] = "failed" =>
         \E r \in Ref : /\ evidence[r].by \notin {NoProc, p}
                        /\ evidence[r].full => pc[evidence[r].by] \in {"done", "dead"}

(* A retry that fails leaves the recorded result of an earlier smoke       *)
(* command as it is (no command overlaps the retry).                       *)
RetryKeepsState ==
  [][\A p \in Alone \cap Smoke :
       pc[p] \notin Resting /\ laneState.text \in Smoke => UNCHANGED laneState]_vars

(* A command whose preparation failed once the workspace was ready has     *)
(* left no workspace of its making, and a skeleton that could not be       *)
(* recorded no state directory either.                                     *)
FailureRemovesDirectories ==
  \A p \in Proc :
    /\ pc[p] = "unprepared" /\ my[p].at >= 3 => dir["workspaceLane"] # p
    /\ pc[p] = "failed" /\ p \in Skeleton =>
         dir["workspaceLane"] # p /\ dir["stateLane"] # p

(* The documents' claim that a rejected path leaves no half-created        *)
(* artifact: a command whose persistence failed has left no evidence file. *)
NothingHalfCreated ==
  \A p \in Smoke : pc[p] = "failed" => \A r \in Ref : evidence[r].by # p

(* A test's claim that a command which fails on existing evidence          *)
(* preserves the lane run state that exists: its clean-up never removes    *)
(* the recorded result of another command.                                 *)
FailureKeepsState ==
  [][\A p \in Smoke :
       pc[p] \in Cleaning /\ laneState.text \in Smoke
         => pc'[p] = pc[p] \/ UNCHANGED laneState]_vars
=============================================================================
