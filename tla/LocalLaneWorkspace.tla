-------------------------- MODULE LocalLaneWorkspace --------------------------
(***************************************************************************)
(* The directories of one local lane: prepareLocalLaneWorkspace, which     *)
(* makes the workspace and the state directory and puts a marker in each,  *)
(* and collectPreparedContextIssues, the gate that reads them back before  *)
(* the executor runs and again before its result is kept.  Every step is   *)
(* one file-system call, so processes that prepare the same lane           *)
(* interleave between any two of them.                                     *)
(*                                                                         *)
(* Paths are safe, roots exist and are separate: anything else is refused  *)
(* before the first step.  A directory is known by the process that made   *)
(* it, as each process makes a directory at most once.                     *)
(***************************************************************************)
EXTENDS Naturals

CONSTANTS Proc,    (* processes, each running one command for this lane    *)
          NoProc,  (* "nobody": the file or directory does not exist       *)
          Alone    (* processes that no other overlaps: retries, and other *)
                   (* commands of a careful operator                       *)

ASSUME WorkspaceAssumption == NoProc \notin Proc /\ Alone \subseteq Proc

VARIABLES dir,     (* per path: the process that made the directory        *)
          marker,  (* per lane directory: its marker file                  *)
          pc,      (* per process: the next file-system call               *)
          my       (* per process: its local variables                     *)

(* The paths in the order they are prepared. *)
Path == <<"workspaceRuns", "workspaceLane", "stateRuns", "stateLane">>
PathName == {"workspaceRuns", "workspaceLane", "stateRuns", "stateLane"}
Lane == <<"workspaceLane", "stateLane">>
LaneName == {"workspaceLane", "stateLane"}

(* at: position in a series of calls; created: the directories the process *)
(* made; into: what it opened; issue, blocked: the gate's answers.         *)
Local == [at : Nat, created : SUBSET PathName, into : Proc \cup {NoProc},
          issue : BOOLEAN, blocked : BOOLEAN]
Fresh == [at |-> 1, created |-> {}, into |-> NoProc,
          issue |-> FALSE, blocked |-> FALSE]

Preparing == {"look", "make", "confirm", "mark", "fill"}
Settled == {"unprepared", "rejected", "failed", "done", "dead"}
Resting == Settled \cup {"idle"}

Go(p, label) == pc' = [pc EXCEPT ![p] = label]

-----------------------------------------------------------------------------
(* prepareLocalLaneWorkspace                                               *)

(* The catch block: once prepareLocalLanePath has returned the workspace,  *)
(* it is removed again if this call made it.  The state directory and the  *)
(* lane-runs directories are not.                                          *)
PreparationError(p) ==
  Go(p, IF my[p].at >= 3 /\ "workspaceLane" \in my[p].created
        THEN "unmake" ELSE "unprepared")

(* lstat of the next path: make it, or go on with what is there. *)
Look(p) ==
  /\ pc[p] = "look"
  /\ Go(p, IF dir[Path[my[p].at]] = NoProc THEN "make" ELSE "confirm")
  /\ UNCHANGED <<dir, marker, my>>

(* mkdir, not recursive: a directory made since the look is an error. *)
Make(p) ==
  LET path == Path[my[p].at] IN
  /\ pc[p] = "make"
  /\ IF dir[path] = NoProc
     THEN /\ dir' = [dir EXCEPT ![path] = p]
          /\ my' = [my EXCEPT ![p].created = @ \cup {path}]
          /\ Go(p, "confirm")
     ELSE PreparationError(p) /\ UNCHANGED <<dir, my>>
  /\ UNCHANGED marker

(* Wrong: one path too many. *)
ConfirmOneMore(p) ==
  /\ pc[p] = "confirm"
  /\ my' = [my EXCEPT ![p].at = @ + 1]
  /\ Go(p, IF my[p].at <= 4 THEN "look" ELSE "mark")
  /\ UNCHANGED <<dir, marker>>

(* assertLocalLanePathInsideRoot: the path must still be there. *)
Confirm(p) ==
  /\ pc[p] = "confirm"
  /\ IF dir[Path[my[p].at]] = NoProc
     THEN PreparationError(p) /\ UNCHANGED my
     ELSE /\ my' = [my EXCEPT ![p].at = @ + 1]
          /\ Go(p, IF my[p].at < 4 THEN "look" ELSE "mark")
  /\ UNCHANGED <<dir, marker>>

(* Position 5 is the workspace's marker, position 6 the state directory's. *)
Marked(p) == Lane[my[p].at - 4]

(* open(markerPath, O_CREAT | O_TRUNC) empties the marker ... *)
OpenMarker(p) ==
  /\ pc[p] = "mark"
  /\ IF dir[Marked(p)] = NoProc
     THEN PreparationError(p) /\ UNCHANGED <<marker, my>>
     ELSE /\ marker' = [marker EXCEPT ![Marked(p)] = "empty"]
          /\ my' = [my EXCEPT ![p].into = dir[Marked(p)]]
          /\ Go(p, "fill")
  /\ UNCHANGED dir

(* ... and writeFile fills it, even if its directory is gone by now. *)
FillMarker(p) ==
  /\ pc[p] = "fill"
  /\ marker' = IF dir[Marked(p)] = my[p].into
               THEN [marker EXCEPT ![Marked(p)] = "full"]
               ELSE marker
  /\ my' = [my EXCEPT ![p].at = IF @ = 5 THEN 6 ELSE 1]
  /\ Go(p, IF my[p].at = 5 THEN "mark" ELSE "prepared")
  /\ UNCHANGED dir

(* Wrong: the directory stays. *)
RemoveNothing(p, k) == UNCHANGED <<dir, marker>>

(* rm(path, { recursive: true, force: true }) of a lane directory. *)
Remove(p, k) ==
  /\ dir' = [dir EXCEPT ![k] = NoProc]
  /\ marker' = [marker EXCEPT ![k] = "none"]

Unmake(p) ==
  /\ pc[p] = "unmake"
  /\ Remove(p, "workspaceLane")
  /\ Go(p, "unprepared")
  /\ UNCHANGED my

Prepare(p) ==
  Look(p) \/ Make(p) \/ Confirm(p) \/ OpenMarker(p) \/ FillMarker(p) \/ Unmake(p)

-----------------------------------------------------------------------------
(* collectPreparedContextIssues                                            *)

(* The lstat of both directories, then both markers.  An issue does not    *)
(* end the series; a marker whose directory was missing is not looked at.  *)
Unsound(p) ==
  LET i == my[p].at IN
  IF i <= 2 THEN dir[Lane[i]] = NoProc ELSE marker[Lane[i - 2]] # "full"

Probe(p) ==
  my' = [my EXCEPT ![p].at = IF @ = 4 THEN 1 ELSE @ + 1,
                   ![p].issue = @ \/ Unsound(p)]

LastProbe(p) == my[p].at = 4

-----------------------------------------------------------------------------
WorkspaceInit ==
  /\ dir = [f \in PathName |-> NoProc]
  /\ marker = [k \in LaneName |-> "none"]
  /\ pc = [p \in Proc |-> "idle"]
  /\ my = [p \in Proc |-> Fresh]

(* Where in its series of calls a process may be. *)
InSeries(label, i) ==
  /\ label \in {"idle", "look", "make", "confirm", "prepared", "gate", "recheck"}
       => i \in 1..4
  /\ label \in {"mark", "fill"} => i \in 5..6

WorkspaceTypeOK ==
  /\ dir \in [PathName -> Proc \cup {NoProc}]
  /\ marker \in [LaneName -> {"none", "empty", "full"}]
  /\ my \in [Proc -> Local]
  /\ \A p \in Proc : InSeries(pc[p], my[p].at)
=============================================================================
