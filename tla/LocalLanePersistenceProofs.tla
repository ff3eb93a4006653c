---------------------- MODULE LocalLanePersistenceProofs ----------------------
(***************************************************************************)
(* Theorems of LocalLanePersistence, for any processes, any number of      *)
(* evidence references, and any number of failing calls and deaths: the    *)
(* types; that a result that was kept stays beside its evidence; what a    *)
(* failure leaves behind; and that a command which no other overlaps       *)
(* succeeds, and as a retry keeps the recorded result, unless a call of    *)
(* its own or the evidence of an earlier command stands in its way.        *)
(***************************************************************************)
EXTENDS LocalLanePersistence, TLAPS

-----------------------------------------------------------------------------
(* Types.                                                                  *)

LEMMA PathNames ==
  /\ \A i \in 1..4 : Path[i] \in PathName
  /\ \A i \in 1..2 : Lane[i] \in LaneName
  /\ LaneName \subseteq PathName
BY DEF Path, PathName, Lane, LaneName

(* Every position that a series allows at a label. *)
Fits(label, i) ==
  /\ InSeries(label, i)
  /\ label \in {"note", "evidence", "complete"} => i \in Ref

ProcessesTyped ==
  /\ my \in [Proc -> Local]
  /\ pc \in [Proc -> Labels]
  /\ \A q \in Proc : Fits(pc[q], my[q].at)

FilesTyped ==
  /\ dir \in [PathName -> Proc \cup {NoProc}]
  /\ marker \in [LaneName -> {"none", "empty", "full"}]
  /\ evidence \in [Ref -> Evidence]
  /\ laneState \in LaneState
  /\ wrote \in [Proc -> SUBSET Ref]
  /\ existed \in [Proc -> BOOLEAN]
  /\ hurt \subseteq Proc

(* The types of processes and of files, taken apart, now                   *)
LEMMA TypeParts == TypeOK <=> ProcessesTyped /\ FilesTyped
BY DEF TypeOK, WorkspaceTypeOK, ProcessesTyped, FilesTyped, Fits

(* and after a step.                                                       *)
LEMMA TypePartsNext == TypeOK' <=> ProcessesTyped' /\ FilesTyped'
BY DEF TypeOK, WorkspaceTypeOK, ProcessesTyped, FilesTyped, Fits

(* A step moves one process to a label and gives it new locals. *)
LEMMA MoveTyped ==
  ASSUME ProcessesTyped, NEW p \in Proc, NEW label \in Labels, NEW m \in Local,
         Fits(label, m.at),
         pc' = [pc EXCEPT ![p] = label], my' = [my EXCEPT ![p] = m]
  PROVE  ProcessesTyped'
BY DEF ProcessesTyped, Fits, InSeries

LEMMA GoTyped ==
  ASSUME ProcessesTyped, NEW p \in Proc, NEW label \in Labels,
         Fits(label, my[p].at), Go(p, label), my' = my
  PROVE  ProcessesTyped'
<1>1. my[p] \in Local /\ my' = [my EXCEPT ![p] = my[p]]
      BY DEF ProcessesTyped
<1> QED BY <1>1, MoveTyped DEF Go

(* Labels at which no series is under way. *)
LEMMA LooseLabels ==
  ASSUME NEW i \in Nat,
         NEW label \in Writing \cup Cleaning \cup Settled
  PROVE  label \in Labels /\ Fits(label, i)
BY DEF Fits, InSeries, Writing, Cleaning, Settled, Labels, Keeping, Resting

LEMMA PreparationErrorTyped ==
  ASSUME ProcessesTyped, NEW p \in Proc, PreparationError(p), my' = my
  PROVE  ProcessesTyped'
<1>1. my[p].at \in Nat
      BY DEF ProcessesTyped, Local
<1>2. PICK label \in {"unmake", "unprepared"} : Go(p, label)
      BY DEF PreparationError
<1> QED BY <1>1, <1>2, LooseLabels, GoTyped DEF Cleaning, Settled

LEMMA KeepingErrorTyped ==
  ASSUME ProcessesTyped, NEW p \in Proc, KeepingError(p), my' = my
  PROVE  ProcessesTyped'
<1>1. my[p].at \in Nat
      BY DEF ProcessesTyped, Local
<1>2. PICK label \in {"clear", "undo"} : Go(p, label)
      BY DEF KeepingError
<1> QED BY <1>1, <1>2, LooseLabels, GoTyped DEF Cleaning

(* Types hold at first,                                                    *)
LEMMA InitTyped == Init => TypeOK
<1> SUFFICES ASSUME Init PROVE TypeOK
    OBVIOUS
<1> USE DEF Init, WorkspaceInit, Fresh
<1>1. ProcessesTyped
      BY DEF ProcessesTyped, Local, Labels, Resting, Fits, InSeries
<1>2. FilesTyped
      BY DEF FilesTyped, Evidence, LaneState, NoEvidence, NoState
<1> QED BY <1>1, <1>2, TypeParts

LEMMA PrepareTyped ==
  ASSUME TypeOK, NEW p \in Proc, Prepare(p), UNCHANGED <<kept, notes>>
  PROVE  TypeOK'
<1>1. ProcessesTyped /\ FilesTyped
      BY TypeParts
<1>2. my[p] \in Local /\ Fits(pc[p], my[p].at)
      BY <1>1 DEF ProcessesTyped
<1> SUFFICES ProcessesTyped' /\ FilesTyped'
    BY TypePartsNext
<1> USE DEF kept, notes
<1>3. CASE Look(p)
  <2>1. my[p].at \in 1..4
        BY <1>2, <1>3 DEF Look, Fits, InSeries
  <2>2. PICK label \in {"make", "confirm"} : Go(p, label)
        BY <1>3 DEF Look
  <2>3. label \in Labels /\ Fits(label, my[p].at)
        BY <2>1 DEF Labels, Preparing, Fits, InSeries
  <2> QED BY <1>1, <1>3, <2>2, <2>3, GoTyped DEF Look, FilesTyped
<1>4. CASE Make(p)
  <2>1. my[p].at \in 1..4
        BY <1>2, <1>4 DEF Make, Fits, InSeries
  <2> DEFINE path == Path[my[p].at]
  <2>2. path \in PathName
        BY <2>1, PathNames
  <2>3. CASE dir[path] = NoProc
    <3> DEFINE m == [my[p] EXCEPT !.created = @ \cup {path}]
    <3>1. m \in Local /\ m.at = my[p].at
          BY <1>2, <2>2 DEF Local
    <3>2. dir' = [dir EXCEPT ![path] = p] /\ pc' = [pc EXCEPT ![p] = "confirm"]
          /\ my' = [my EXCEPT ![p].created = @ \cup {path}]
          BY <1>4, <2>3 DEF Make, Go
    <3>3. my' = [my EXCEPT ![p] = m]
          BY <3>2, <1>1 DEF ProcessesTyped
    <3>4. "confirm" \in Labels /\ Fits("confirm", m.at)
          BY <2>1, <3>1 DEF Labels, Preparing, Fits, InSeries
    <3>5. ProcessesTyped'
          BY <1>1, <3>1, <3>2, <3>3, <3>4, MoveTyped
    <3> QED BY <1>1, <1>4, <2>2, <3>2, <3>5 DEF Make, FilesTyped
  <2>4. CASE dir[path] # NoProc
        BY <1>1, <1>4, <2>4, PreparationErrorTyped DEF Make, FilesTyped
  <2> QED BY <2>3, <2>4
<1>5. CASE Confirm(p)
  <2>1. my[p].at \in 1..4
        BY <1>2, <1>5 DEF Confirm, Fits, InSeries
  <2>2. FilesTyped'
        BY <1>1, <1>5 DEF Confirm, FilesTyped
  <2>3. CASE dir[Path[my[p].at]] = NoProc
        BY <1>1, <1>5, <2>2, <2>3, PreparationErrorTyped DEF Confirm
  <2>4. CASE dir[Path[my[p].at]] # NoProc
    <3> DEFINE m == [my[p] EXCEPT !.at = @ + 1]
               label == IF my[p].at < 4 THEN "look" ELSE "mark"
    <3>1. m \in Local /\ m.at = my[p].at + 1
          BY <1>2 DEF Local
    <3>2. label \in Labels /\ Fits(label, m.at)
          BY <2>1, <3>1 DEF Labels, Preparing, Fits, InSeries
    <3>3. pc' = [pc EXCEPT ![p] = label] /\ my' = [my EXCEPT ![p].at = @ + 1]
          BY <1>5, <2>4 DEF Confirm, Go
    <3>4. my' = [my EXCEPT ![p] = m]
          BY <3>3, <1>1 DEF ProcessesTyped
    <3> HIDE DEF m, label
    <3> QED BY <1>1, <2>2, <3>1, <3>2, <3>3, <3>4, MoveTyped
  <2> QED BY <2>3, <2>4
<1>6. CASE OpenMarker(p)
  <2>1. my[p].at \in 5..6
        BY <1>2, <1>6 DEF OpenMarker, Fits, InSeries
  <2>2. Marked(p) \in LaneName
        BY <2>1, PathNames DEF Marked
  <2>3. CASE dir[Marked(p)] = NoProc
        BY <1>1, <1>6, <2>3, PreparationErrorTyped DEF OpenMarker, FilesTyped
  <2>4. CASE dir[Marked(p)] # NoProc
    <3> DEFINE m == [my[p] EXCEPT !.into = dir[Marked(p)]]
    <3>1. m \in Local /\ m.at = my[p].at
          BY <1>1, <1>2, <2>2, PathNames DEF Local, FilesTyped
    <3>2. "fill" \in Labels /\ Fits("fill", m.at)
          BY <2>1, <3>1 DEF Labels, Preparing, Fits, InSeries
    <3>3. pc' = [pc EXCEPT ![p] = "fill"] /\ my' = [my EXCEPT ![p].into = dir[Marked(p)]]
          BY <1>6, <2>4 DEF OpenMarker, Go
    <3>4. my' = [my EXCEPT ![p] = m]
          BY <3>3, <1>1 DEF ProcessesTyped
    <3>5. FilesTyped'
          BY <1>1, <1>6, <2>2, <2>4 DEF OpenMarker, FilesTyped
    <3> HIDE DEF m
    <3> QED BY <1>1, <3>1, <3>2, <3>3, <3>4, <3>5, MoveTyped
  <2> QED BY <2>3, <2>4
<1>7. CASE FillMarker(p)
  <2>1. my[p].at \in 5..6
        BY <1>2, <1>7 DEF FillMarker, Fits, InSeries
  <2>2. Marked(p) \in LaneName
        BY <2>1, PathNames DEF Marked
  <2> DEFINE m == [my[p] EXCEPT !.at = IF @ = 5 THEN 6 ELSE 1]
             label == IF my[p].at = 5 THEN "mark" ELSE "prepared"
  <2>3. m \in Local /\ m.at = IF my[p].at = 5 THEN 6 ELSE 1
        BY <1>2 DEF Local
  <2>4. label \in Labels /\ Fits(label, m.at)
        BY <2>1, <2>3 DEF Labels, Preparing, Fits, InSeries
  <2>5. pc' = [pc EXCEPT ![p] = label] /\ my' = [my EXCEPT ![p].at = IF @ = 5 THEN 6 ELSE 1]
        BY <1>7 DEF FillMarker, Go
  <2>6. my' = [my EXCEPT ![p] = m]
        BY <2>5, <1>1 DEF ProcessesTyped
  <2>7. FilesTyped'
        BY <1>1, <1>7, <2>2 DEF FillMarker, FilesTyped
  <2> HIDE DEF m, label
  <2> QED BY <1>1, <2>3, <2>4, <2>5, <2>6, <2>7, MoveTyped
<1>8. CASE Unmake(p)
  <2>1. my[p].at \in Nat /\ "unprepared" \in Settled
        BY <1>2 DEF Local, Settled
  <2>2. ProcessesTyped'
        BY <1>1, <1>8, <2>1, LooseLabels, GoTyped DEF Unmake
  <2> QED BY <1>1, <1>8, <2>2 DEF Unmake, Remove, FilesTyped, LaneName
<1> QED BY <1>3, <1>4, <1>5, <1>6, <1>7, <1>8 DEF Prepare

(* One probe keeps the locals typed and its position in the series. *)
LEMMA ProbedTyped ==
  ASSUME NEW m \in Local, NEW issue \in BOOLEAN, m.at \in 1..4
  PROVE  LET n == [m EXCEPT !.at = IF @ = 4 THEN 1 ELSE @ + 1, !.issue = issue]
         IN n \in Local /\ n.at \in 1..4 /\ (m.at = 4 => n.at = 1)
<1> DEFINE i == IF m.at = 4 THEN 1 ELSE m.at + 1
           n == [m EXCEPT !.at = i, !.issue = issue]
<1>1. i \in Nat /\ i \in 1..4 /\ (m.at = 4 => i = 1)
      OBVIOUS
<1> HIDE DEF i
<1>2. n \in Local /\ n.at = i
      BY <1>1 DEF Local
<1> QED BY <1>1, <1>2 DEF i

(* The actions that only move a process, or also write its notes.          *)
LEMMA CommandTyped ==
  ASSUME TypeOK, NEW p \in Proc, Start(p) \/ Prepared(p) \/ Gate(p) \/ Recheck(p)
  PROVE  TypeOK'
<1>1. ProcessesTyped /\ FilesTyped
      BY TypeParts
<1>2. my[p] \in Local /\ Fits(pc[p], my[p].at) /\ my[p].at \in Nat
      BY <1>1 DEF ProcessesTyped, Local
<1>3. FilesTyped'
      BY <1>1 DEF FilesTyped, Start, Prepared, Gate, Recheck, lane, kept, notes
<1> SUFFICES ProcessesTyped'
    BY <1>3, TypePartsNext
<1>4. CASE Start(p)
  <2>1. "look" \in Labels /\ Fits("look", my[p].at)
        BY <1>2, <1>4 DEF Start, Labels, Preparing, Fits, InSeries
  <2> QED BY <1>1, <1>4, <2>1, GoTyped DEF Start
<1>5. CASE Prepared(p)
  <2>1. my[p].at \in 1..4
        BY <1>2, <1>5 DEF Prepared, Fits, InSeries
  <2>2. PICK label \in {"open", "gate"} : Go(p, label)
        BY <1>5 DEF Prepared
  <2>3. label \in Labels /\ Fits(label, my[p].at)
        BY <2>1 DEF Labels, Keeping, Writing, Fits, InSeries
  <2> QED BY <1>1, <1>5, <2>2, <2>3, GoTyped DEF Prepared
<1>6. CASE Gate(p)
  <2>1. my[p].at \in 1..4
        BY <1>2, <1>6 DEF Gate, Fits, InSeries
  <2>2. CASE LastProbe(p)
    <3> DEFINE blocked == my[p].issue \/ Unsound(p)
               m == [my[p] EXCEPT !.at = 1, !.issue = FALSE, !.blocked = blocked]
    <3>1. m \in Local /\ m.at = 1
          BY <1>2 DEF Local
    <3>2. "recheck" \in Labels /\ Fits("recheck", 1)
          BY DEF Labels, Fits, InSeries
    <3>3. pc' = [pc EXCEPT ![p] = "recheck"]
          BY <1>6, <2>2 DEF Gate, Go
    <3>4. my' = [my EXCEPT ![p].at = 1, ![p].issue = FALSE, ![p].blocked = blocked]
          BY <1>6, <2>2 DEF Gate
    <3>5. my' = [my EXCEPT ![p] = m]
          BY <3>4, <1>1 DEF ProcessesTyped
    <3> HIDE DEF m
    <3> QED BY <1>1, <3>1, <3>2, <3>3, <3>5, MoveTyped
  <2>3. CASE ~LastProbe(p)
    <3> DEFINE m == [my[p] EXCEPT !.at = IF @ = 4 THEN 1 ELSE @ + 1,
                                  !.issue = @ \/ Unsound(p)]
    <3>1. m \in Local /\ m.at \in 1..4
      <4>1. (my[p].issue \/ Unsound(p)) \in BOOLEAN
            OBVIOUS
      <4> QED BY <1>2, <2>1, <4>1, ProbedTyped
    <3>2. pc[p] \in Labels /\ Fits(pc[p], m.at)
          BY <1>1, <1>6, <3>1 DEF Gate, ProcessesTyped, Fits, InSeries
    <3>3. pc' = [pc EXCEPT ![p] = pc[p]]
          BY <1>1, <1>6, <2>3 DEF Gate, ProcessesTyped
    <3>4. my' = [my EXCEPT ![p] = m]
          BY <1>1, <1>6, <2>3 DEF Gate, Probe, ProcessesTyped
    <3> HIDE DEF m
    <3> QED BY <1>1, <3>1, <3>2, <3>3, <3>4, MoveTyped
  <2> QED BY <2>2, <2>3
<1>7. CASE Recheck(p)
  <2>1. my[p].at \in 1..4
        BY <1>2, <1>7 DEF Recheck, Fits, InSeries
  <2> DEFINE m == [my[p] EXCEPT !.at = IF @ = 4 THEN 1 ELSE @ + 1,
                                !.issue = @ \/ Unsound(p)]
             label == IF ~LastProbe(p) THEN "recheck"
                      ELSE IF my[p].issue \/ Unsound(p) THEN "rejected" ELSE "note"
  <2>2. m \in Local /\ m.at \in 1..4 /\ (LastProbe(p) => m.at = 1)
    <3>1. (my[p].issue \/ Unsound(p)) \in BOOLEAN
          OBVIOUS
    <3> QED BY <1>2, <2>1, <3>1, ProbedTyped DEF LastProbe
  <2>3. 1 \in Ref
        BY PersistenceAssumption DEF Ref
  <2>4. label \in Labels /\ Fits(label, m.at)
        BY <2>2, <2>3 DEF Labels, Keeping, Resting, Settled, Fits, InSeries
  <2>5. pc' = [pc EXCEPT ![p] = label] /\ my' = [my EXCEPT ![p] = m]
        BY <1>1, <1>7 DEF Recheck, Probe, Go, ProcessesTyped
  <2> HIDE DEF m, label
  <2> QED BY <1>1, <2>2, <2>4, <2>5, MoveTyped
<1> QED BY <1>4, <1>5, <1>6, <1>7

LEMMA PersistTyped ==
  ASSUME TypeOK, NEW p \in Proc,
         NoteState(p) \/ CreateEvidence(p) \/ CompleteEvidence(p)
           \/ Undo(p) \/ UndoState(p)
  PROVE  TypeOK'
<1>1. ProcessesTyped /\ FilesTyped
      BY TypeParts
<1>2. my[p] \in Local /\ Fits(pc[p], my[p].at) /\ my[p].at \in Nat
      BY <1>1 DEF ProcessesTyped, Local
<1> SUFFICES ProcessesTyped' /\ FilesTyped'
    BY TypePartsNext
<1> USE DEF lane, kept, notes
<1>3. CASE NoteState(p)
  <2>1. "evidence" \in Labels /\ Fits("evidence", my[p].at)
        BY <1>2, <1>3 DEF NoteState, Labels, Keeping, Fits, InSeries
  <2> QED BY <1>1, <1>3, <2>1, GoTyped DEF NoteState, FilesTyped
<1>4. CASE CreateEvidence(p)
  <2>1. my[p].at \in Ref
        BY <1>2, <1>4 DEF CreateEvidence, Fits
  <2>2. PICK label \in {"complete", "undo"} : Go(p, label)
        BY <1>4 DEF CreateEvidence
  <2>3. label \in Labels /\ Fits(label, my[p].at)
        BY <2>1 DEF Labels, Keeping, Cleaning, Fits, InSeries
  <2>4. ProcessesTyped'
        BY <1>1, <1>4, <2>2, <2>3, GoTyped DEF CreateEvidence
  <2>5. [by |-> p, full |-> FALSE] \in Evidence
        BY DEF Evidence
  <2> QED BY <1>1, <1>4, <2>1, <2>4, <2>5 DEF CreateEvidence, FilesTyped, Due
<1>5. CASE CompleteEvidence(p)
  <2>1. my[p].at \in Ref
        BY <1>2, <1>5 DEF CompleteEvidence, Fits
  <2> DEFINE m == [my[p] EXCEPT !.at = IF @ < Refs THEN @ + 1 ELSE @]
             label == IF my[p].at < Refs THEN "evidence" ELSE "open"
  <2>2. m \in Local /\ m.at = IF my[p].at < Refs THEN my[p].at + 1 ELSE my[p].at
        BY <1>2 DEF Local
  <2>3. label \in Labels /\ Fits(label, m.at)
        BY <2>1, <2>2, PersistenceAssumption
        DEF Ref, Labels, Keeping, Writing, Fits, InSeries
  <2>4. pc' = [pc EXCEPT ![p] = label] /\ my' = [my EXCEPT ![p] = m]
        BY <1>1, <1>5 DEF CompleteEvidence, Go, ProcessesTyped
  <2>5. [evidence[Due(p)] EXCEPT !.full = TRUE] \in Evidence
        BY <1>1, <2>1 DEF FilesTyped, Evidence, Due
  <2>6. FilesTyped'
        BY <1>1, <1>5, <2>1, <2>5 DEF CompleteEvidence, FilesTyped, Due
  <2> HIDE DEF m, label
  <2> QED BY <1>1, <2>2, <2>3, <2>4, <2>6, MoveTyped
<1>6. CASE Undo(p)
  <2>1. NoEvidence \in Evidence
        BY DEF NoEvidence, Evidence
  <2>2. CASE wrote[p] = {}
    <3>1. PICK label \in {"failed", "undoState"} : Go(p, label)
          BY <1>6, <2>2 DEF Undo
    <3>2. label \in Labels /\ Fits(label, my[p].at)
          BY <1>2, LooseLabels DEF Settled, Cleaning
    <3> QED BY <1>1, <1>6, <2>2, <3>1, <3>2, GoTyped DEF Undo, FilesTyped
  <2>3. CASE wrote[p] # {}
    <3>1. FilesTyped'
          BY <1>1, <1>6, <2>1, <2>3 DEF Undo, FilesTyped
    <3>2. pc' = pc /\ my' = my
          BY <1>6, <2>3 DEF Undo
    <3> QED BY <1>1, <3>1, <3>2 DEF ProcessesTyped, Fits, InSeries
  <2> QED BY <2>2, <2>3
<1>7. CASE UndoState(p)
  <2>1. "failed" \in Settled /\ NoState \in LaneState
        BY DEF Settled, NoState, LaneState
  <2>2. ProcessesTyped'
        BY <1>1, <1>2, <1>7, <2>1, LooseLabels, GoTyped DEF UndoState
  <2> QED BY <1>1, <1>7, <2>1, <2>2 DEF UndoState, FilesTyped
<1> QED BY <1>3, <1>4, <1>5, <1>6, <1>7

LEMMA SetTextTyped ==
  ASSUME laneState \in LaneState, NEW p \in Proc,
         NEW text \in Proc \cup {NoProc}, SetText(p, text)
  PROVE  laneState' \in LaneState
BY DEF SetText, LaneState

LEMMA WriteLaneStateTyped ==
  ASSUME TypeOK, NEW p \in Proc, WriteLaneState(p)
  PROVE  TypeOK'
<1>1. ProcessesTyped /\ FilesTyped
      BY TypeParts
<1>2. my[p] \in Local /\ Fits(pc[p], my[p].at) /\ my[p].at \in Nat
      BY <1>1 DEF ProcessesTyped, Local
<1>3. laneState \in LaneState
      BY <1>1 DEF FilesTyped
<1>4. {"verify", "truncate", "write", "done"} \subseteq Writing \cup Settled
      BY DEF Writing, Settled
<1> SUFFICES ProcessesTyped' /\ FilesTyped'
    BY TypePartsNext
<1> USE DEF lane, kept, notes
<1>5. CASE OpenState(p)
  <2>1. laneState' \in LaneState
        BY <1>3, <1>5 DEF OpenState, LaneState
  <2> DEFINE m == [my[p] EXCEPT !.into = laneState'.file]
  <2>2. m \in Local /\ m.at = my[p].at
        BY <1>2, <2>1 DEF Local, LaneState
  <2>3. pc' = [pc EXCEPT ![p] = "verify"] /\ my' = [my EXCEPT ![p] = m]
        BY <1>1, <1>5 DEF OpenState, Go, ProcessesTyped
  <2>4. FilesTyped'
        BY <1>1, <1>5, <2>1 DEF OpenState, FilesTyped
  <2>5. "verify" \in Labels /\ Fits("verify", m.at)
        BY <1>2, <2>2, LooseLabels DEF Writing
  <2> HIDE DEF m
  <2> QED BY <1>1, <2>2, <2>3, <2>4, <2>5, MoveTyped
<1>6. CASE VerifyState(p)
  <2>1. FilesTyped'
        BY <1>1, <1>6 DEF VerifyState, FilesTyped
  <2>2. CASE laneState.file = my[p].into
        BY <1>1, <1>2, <1>4, <1>6, <2>1, <2>2, LooseLabels, GoTyped DEF VerifyState
  <2>3. CASE laneState.file # my[p].into
        BY <1>1, <1>6, <2>1, <2>3, KeepingErrorTyped DEF VerifyState
  <2> QED BY <2>2, <2>3
<1>7. CASE TruncateState(p)
  <2>1. laneState' \in LaneState
        BY <1>3, <1>7, SetTextTyped DEF TruncateState
  <2>2. ProcessesTyped'
        BY <1>1, <1>2, <1>4, <1>7, LooseLabels, GoTyped DEF TruncateState
  <2> QED BY <1>1, <1>7, <2>1, <2>2 DEF TruncateState, FilesTyped
<1>8. CASE WriteState(p)
  <2>1. laneState' \in LaneState
        BY <1>3, <1>8, SetTextTyped DEF WriteState
  <2>2. ProcessesTyped'
        BY <1>1, <1>2, <1>4, <1>8, LooseLabels, GoTyped DEF WriteState
  <2> QED BY <1>1, <1>8, <2>1, <2>2 DEF WriteState, FilesTyped
<1> QED BY <1>5, <1>6, <1>7, <1>8 DEF WriteLaneState

LEMMA ClearTyped ==
  ASSUME TypeOK, NEW p \in Proc, Clear(p) \/ ClearState(p)
  PROVE  TypeOK'
<1>1. ProcessesTyped /\ FilesTyped
      BY TypeParts
<1>2. my[p].at \in Nat
      BY <1>1 DEF ProcessesTyped, Local
<1>3. ProcessesTyped'
  <2>1. PICK label \in {"clearState", "failed"} : Go(p, label) /\ my' = my
        BY DEF Clear, ClearState
  <2> QED BY <1>1, <1>2, <2>1, LooseLabels, GoTyped DEF Cleaning, Settled
<1>4. NoEvidence \in Evidence
      BY DEF NoEvidence, Evidence
<1>5. FilesTyped'
      BY <1>1, <1>4 DEF FilesTyped, Clear, ClearState, Remove, lane, kept, notes,
         LaneName, PathName
<1> QED BY <1>3, <1>5, TypePartsNext

LEMMA MishapTyped ==
  ASSUME TypeOK, NEW p \in Proc, Fault(p) \/ Die(p)
  PROVE  TypeOK'
<1>1. ProcessesTyped /\ FilesTyped
      BY TypeParts
<1>2. my[p].at \in Nat
      BY <1>1 DEF ProcessesTyped, Local
<1>3. FilesTyped'
      BY <1>1 DEF FilesTyped, Fault, Die, lane, kept, notes
<1>4. ASSUME NEW label \in {"rejected", "dead"}, Go(p, label), my' = my
      PROVE  ProcessesTyped'
      BY <1>1, <1>2, <1>4, LooseLabels, GoTyped DEF Settled
<1>5. ProcessesTyped'
  <2>1. CASE Fault(p)
        BY <1>1, <1>4, <2>1, PreparationErrorTyped, KeepingErrorTyped DEF Fault
  <2>2. CASE Die(p)
        BY <1>4, <2>2 DEF Die
  <2> QED BY <2>1, <2>2
<1> QED BY <1>3, <1>5, TypePartsNext

(* and after every step.                                                   *)
LEMMA StepTyped == TypeOK /\ [Next]_vars => TypeOK'
<1> SUFFICES ASSUME TypeOK, [Next]_vars PROVE TypeOK'
    OBVIOUS
<1>1. CASE UNCHANGED vars
  <2>1. UNCHANGED <<dir, marker, pc, my, evidence, laneState, wrote, existed, hurt>>
        BY <1>1 DEF vars
  <2> QED BY <2>1 DEF TypeOK, WorkspaceTypeOK
<1>2. ASSUME NEW p \in Proc, Step(p) \/ Fault(p) \/ Die(p) PROVE TypeOK'
      BY <1>2, CommandTyped, PrepareTyped, PersistTyped, WriteLaneStateTyped,
         ClearTyped, MishapTyped DEF Step, Persist
<1> QED BY <1>1, <1>2 DEF Next

(* Files, directories and process states always have their types.          *)
THEOREM TypeCorrect == Spec => []TypeOK
BY InitTyped, StepTyped, PTL DEF Spec

-----------------------------------------------------------------------------
(* Evidence.                                                               *)

Active(p) == pc[p] \notin Resting

(* Overlap happens only where it is allowed. *)
AloneIsAlone ==
  \A p \in Alone : Active(p) => \A q \in Proc \ {p} : pc[q] \in Resting

Before == {"idle", "prepared", "gate", "recheck", "note"} \cup Preparing

(* Each kind of command keeps to its own path, and how far a smoke command *)
(* has come tells what it has written.                                     *)
OnPath(p) ==
  /\ pc[p] = "idle" => my[p].created = {}
  /\ p \in Skeleton =>
       pc[p] \notin {"gate", "recheck", "note", "evidence", "complete", "undo", "undoState"}
  /\ p \in Smoke =>
       /\ pc[p] \notin {"clear", "clearState"}
       /\ pc[p] \in Before => wrote[p] = {}
       /\ pc[p] = "note" => my[p].at = 1
       /\ pc[p] \in {"evidence", "complete"} => wrote[p] = 1..(my[p].at - 1)
       /\ pc[p] = "complete" => evidence[my[p].at].by = p
       /\ pc[p] \in Writing \cup {"done"} => wrote[p] = Ref

(* What a process noted as written is there, complete and its own. *)
WroteIsThere ==
  \A p \in Proc : \A r \in wrote[p] : evidence[r] = [by |-> p, full |-> TRUE]

EvidenceHasDirectory ==
  \A r \in Ref : evidence[r].by # NoProc => dir["stateLane"] # NoProc

(* A skeleton that made the state directory clears away nobody's evidence. *)
OwnDirectoryEmpty ==
  \A p \in Skeleton : Active(p) /\ "stateLane" \in my[p].created =>
    \A r \in Ref : evidence[r].by = NoProc

TextIsDone == laneState.text \in Smoke => pc[laneState.text] = "done"

KeptInv ==
  /\ AloneIsAlone
  /\ \A p \in Proc : OnPath(p)
  /\ WroteIsThere
  /\ EvidenceHasDirectory
  /\ OwnDirectoryEmpty
  /\ TextIsDone

(* At first nothing is written.                                            *)
LEMMA InitKept == Init => KeptInv
<1> SUFFICES ASSUME Init PROVE KeptInv
    OBVIOUS
<1>1. \A p \in Proc : pc[p] = "idle" /\ my[p].created = {} /\ wrote[p] = {}
      BY DEF Init, WorkspaceInit, Fresh
<1>2. \A r \in Ref : evidence[r].by = NoProc
      BY DEF Init, NoEvidence
<1>3. laneState.text \notin Smoke
      BY WorkspaceAssumption DEF Init, NoState, Smoke
<1>4. \A p \in Proc : OnPath(p)
      BY <1>1 DEF OnPath, Writing
<1>5. \A p \in Proc : ~Active(p)
      BY <1>1 DEF Active, Resting
<1>6. Alone \subseteq Proc /\ Skeleton \subseteq Proc
      BY WorkspaceAssumption, PersistenceAssumption
<1> QED BY <1>1, <1>2, <1>3, <1>4, <1>5, <1>6
        DEF KeptInv, AloneIsAlone, WroteIsThere, EvidenceHasDirectory,
            OwnDirectoryEmpty, TextIsDone

(* Who may become active. *)
Admitted(p) ==
  \/ Active(p)
  \/ /\ \A q \in Alone : pc[q] \in Resting
     /\ p \in Alone => \A q \in Proc : pc[q] \in Resting

(* A process that is alone stays so until it rests.                        *)
LEMMA StaysAlone ==
  ASSUME AloneIsAlone, pc \in [Proc -> Labels], NEW p \in Proc, NEW label,
         Admitted(p), Go(p, label)
  PROVE  AloneIsAlone'
<1>1. \A q \in Proc \ {p} : pc'[q] = pc[q]
      BY DEF Go
<1>2. Alone \subseteq Proc
      BY WorkspaceAssumption
<1>3. SUFFICES ASSUME NEW a \in Alone, Active(a)', NEW q \in Proc \ {a}
               PROVE  pc'[q] \in Resting
      BY DEF AloneIsAlone
<1>4. CASE a = p
      BY <1>1, <1>3, <1>4 DEF AloneIsAlone, Admitted, Active
<1>5. CASE a # p
  <2>1. Active(a)
        BY <1>1, <1>2, <1>3, <1>5 DEF Active
  <2>2. pc[p] \in Resting
        BY <1>2, <1>5, <2>1 DEF AloneIsAlone
  <2>3. FALSE
        BY <2>1, <2>2 DEF Admitted, Active
  <2> QED BY <2>3
<1> QED BY <1>4, <1>5

(* A step that writes no evidence keeps the invariant if the process it    *)
(* moves stays on its path and its other writes are harmless.              *)
LEMMA QuietStep ==
  ASSUME TypeOK, KeptInv, NEW p \in Proc, NEW label, Admitted(p), Go(p, label),
         pc[p] # "done",
         \A q \in Proc \ {p} : my'[q] = my[q],
         UNCHANGED <<evidence, wrote>>,
         OnPath(p)',
         dir'["stateLane"] = dir["stateLane"] \/ dir'["stateLane"] # NoProc,
         Active(p) \/ my'[p].created = {},
         "stateLane" \in my'[p].created =>
            "stateLane" \in my[p].created \/ dir["stateLane"] = NoProc,
         \/ laneState'.text = laneState.text
         \/ laneState'.text = NoProc
         \/ laneState'.text = p /\ label = "done"
  PROVE  KeptInv'
<1>1. pc \in [Proc -> Labels] /\ \A q \in Proc \ {p} : pc'[q] = pc[q] /\ my'[q] = my[q]
      BY DEF TypeOK, Go
<1>2. AloneIsAlone'
      BY <1>1, StaysAlone DEF KeptInv
<1>3. \A q \in Proc : OnPath(q)'
      BY <1>1 DEF KeptInv, OnPath
<1>4. WroteIsThere' /\ EvidenceHasDirectory'
      BY DEF KeptInv, WroteIsThere, EvidenceHasDirectory
<1>5. OwnDirectoryEmpty'
  <2>1. SUFFICES ASSUME NEW k \in Skeleton, Active(k)', "stateLane" \in my'[k].created,
                        NEW r \in Ref
                 PROVE  evidence[r].by = NoProc
        BY DEF OwnDirectoryEmpty
  <2>2. k \in Proc
        BY PersistenceAssumption, WorkspaceAssumption
  <2>3. CASE k = p
        BY <2>1, <2>3 DEF KeptInv, OwnDirectoryEmpty, EvidenceHasDirectory
  <2>4. CASE k # p
        BY <1>1, <2>1, <2>2, <2>4 DEF KeptInv, OwnDirectoryEmpty, Active
  <2> QED BY <2>3, <2>4
<1>6. TextIsDone'
  <2>1. pc'[p] = label /\ NoProc \notin Smoke
        BY <1>1, WorkspaceAssumption DEF Go, Smoke
  <2> QED BY <1>1, <2>1 DEF KeptInv, TextIsDone, Smoke
<1> QED BY <1>2, <1>3, <1>4, <1>5, <1>6 DEF KeptInv

LEMMA ActiveLabels ==
  /\ \A l \in Preparing \cup Keeping \cup Cleaning \cup {"prepared", "gate", "recheck"} :
       l \notin Resting /\ l # "done"
  /\ \A l \in Preparing : l \in Before
BY DEF Preparing, Keeping, Writing, Cleaning, Resting, Settled, Before

LEMMA ActiveAdmitted ==
  ASSUME NEW p \in Proc,
         pc[p] \in Preparing \cup Keeping \cup Cleaning \cup {"prepared", "gate", "recheck"}
  PROVE  Active(p) /\ Admitted(p) /\ pc[p] # "done"
BY ActiveLabels DEF Active, Admitted

(* Preparing the lane. *)
LEMMA PrepareKept ==
  ASSUME TypeOK, KeptInv, NEW p \in Proc, Prepare(p), UNCHANGED <<kept, notes>>
  PROVE  KeptInv'
<1>1. pc \in [Proc -> Labels] /\ my \in [Proc -> Local] /\ OnPath(p)
      /\ dir \in [PathName -> Proc \cup {NoProc}]
      BY DEF TypeOK, WorkspaceTypeOK, KeptInv
<1>2. pc[p] \in Preparing \cup {"unmake"}
      BY DEF Prepare, Look, Make, Confirm, OpenMarker, FillMarker, Unmake, Preparing
<1>3. Active(p) /\ Admitted(p) /\ pc[p] # "done"
      BY <1>2, ActiveAdmitted DEF Cleaning
<1>4. UNCHANGED <<evidence, wrote, laneState>>
      BY DEF kept, notes
<1>5. ASSUME NEW label \in {"make", "confirm", "look", "mark", "fill", "prepared",
                            "unmake", "unprepared"},
             Go(p, label), \A q \in Proc \ {p} : my'[q] = my[q],
             label \in {"unmake", "unprepared"} \/ pc[p] \in Preparing
      PROVE  OnPath(p)'
  <2>1. pc'[p] = label
        BY <1>1, <1>5 DEF Go
  <2>2. label \in Before => pc[p] \in Before
        BY <1>5, ActiveLabels DEF Before, Preparing
  <2> QED BY <1>1, <1>4, <2>1, <2>2 DEF OnPath, Before, Preparing, Writing
<1>6. ASSUME PreparationError(p), my' = my, dir' = dir
      PROVE  KeptInv'
  <2>1. PICK label \in {"unmake", "unprepared"} : Go(p, label)
        BY <1>6 DEF PreparationError
  <2>2. OnPath(p)'
        BY <1>5, <1>6, <2>1
  <2> QED BY <1>3, <1>4, <1>6, <2>1, <2>2, QuietStep
<1>7. CASE Look(p)
  <2>1. PICK label \in {"make", "confirm"} : Go(p, label)
        BY <1>7 DEF Look
  <2>2. OnPath(p)' /\ my' = my /\ dir' = dir
        BY <1>5, <1>7, <2>1 DEF Look, Preparing
  <2> QED BY <1>3, <1>4, <2>1, <2>2, QuietStep
<1>8. CASE Make(p)
  <2> DEFINE path == Path[my[p].at]
  <2>1. CASE dir[path] # NoProc
        BY <1>6, <1>8, <2>1 DEF Make
  <2>2. CASE dir[path] = NoProc
    <3>1. /\ dir' = [dir EXCEPT ![path] = p]
          /\ my' = [my EXCEPT ![p].created = @ \cup {path}]
          /\ Go(p, "confirm")
          BY <1>8, <2>2 DEF Make
    <3>2. /\ \A q \in Proc \ {p} : my'[q] = my[q]
          /\ my'[p].created = my[p].created \cup {path}
          BY <1>1, <3>1 DEF Local
    <3>3. dir'["stateLane"] = dir["stateLane"] \/ dir'["stateLane"] # NoProc
          BY <1>1, <3>1, WorkspaceAssumption
    <3>4. "stateLane" \in my'[p].created =>
             "stateLane" \in my[p].created \/ dir["stateLane"] = NoProc
          BY <2>2, <3>2
    <3>5. OnPath(p)'
          BY <1>5, <1>8, <3>1, <3>2 DEF Make, Preparing
    <3> QED BY <1>3, <1>4, <3>1, <3>2, <3>3, <3>4, <3>5, QuietStep
  <2> QED BY <2>1, <2>2
<1>9. CASE Confirm(p)
  <2>1. CASE dir[Path[my[p].at]] = NoProc
        BY <1>6, <1>9, <2>1 DEF Confirm
  <2>2. CASE dir[Path[my[p].at]] # NoProc
    <3>1. PICK label \in {"look", "mark"} : Go(p, label)
          BY <1>9, <2>2 DEF Confirm
    <3>2. /\ \A q \in Proc \ {p} : my'[q] = my[q]
          /\ my'[p].created = my[p].created
          /\ dir' = dir
          BY <1>1, <1>9, <2>2 DEF Confirm, Local
    <3>3. OnPath(p)'
          BY <1>5, <1>9, <3>1, <3>2 DEF Confirm, Preparing
    <3> QED BY <1>3, <1>4, <3>1, <3>2, <3>3, QuietStep
  <2> QED BY <2>1, <2>2
<1>10. CASE OpenMarker(p)
  <2>1. CASE dir[Marked(p)] = NoProc
        BY <1>6, <1>10, <2>1 DEF OpenMarker
  <2>2. CASE dir[Marked(p)] # NoProc
    <3>1. /\ Go(p, "fill") /\ dir' = dir
          /\ \A q \in Proc \ {p} : my'[q] = my[q]
          /\ my'[p].created = my[p].created
          BY <1>1, <1>10, <2>2 DEF OpenMarker, Local
    <3>2. OnPath(p)'
          BY <1>5, <1>10, <3>1 DEF OpenMarker, Preparing
    <3> QED BY <1>3, <1>4, <3>1, <3>2, QuietStep
  <2> QED BY <2>1, <2>2
<1>11. CASE FillMarker(p)
  <2>1. PICK label \in {"mark", "prepared"} : Go(p, label)
        BY <1>11 DEF FillMarker
  <2>2. /\ dir' = dir
        /\ \A q \in Proc \ {p} : my'[q] = my[q]
        /\ my'[p].created = my[p].created
        BY <1>1, <1>11 DEF FillMarker, Local
  <2>3. OnPath(p)'
        BY <1>5, <1>11, <2>1, <2>2 DEF FillMarker, Preparing
  <2> QED BY <1>3, <1>4, <2>1, <2>2, <2>3, QuietStep
<1>12. CASE Unmake(p)
  <2>1. Go(p, "unprepared") /\ my' = my
        BY <1>12 DEF Unmake
  <2>2. dir'["stateLane"] = dir["stateLane"]
        BY <1>1, <1>12 DEF Unmake, Remove, PathName
  <2>3. OnPath(p)'
        BY <1>5, <2>1
  <2> QED BY <1>3, <1>4, <2>1, <2>2, <2>3, QuietStep
<1> QED BY <1>7, <1>8, <1>9, <1>10, <1>11, <1>12 DEF Prepare

(* Starting, the gates, and the note about an existing state. *)
LEMMA CommandKept ==
  ASSUME TypeOK, KeptInv, NEW p \in Proc,
         Start(p) \/ Prepared(p) \/ Gate(p) \/ Recheck(p) \/ NoteState(p)
  PROVE  KeptInv'
<1>1. pc \in [Proc -> Labels] /\ my \in [Proc -> Local] /\ OnPath(p)
      BY DEF TypeOK, WorkspaceTypeOK, KeptInv
<1>2. UNCHANGED <<evidence, wrote, laneState, dir>>
      BY DEF Start, Prepared, Gate, Recheck, NoteState, lane, kept, notes
<1>3. ASSUME NEW label, Go(p, label), Admitted(p), pc[p] # "done", OnPath(p)',
             \A q \in Proc \ {p} : my'[q] = my[q],
             my'[p].created = my[p].created,
             Active(p) \/ my[p].created = {}
      PROVE  KeptInv'
      BY <1>2, <1>3, QuietStep
<1>4. CASE Start(p)
  <2>1. Go(p, "look") /\ my' = my /\ pc[p] = "idle"
        BY <1>4 DEF Start
  <2>2. Admitted(p)
        BY <1>4 DEF Start, Admitted
  <2>3. my[p].created = {}
        BY <1>1, <2>1 DEF OnPath
  <2>4. OnPath(p)'
        BY <1>1, <1>2, <2>1 DEF OnPath, Go, Before, Preparing, Writing
  <2> QED BY <1>3, <2>1, <2>2, <2>3, <2>4
<1>5. CASE Prepared(p)
  <2>1. Go(p, IF p \in Skeleton THEN "open" ELSE "gate") /\ my' = my /\ pc[p] = "prepared"
        BY <1>5 DEF Prepared
  <2>2. OnPath(p)'
        BY <1>1, <1>2, <2>1 DEF OnPath, Go, Before, Preparing, Writing, Smoke
  <2> QED BY <1>3, <2>1, <2>2, ActiveAdmitted
<1>6. CASE Gate(p)
  <2>1. pc[p] = "gate" /\ p \in Smoke
        BY <1>1, <1>6 DEF Gate, OnPath, Smoke
  <2>2. PICK label \in {"gate", "recheck"} : Go(p, label)
        BY <1>1, <1>6, <2>1 DEF Gate, Go
  <2>3. (\A q \in Proc \ {p} : my'[q] = my[q]) /\ my'[p].created = my[p].created
        BY <1>1, <1>6 DEF Gate, Probe, Local
  <2>4. OnPath(p)'
        BY <1>1, <1>2, <2>1, <2>2 DEF OnPath, Go, Before, Preparing, Writing, Smoke
  <2> QED BY <1>3, <2>1, <2>2, <2>3, <2>4, ActiveAdmitted
<1>7. CASE Recheck(p)
  <2>1. pc[p] = "recheck" /\ p \in Smoke
        BY <1>1, <1>7 DEF Recheck, OnPath, Smoke
  <2>2. PICK label \in {"recheck", "rejected", "note"} : 
             Go(p, label) /\ (label = "note" => LastProbe(p))
        BY <1>7 DEF Recheck
  <2>3. /\ \A q \in Proc \ {p} : my'[q] = my[q]
        /\ my'[p].created = my[p].created
        /\ LastProbe(p) => my'[p].at = 1
        BY <1>1, <1>7 DEF Recheck, Probe, LastProbe, Local
  <2>4. OnPath(p)'
        BY <1>1, <1>2, <2>1, <2>2, <2>3 DEF OnPath, Go, Before, Preparing, Writing, Smoke
  <2> QED BY <1>3, <2>1, <2>2, <2>3, <2>4, ActiveAdmitted
<1>8. CASE NoteState(p)
  <2>1. pc[p] = "note" /\ Go(p, "evidence") /\ my' = my /\ p \in Smoke
        BY <1>1, <1>8 DEF NoteState, OnPath, Smoke
  <2>2. wrote[p] = {} /\ my[p].at = 1
        BY <1>1, <2>1 DEF OnPath, Before
  <2>3. 1..(my[p].at - 1) = {}
        BY <2>2
  <2>4. OnPath(p)'
        BY <1>1, <1>2, <2>1, <2>2, <2>3 DEF OnPath, Go, Before, Preparing, Writing, Smoke
  <2> QED BY <1>3, <2>1, <2>4, ActiveAdmitted DEF Keeping
<1> QED BY <1>4, <1>5, <1>6, <1>7, <1>8

(* The lane run state: opening, verifying, truncating and writing it, and  *)
(* taking it away again.                                                   *)
LEMMA LaneStateKept ==
  ASSUME TypeOK, KeptInv, NEW p \in Proc, WriteLaneState(p) \/ UndoState(p)
  PROVE  KeptInv'
<1>1. pc \in [Proc -> Labels] /\ my \in [Proc -> Local] /\ OnPath(p)
      BY DEF TypeOK, WorkspaceTypeOK, KeptInv
<1>2. UNCHANGED <<evidence, wrote, dir>>
      BY DEF WriteLaneState, OpenState, VerifyState, TruncateState, WriteState,
         UndoState, lane, notes, kept
<1>3. pc[p] \in Writing \cup {"undoState"}
      BY DEF WriteLaneState, OpenState, VerifyState, TruncateState, WriteState,
         UndoState, Writing
<1>4. Active(p) /\ Admitted(p) /\ pc[p] # "done"
      BY <1>3, ActiveAdmitted DEF Keeping, Cleaning
<1>5. (\A q \in Proc \ {p} : my'[q] = my[q]) /\ my'[p].created = my[p].created
      BY <1>1 DEF WriteLaneState, OpenState, VerifyState, TruncateState, WriteState,
         UndoState, Local
<1>6. ASSUME NEW label \in Writing \cup {"done", "failed", "undo", "clear"}, Go(p, label),
             label \in Writing \cup {"done"} => pc[p] \in Writing,
             label = "undo" => p \notin Skeleton,
             label = "clear" => p \in Skeleton,
             \/ laneState'.text = laneState.text
             \/ laneState'.text = NoProc
             \/ laneState'.text = p /\ label = "done"
      PROVE  KeptInv'
  <2>1. OnPath(p)'
        BY <1>1, <1>2, <1>6 DEF OnPath, Go, Before, Preparing, Writing, Smoke
  <2> QED BY <1>2, <1>4, <1>5, <1>6, <2>1, QuietStep
<1>7. CASE OpenState(p)
  <2>1. laneState'.text = laneState.text \/ laneState'.text = NoProc
        BY <1>7 DEF OpenState
  <2> QED BY <1>3, <1>6, <1>7, <2>1 DEF OpenState, Writing
<1>8. CASE VerifyState(p)
  <2>1. PICK label \in {"truncate", "clear", "undo"} :
          /\ Go(p, label)
          /\ label = "undo" => p \notin Skeleton
          /\ label = "clear" => p \in Skeleton
        BY <1>8 DEF VerifyState, KeepingError
  <2>2. laneState' = laneState /\ pc[p] \in Writing
        BY <1>8 DEF VerifyState, kept, Writing
  <2> QED BY <1>6, <2>1, <2>2 DEF Writing
<1>9. CASE TruncateState(p)
  <2>1. laneState'.text = laneState.text \/ laneState'.text = NoProc
        BY <1>9 DEF TruncateState, SetText, TypeOK, LaneState
  <2> QED BY <1>6, <1>9, <2>1 DEF TruncateState, Writing
<1>10. CASE WriteState(p)
  <2>1. laneState'.text = laneState.text \/ laneState'.text = p
        BY <1>10 DEF WriteState, SetText, TypeOK, LaneState
  <2> QED BY <1>6, <1>10, <2>1 DEF WriteState, Writing
<1>11. CASE UndoState(p)
  <2>1. laneState'.text = NoProc
        BY <1>11 DEF UndoState, NoState
  <2> QED BY <1>6, <1>11, <2>1 DEF UndoState, Writing
<1> QED BY <1>7, <1>8, <1>9, <1>10, <1>11 DEF WriteLaneState

(* Failing calls, deaths, and the removal of a workspace.                  *)
LEMMA MishapKept ==
  ASSUME TypeOK, KeptInv, NEW p \in Proc, Fault(p) \/ Die(p) \/ Clear(p)
  PROVE  KeptInv'
<1>1. pc \in [Proc -> Labels] /\ my \in [Proc -> Local] /\ OnPath(p)
      /\ dir \in [PathName -> Proc \cup {NoProc}]
      BY DEF TypeOK, WorkspaceTypeOK, KeptInv
<1>2. UNCHANGED <<evidence, wrote, laneState, my>>
      BY DEF Fault, Die, Clear, lane, kept, notes
<1>3. dir'["stateLane"] = dir["stateLane"]
      BY <1>1 DEF Fault, Die, Clear, Remove, lane, PathName
<1>4. Active(p) /\ Admitted(p) /\ pc[p] # "done"
  <2>1. CASE Die(p)
        BY <2>1 DEF Die, Active, Admitted, Resting, Settled
  <2>2. CASE Fault(p) \/ Clear(p)
        BY <2>2, ActiveAdmitted DEF Fault, Clear, Cleaning
  <2> QED BY <2>1, <2>2
<1>5. PICK label \in {"unmake", "unprepared", "rejected", "clear", "undo", "dead", "clearState"} :
        /\ Go(p, label)
        /\ label = "undo" => p \notin Skeleton
        /\ label \in {"clear", "clearState"} => p \notin Smoke
  <2>1. CASE Fault(p)
        BY <2>1 DEF Fault, PreparationError, KeepingError, Smoke
  <2>2. CASE Die(p)
        BY <2>2 DEF Die
  <2>3. CASE Clear(p)
        BY <1>1, <2>3 DEF Clear, OnPath
  <2> QED BY <2>1, <2>2, <2>3
<1>6. OnPath(p)'
      BY <1>1, <1>2, <1>5 DEF OnPath, Go, Before, Preparing, Writing, Smoke
<1> QED BY <1>2, <1>3, <1>4, <1>5, <1>6, QuietStep

(* Evidence is created only where there is none ...                        *)
LEMMA CreateKept ==
  ASSUME TypeOK, KeptInv, NEW p \in Proc, CreateEvidence(p)
  PROVE  KeptInv'
<1>1. pc \in [Proc -> Labels] /\ my \in [Proc -> Local] /\ OnPath(p)
      /\ evidence \in [Ref -> Evidence] /\ wrote \in [Proc -> SUBSET Ref]
      BY DEF TypeOK, WorkspaceTypeOK, KeptInv
<1>2. pc[p] = "evidence" /\ p \in Smoke /\ UNCHANGED <<dir, my, laneState, wrote>>
      BY <1>1 DEF CreateEvidence, OnPath, Smoke, lane, notes
<1>3. Active(p) /\ Admitted(p)
      BY <1>2, ActiveAdmitted DEF Keeping
<1> DEFINE r == my[p].at
<1>4. r \in Ref
      BY <1>2 DEF TypeOK
<1>5. CASE ~(dir["stateLane"] # NoProc /\ evidence[r].by = NoProc)
  <2>1. Go(p, "undo") /\ evidence' = evidence
        BY <1>5 DEF CreateEvidence, Due
  <2>2. OnPath(p)'
        BY <1>1, <1>2, <2>1 DEF OnPath, Go, Before, Preparing, Writing, Smoke
  <2> QED BY <1>2, <1>3, <2>1, <2>2, QuietStep
<1>6. CASE dir["stateLane"] # NoProc /\ evidence[r].by = NoProc
  <2>1. Go(p, "complete") /\ evidence' = [evidence EXCEPT ![r] = [by |-> p, full |-> FALSE]]
        BY <1>6 DEF CreateEvidence, Due
  <2>2. \A q \in Proc : r \notin wrote[q]
    <3>1. SUFFICES ASSUME NEW q \in Proc, r \in wrote[q] PROVE FALSE
          OBVIOUS
    <3>2. evidence[r] = [by |-> q, full |-> TRUE]
          BY <3>1 DEF KeptInv, WroteIsThere
    <3>3. evidence[r].by = q
          BY <3>2
    <3> QED BY <1>6, <3>3, WorkspaceAssumption
  <2>3. AloneIsAlone'
        BY <1>1, <1>3, <2>1, StaysAlone DEF KeptInv
  <2>4. ASSUME NEW q \in Proc PROVE OnPath(q)'
    <3>1. CASE q = p
          BY <1>1, <1>2, <1>4, <2>1, <3>1
          DEF OnPath, Go, Before, Preparing, Writing, Smoke
    <3>2. CASE q # p
      <4>1. pc'[q] = pc[q] /\ my'[q] = my[q] /\ wrote'[q] = wrote[q] /\ OnPath(q)
            BY <1>1, <1>2, <2>1, <3>2 DEF Go, KeptInv
      <4>2. pc[q] = "complete" /\ q \in Smoke => my[q].at # r /\ my[q].at \in Ref
            BY <1>6, <4>1, WorkspaceAssumption DEF OnPath, TypeOK
      <4>3. pc[q] = "complete" /\ q \in Smoke => evidence'[my[q].at] = evidence[my[q].at]
            BY <1>1, <2>1, <4>2
      <4> QED BY <4>1, <4>3 DEF OnPath
    <3> QED BY <3>1, <3>2
  <2>5. WroteIsThere'
        BY <1>1, <1>2, <2>1, <2>2 DEF KeptInv, WroteIsThere
  <2>6. EvidenceHasDirectory'
        BY <1>2, <1>6 DEF EvidenceHasDirectory
  <2>7. OwnDirectoryEmpty'
    <3>1. ASSUME NEW k \in Skeleton PROVE ~Active(k)'
      <4>1. k \in Alone /\ k \in Proc /\ k # p
            BY <1>2, PersistenceAssumption, WorkspaceAssumption DEF Smoke
      <4>2. pc[k] \in Resting
            BY <1>3, <4>1 DEF KeptInv, AloneIsAlone, Active
      <4> QED BY <1>1, <2>1, <4>1, <4>2 DEF Active, Go
    <3> QED BY <3>1 DEF OwnDirectoryEmpty
  <2>8. TextIsDone'
        BY <1>1, <1>2, <2>1 DEF KeptInv, TextIsDone, Go, Smoke
  <2> QED BY <2>3, <2>4, <2>5, <2>6, <2>7, <2>8 DEF KeptInv
<1> QED BY <1>5, <1>6

(* ... completed by the process that created it ...                        *)
LEMMA CompleteKept ==
  ASSUME TypeOK, KeptInv, NEW p \in Proc, CompleteEvidence(p)
  PROVE  KeptInv'
<1>1. pc \in [Proc -> Labels] /\ my \in [Proc -> Local] /\ OnPath(p)
      /\ evidence \in [Ref -> Evidence] /\ wrote \in [Proc -> SUBSET Ref]
      BY DEF TypeOK, WorkspaceTypeOK, KeptInv
<1>2. pc[p] = "complete" /\ p \in Smoke /\ UNCHANGED <<dir, laneState>>
      BY <1>1 DEF CompleteEvidence, OnPath, Smoke, lane
<1>3. Active(p) /\ Admitted(p)
      BY <1>2, ActiveAdmitted DEF Keeping
<1> DEFINE r == my[p].at
<1>4. r \in Ref /\ r \in Nat
      BY <1>1, <1>2 DEF TypeOK, Local
<1>5. /\ evidence' = [evidence EXCEPT ![r].full = TRUE]
      /\ wrote' = [wrote EXCEPT ![p] = @ \cup {r}]
      /\ my' = [my EXCEPT ![p].at = IF @ < Refs THEN @ + 1 ELSE @]
      /\ Go(p, IF r < Refs THEN "evidence" ELSE "open")
      BY DEF CompleteEvidence, Due
<1>6. evidence[r].by = p /\ wrote[p] = 1..(r - 1)
      BY <1>1, <1>2 DEF OnPath
<1>7. evidence'[r] = [by |-> p, full |-> TRUE]
      BY <1>1, <1>4, <1>5, <1>6 DEF Evidence
<1>8. \A s \in Ref : evidence'[s].by = evidence[s].by /\ (s # r => evidence'[s] = evidence[s])
      BY <1>1, <1>5, <1>6, <1>7
<1>9. \A q \in Proc \ {p} :
        pc'[q] = pc[q] /\ my'[q] = my[q] /\ wrote'[q] = wrote[q]
      BY <1>1, <1>5 DEF Go
<1>10. wrote'[p] = 1..r
  <2>1. (1..(r - 1)) \cup {r} = 1..r
        BY <1>4 DEF Ref
  <2>2. wrote'[p] = wrote[p] \cup {r}
        BY <1>1, <1>5
  <2> QED BY <1>6, <2>1, <2>2
<1>11. AloneIsAlone'
       BY <1>1, <1>3, <1>5, StaysAlone DEF KeptInv
<1>12. ASSUME NEW q \in Proc PROVE OnPath(q)'
  <2>1. CASE q # p
    <3>1. OnPath(q) /\ (pc[q] = "complete" => my[q].at \in Ref)
          BY DEF KeptInv, TypeOK
    <3> QED BY <1>8, <1>9, <2>1, <3>1 DEF OnPath
  <2>2. CASE q = p
    <3>1. CASE r < Refs
      <4>1. my'[p].at = r + 1 /\ my'[p].created = my[p].created /\ pc'[p] = "evidence"
            BY <1>1, <1>5, <3>1 DEF Go, Local
      <4>2. (r + 1) - 1 = r
            BY <1>4
      <4> QED BY <1>2, <1>10, <2>2, <4>1, <4>2
              DEF OnPath, Before, Preparing, Writing, Smoke
    <3>2. CASE ~(r < Refs)
      <4>1. r = Refs /\ pc'[p] = "open"
            BY <1>1, <1>4, <1>5, <3>2, PersistenceAssumption DEF Go, Ref
      <4> QED BY <1>2, <1>10, <2>2, <4>1
              DEF OnPath, Before, Preparing, Writing, Smoke, Ref
    <3> QED BY <3>1, <3>2
  <2> QED BY <2>1, <2>2
<1>13. WroteIsThere'
  <2>1. SUFFICES ASSUME NEW q \in Proc, NEW s \in wrote'[q]
                 PROVE  evidence'[s] = [by |-> q, full |-> TRUE]
        BY DEF WroteIsThere
  <2>2. CASE s = r /\ q = p
        BY <1>7, <2>2
  <2>3. CASE ~(s = r /\ q = p)
    <3>1. s \in wrote[q] /\ s \in Ref
          BY <1>1, <1>5, <1>9, <2>1, <2>3
    <3>2. evidence[s] = [by |-> q, full |-> TRUE]
          BY <3>1 DEF KeptInv, WroteIsThere
    <3>3. s # r
          BY <1>6, <2>3, <3>2
    <3> QED BY <1>8, <3>1, <3>2, <3>3
  <2> QED BY <2>2, <2>3
<1>14. EvidenceHasDirectory'
       BY <1>2, <1>8 DEF KeptInv, EvidenceHasDirectory
<1>15. OwnDirectoryEmpty'
  <2>1. ASSUME NEW k \in Skeleton PROVE ~Active(k)'
    <3>1. k \in Alone /\ k \in Proc /\ k # p
          BY <1>2, PersistenceAssumption, WorkspaceAssumption DEF Smoke
    <3>2. pc[k] \in Resting
          BY <1>3, <3>1 DEF KeptInv, AloneIsAlone, Active
    <3> QED BY <1>9, <3>1, <3>2 DEF Active
  <2> QED BY <2>1 DEF OwnDirectoryEmpty
<1>16. TextIsDone'
       BY <1>2, <1>9 DEF KeptInv, TextIsDone, Smoke
<1> QED BY <1>11, <1>12, <1>13, <1>14, <1>15, <1>16 DEF KeptInv

(* ... and removed by it alone.                                            *)
LEMMA UndoKept ==
  ASSUME TypeOK, KeptInv, NEW p \in Proc, Undo(p)
  PROVE  KeptInv'
<1>1. pc \in [Proc -> Labels] /\ my \in [Proc -> Local] /\ OnPath(p)
      /\ evidence \in [Ref -> Evidence] /\ wrote \in [Proc -> SUBSET Ref]
      BY DEF TypeOK, WorkspaceTypeOK, KeptInv
<1>2. pc[p] = "undo" /\ p \in Smoke /\ UNCHANGED <<dir, my, laneState>>
      BY <1>1 DEF Undo, OnPath, Smoke, lane
<1>3. Active(p) /\ Admitted(p)
      BY <1>2, ActiveAdmitted DEF Cleaning
<1>4. CASE wrote[p] = {}
  <2>1. PICK label \in {"failed", "undoState"} : Go(p, label)
        BY <1>4 DEF Undo
  <2>2. UNCHANGED <<evidence, wrote>>
        BY <1>4 DEF Undo
  <2>3. OnPath(p)'
        BY <1>1, <1>2, <2>1, <2>2 DEF OnPath, Go, Before, Preparing, Writing, Smoke
  <2> QED BY <1>2, <1>3, <2>1, <2>2, <2>3, QuietStep
<1>5. CASE wrote[p] # {}
  <2>1. PICK r \in wrote[p] :
          /\ evidence' = [evidence EXCEPT ![r] = NoEvidence]
          /\ wrote' = [wrote EXCEPT ![p] = @ \ {r}]
          /\ pc' = pc
        BY <1>5 DEF Undo
  <2>2. r \in Ref /\ evidence[r] = [by |-> p, full |-> TRUE]
        BY <1>1 DEF KeptInv, WroteIsThere
  <2>3. evidence[r].by = p /\ evidence'[r].by = NoProc
        BY <1>1, <2>1, <2>2 DEF NoEvidence
  <2>4. \A s \in Ref : evidence'[s].by # NoProc => s # r /\ evidence'[s] = evidence[s]
        BY <1>1, <2>1, <2>3
  <2>5. ASSUME NEW q \in Proc PROVE OnPath(q)'
    <3>1. CASE q = p
          BY <1>2, <2>1, <3>1 DEF OnPath, Before, Preparing, Writing, Smoke
    <3>2. CASE q # p
      <4>1. wrote'[q] = wrote[q] /\ OnPath(q)
            BY <1>1, <2>1, <3>2 DEF KeptInv
      <4>2. pc[q] = "complete" /\ q \in Smoke => my[q].at \in Ref /\ my[q].at # r
            BY <2>3, <3>2, <4>1 DEF OnPath, TypeOK
      <4>3. pc[q] = "complete" /\ q \in Smoke => evidence'[my[q].at] = evidence[my[q].at]
            BY <1>1, <2>1, <4>2
      <4> QED BY <1>2, <2>1, <4>1, <4>3 DEF OnPath
    <3> QED BY <3>1, <3>2
  <2>6. WroteIsThere'
    <3>1. SUFFICES ASSUME NEW q \in Proc, NEW s \in wrote'[q]
                   PROVE  evidence'[s] = [by |-> q, full |-> TRUE]
          BY DEF WroteIsThere
    <3>2. s \in wrote[q] /\ s \in Ref /\ (q = p => s # r)
          BY <1>1, <2>1, <3>1
    <3>3. evidence[s] = [by |-> q, full |-> TRUE]
          BY <3>2 DEF KeptInv, WroteIsThere
    <3>4. evidence[s].by = q
          BY <3>3
    <3>5. s # r
          BY <2>3, <3>2, <3>4
    <3> QED BY <1>1, <2>1, <3>2, <3>3, <3>5
  <2>7. EvidenceHasDirectory'
        BY <1>2, <2>4 DEF KeptInv, EvidenceHasDirectory
  <2>8. OwnDirectoryEmpty'
    <3>1. \A r1 \in Ref : evidence[r1].by = NoProc => evidence'[r1].by = NoProc
          BY <2>4
    <3> QED BY <1>2, <2>1, <3>1 DEF KeptInv, OwnDirectoryEmpty, Active
  <2>9. AloneIsAlone' /\ TextIsDone'
        BY <1>2, <2>1 DEF KeptInv, AloneIsAlone, TextIsDone, Active
  <2> QED BY <2>5, <2>6, <2>7, <2>8, <2>9 DEF KeptInv
<1> QED BY <1>4, <1>5

(* A skeleton that clears its state directory away finds no evidence in    *)
(* it: the directory was not there before, and no command overlaps.        *)
LEMMA ClearStateKept ==
  ASSUME TypeOK, KeptInv, NEW p \in Proc, ClearState(p)
  PROVE  KeptInv'
<1>1. pc \in [Proc -> Labels] /\ my \in [Proc -> Local] /\ OnPath(p)
      /\ evidence \in [Ref -> Evidence] /\ wrote \in [Proc -> SUBSET Ref]
      BY DEF TypeOK, WorkspaceTypeOK, KeptInv
<1>2. pc[p] = "clearState" /\ p \in Skeleton
      /\ UNCHANGED <<my, laneState, wrote>> /\ Go(p, "failed")
      BY <1>1 DEF ClearState, OnPath, Smoke, notes
<1>3. Active(p) /\ Admitted(p)
      BY <1>2, ActiveAdmitted DEF Cleaning
<1>4. OnPath(p)'
      BY <1>1, <1>2 DEF OnPath, Go, Before, Preparing, Writing, Smoke
<1>5. CASE "stateLane" \notin my[p].created
  <2>1. UNCHANGED <<dir, evidence>>
        BY <1>5 DEF ClearState, lane
  <2> QED BY <1>2, <1>3, <1>4, <2>1, QuietStep
<1>6. CASE "stateLane" \in my[p].created
  <2>1. \A r \in Ref : evidence[r].by = NoProc
        BY <1>2, <1>3, <1>6 DEF KeptInv, OwnDirectoryEmpty
  <2>2. \A r \in Ref : evidence'[r].by = NoProc
        BY <1>6 DEF ClearState, NoEvidence
  <2>3. ASSUME NEW q \in Proc PROVE wrote[q] = {}
    <3>1. SUFFICES ASSUME NEW s \in wrote[q] PROVE FALSE
          OBVIOUS
    <3>2. s \in Ref /\ evidence[s] = [by |-> q, full |-> TRUE]
          BY <1>1 DEF KeptInv, WroteIsThere
    <3>3. evidence[s].by = q
          BY <3>2
    <3> QED BY <2>1, <3>2, <3>3, WorkspaceAssumption
  <2>4. \A q \in Proc \ {p} : pc'[q] = pc[q]
        BY <1>1, <1>2 DEF Go
  <2>5. ASSUME NEW q \in Proc, q # p PROVE OnPath(q)'
    <3>1. pc'[q] = pc[q] /\ OnPath(q)
          BY <2>4, <2>5 DEF KeptInv
    <3>2. ~(pc[q] = "complete" /\ q \in Smoke)
          BY <2>1, <3>1, WorkspaceAssumption DEF OnPath, TypeOK
    <3> QED BY <1>2, <3>1, <3>2 DEF OnPath
  <2>6. AloneIsAlone'
        BY <1>1, <1>2, <1>3, StaysAlone DEF KeptInv
  <2>7. WroteIsThere'
        BY <1>2, <2>3 DEF WroteIsThere
  <2>8. EvidenceHasDirectory' /\ OwnDirectoryEmpty'
        BY <2>2 DEF EvidenceHasDirectory, OwnDirectoryEmpty
  <2>9. TextIsDone'
    <3>1. p \notin Smoke
          BY <1>2 DEF Smoke
    <3> QED BY <1>2, <2>4, <3>1 DEF KeptInv, TextIsDone, Smoke
  <2>10. \A q \in Proc : OnPath(q)'
         BY <1>4, <2>5
  <2> QED BY <2>6, <2>7, <2>8, <2>9, <2>10 DEF KeptInv
<1> QED BY <1>5, <1>6

(* Every step keeps the evidence invariant,                                *)
LEMMA StepKept == TypeOK /\ KeptInv /\ [Next]_vars => KeptInv'
<1> SUFFICES ASSUME TypeOK, KeptInv, [Next]_vars PROVE KeptInv'
    OBVIOUS
<1>1. CASE UNCHANGED vars
  <2>1. UNCHANGED <<dir, marker, pc, my, evidence, laneState, wrote, existed, hurt>>
        BY <1>1 DEF vars
  <2> QED BY <2>1 DEF KeptInv, AloneIsAlone, OnPath, WroteIsThere,
          EvidenceHasDirectory, OwnDirectoryEmpty, TextIsDone, Active
<1>2. ASSUME NEW p \in Proc, Step(p) \/ Fault(p) \/ Die(p) PROVE KeptInv'
      BY <1>2, PrepareKept, CommandKept, CreateKept, CompleteKept, UndoKept,
         LaneStateKept, MishapKept, ClearStateKept
      DEF Step, Persist
<1> QED BY <1>1, <1>2 DEF Next

-----------------------------------------------------------------------------
(* What follows from it.                                                   *)

(* which says what the two properties about evidence claim,                *)
LEMMA KeptImplies == KeptInv => SuccessKeepsEvidence /\ StateHasEvidence
<1> SUFFICES ASSUME KeptInv PROVE SuccessKeepsEvidence /\ StateHasEvidence
    OBVIOUS
<1>1. ASSUME NEW p \in Smoke, pc[p] = "done" PROVE AllEvidenceBy(p)
  <2>1. p \in Proc /\ wrote[p] = Ref
        BY <1>1 DEF KeptInv, OnPath, Smoke
  <2> QED BY <2>1 DEF KeptInv, WroteIsThere, AllEvidenceBy
<1> QED BY <1>1 DEF SuccessKeepsEvidence, StateHasEvidence, KeptInv, TextIsDone

(* and holds of every behaviour.                                           *)
LEMMA AlwaysKept == Spec => []KeptInv
BY InitTyped, StepTyped, InitKept, StepKept, PTL DEF Spec

(* A smoke command that reported success owns all evidence for ever.       *)
THEOREM SuccessTheorem == Spec => []SuccessKeepsEvidence
BY AlwaysKept, KeptImplies, PTL

(* A recorded result stands beside the complete evidence of its command.   *)
THEOREM StateTheorem == Spec => []StateHasEvidence
BY AlwaysKept, KeptImplies, PTL

-----------------------------------------------------------------------------
(* One step of a process: a call it makes, a call that fails, its death. *)
Moves(p) == Step(p) \/ Fault(p) \/ Die(p)

(* Where a step may lead, as far as the invariants tell labels apart. *)
Course(from, to) ==
  /\ from \notin Settled /\ to # "idle"
  /\ \/ to = "dead"
     \/ from = "idle" /\ to = "look"
     \/ from \in Preparing /\ to \in Preparing \cup {"prepared", "unmake", "unprepared"}
     \/ from = "prepared" /\ to \in {"gate", "open"}
     \/ from = "gate" /\ to \in {"gate", "recheck"}
     \/ from = "recheck" /\ to \in {"recheck", "rejected", "note"}
     \/ from = "note" /\ to \in {"evidence", "rejected"}
     \/ from = "evidence" /\ to \in {"complete", "undo", "clear"}
     \/ from = "complete" /\ to \in {"evidence", "open", "undo", "clear"}
     \/ from = "open" /\ to \in {"verify", "undo", "clear"}
     \/ from = "verify" /\ to \in {"truncate", "undo", "clear"}
     \/ from = "truncate" /\ to \in {"write", "undo", "clear"}
     \/ from = "write" /\ to \in {"done", "undo", "clear"}
     \/ from = "undo" /\ to \in {"undo", "undoState", "failed"}
     \/ from = "undoState" /\ to = "failed"
     \/ from = "clear" /\ to = "clearState"
     \/ from = "clearState" /\ to = "failed"
     \/ from = "unmake" /\ to = "unprepared"

(* Every step is one of these calls, a failing call or a death.            *)
LEMMA Steps ==
  ASSUME NEW p \in Proc, Moves(p)
  PROVE  \/ Prepare(p) /\ UNCHANGED <<kept, notes>>
         \/ Start(p) \/ Prepared(p) \/ Gate(p) \/ Recheck(p) \/ NoteState(p)
         \/ CreateEvidence(p) \/ CompleteEvidence(p) \/ Undo(p) \/ UndoState(p)
         \/ OpenState(p) \/ VerifyState(p) \/ TruncateState(p) \/ WriteState(p)
         \/ Clear(p) \/ ClearState(p) \/ Fault(p) \/ Die(p)
BY DEF Moves, Step, Persist, WriteLaneState

(* Apart from failing and dying, a process at a label has one thing to do. *)
LEMMA ActionAt ==
  ASSUME NEW p \in Proc, Moves(p), ~Fault(p), ~Die(p)
  PROVE  /\ pc[p] = "idle" => Start(p)
         /\ pc[p] = "look" => Look(p) /\ UNCHANGED <<kept, notes>>
         /\ pc[p] = "make" => Make(p) /\ UNCHANGED <<kept, notes>>
         /\ pc[p] = "confirm" => Confirm(p) /\ UNCHANGED <<kept, notes>>
         /\ pc[p] = "mark" => OpenMarker(p) /\ UNCHANGED <<kept, notes>>
         /\ pc[p] = "fill" => FillMarker(p) /\ UNCHANGED <<kept, notes>>
         /\ pc[p] = "unmake" => Unmake(p) /\ UNCHANGED <<kept, notes>>
         /\ pc[p] = "prepared" => Prepared(p)
         /\ pc[p] = "gate" => Gate(p)
         /\ pc[p] = "recheck" => Recheck(p)
         /\ pc[p] = "note" => NoteState(p)
         /\ pc[p] = "evidence" => CreateEvidence(p)
         /\ pc[p] = "complete" => CompleteEvidence(p)
         /\ pc[p] = "undo" => Undo(p)
         /\ pc[p] = "undoState" => UndoState(p)
         /\ pc[p] = "open" => OpenState(p)
         /\ pc[p] = "verify" => VerifyState(p)
         /\ pc[p] = "truncate" => TruncateState(p)
         /\ pc[p] = "write" => WriteState(p)
         /\ pc[p] = "clear" => Clear(p)
         /\ pc[p] = "clearState" => ClearState(p)
BY Steps DEF Prepare, Look, Make, Confirm, OpenMarker, FillMarker, Unmake,
           Start, Prepared, Gate, Recheck, NoteState, CreateEvidence, CompleteEvidence,
           Undo, UndoState, OpenState, VerifyState, TruncateState, WriteState,
           Clear, ClearState

(* A step of one process leaves the notes of the others,                   *)
LEMMA Others ==
  ASSUME TypeOK, NEW p \in Proc, Moves(p)
  PROVE  /\ \A q \in Proc \ {p} :
              /\ pc'[q] = pc[q] /\ my'[q] = my[q]
              /\ wrote'[q] = wrote[q] /\ existed'[q] = existed[q]
         /\ hurt \subseteq hurt' /\ hurt' \subseteq hurt \cup {p}
         /\ Fault(p) => p \in hurt'
         /\ DOMAIN pc' = Proc
<1>1. /\ pc \in [Proc -> Labels] /\ my \in [Proc -> Local]
      /\ wrote \in [Proc -> SUBSET Ref] /\ existed \in [Proc -> BOOLEAN]
      BY DEF TypeOK, WorkspaceTypeOK
<1> USE DEF Go, kept, notes, lane
<1>2. CASE Prepare(p) /\ UNCHANGED <<kept, notes>>
      BY <1>1, <1>2 DEF Prepare, Look, Make, Confirm, OpenMarker, FillMarker, Unmake,
         PreparationError, Fault
<1>3. CASE Start(p) \/ Prepared(p) \/ Gate(p) \/ Recheck(p) \/ NoteState(p)
      BY <1>1, <1>3 DEF Start, Prepared, Gate, Recheck, NoteState, Probe, Fault
<1>4. CASE CreateEvidence(p) \/ CompleteEvidence(p) \/ Undo(p) \/ UndoState(p)
      BY <1>1, <1>4 DEF CreateEvidence, CompleteEvidence, Undo, UndoState, Fault
<1>5. CASE OpenState(p) \/ VerifyState(p) \/ TruncateState(p) \/ WriteState(p)
      BY <1>1, <1>5 DEF OpenState, VerifyState, TruncateState, WriteState, KeepingError, Fault
<1>6. CASE Clear(p) \/ ClearState(p)
      BY <1>1, <1>6 DEF Clear, ClearState, Fault
<1>7. CASE Fault(p) \/ Die(p)
      BY <1>1, <1>7 DEF Fault, Die, PreparationError, KeepingError
<1> QED BY <1>2, <1>3, <1>4, <1>5, <1>6, <1>7, Steps

(* and takes its own process along one of its courses.                     *)
LEMMA Courses ==
  ASSUME TypeOK, NEW p \in Proc, Moves(p)
  PROVE  Course(pc[p], pc'[p])
<1>1. pc \in [Proc -> Labels]
      BY DEF TypeOK
<1> USE DEF Go, Preparing, Settled, Course
<1>2. CASE Prepare(p)
      BY <1>1, <1>2 DEF Prepare, Look, Make, Confirm, OpenMarker, FillMarker, Unmake,
         PreparationError
<1>3. CASE Start(p) \/ Prepared(p) \/ Gate(p) \/ Recheck(p) \/ NoteState(p)
      BY <1>1, <1>3 DEF Start, Prepared, Gate, Recheck, NoteState
<1>4. CASE CreateEvidence(p) \/ CompleteEvidence(p) \/ Undo(p) \/ UndoState(p)
      BY <1>1, <1>4 DEF CreateEvidence, CompleteEvidence, Undo, UndoState
<1>5. CASE OpenState(p) \/ VerifyState(p) \/ TruncateState(p) \/ WriteState(p)
      BY <1>1, <1>5 DEF OpenState, VerifyState, TruncateState, WriteState, KeepingError
<1>6. CASE Clear(p) \/ ClearState(p)
      BY <1>1, <1>6 DEF Clear, ClearState
<1>7. CASE Fault(p)
      BY <1>1, <1>7 DEF Fault, PreparationError, KeepingError, Keeping, Writing
<1>8. CASE Die(p)
      BY <1>1, <1>8 DEF Die, Resting
<1> QED BY <1>2, <1>3, <1>4, <1>5, <1>6, <1>7, <1>8, Steps

-----------------------------------------------------------------------------
HurtCleansUp == \A p \in hurt : pc[p] \in Cleaning \cup Settled

EvidenceHasAuthor ==
  \A r \in Ref : evidence[r] # NoEvidence =>
    /\ evidence[r].by \in Smoke
    /\ pc[evidence[r].by] \notin Before
    /\ evidence[r].full => r \in wrote[evidence[r].by]

(* What a step does to a piece of evidence. *)
Creates(p, r) ==
  /\ pc[p] = "evidence" /\ pc'[p] = "complete" /\ r = my[p].at
  /\ evidence[r].by = NoProc /\ evidence'[r] = [by |-> p, full |-> FALSE]
Completes(p, r) ==
  /\ pc[p] = "complete" /\ r = my[p].at /\ r \in wrote'[p]
  /\ evidence[r].by = p /\ evidence'[r] = [by |-> p, full |-> TRUE]
TakesBack(p, r) ==
  /\ pc[p] = "undo" /\ pc'[p] = "undo" /\ r \in wrote[p] /\ r \notin wrote'[p]
  /\ evidence[r].by = p /\ evidence'[r] = NoEvidence

(* Evidence is created, completed or removed in these ways only.           *)
LEMMA EvidenceMoves ==
  ASSUME TypeOK, KeptInv, EvidenceHasAuthor, NEW p \in Proc, Moves(p), NEW r \in Ref
  PROVE  evidence'[r] = evidence[r] \/ Creates(p, r) \/ Completes(p, r) \/ TakesBack(p, r)
<1>1. /\ pc \in [Proc -> Labels] /\ my \in [Proc -> Local]
      /\ evidence \in [Ref -> Evidence] /\ wrote \in [Proc -> SUBSET Ref]
      /\ pc[p] \in {"evidence", "complete"} => my[p].at \in Ref
      BY DEF TypeOK, WorkspaceTypeOK
<1>2. CASE CreateEvidence(p)
      BY <1>1, <1>2 DEF CreateEvidence, Creates, Due, Go
<1>3. CASE CompleteEvidence(p)
  <2>1. /\ pc[p] = "complete" /\ my[p].at \in Ref
        /\ evidence' = [evidence EXCEPT ![my[p].at].full = TRUE]
        /\ wrote' = [wrote EXCEPT ![p] = @ \cup {my[p].at}]
        BY <1>1, <1>3 DEF CompleteEvidence, Due
  <2>2. p \in Smoke /\ evidence[my[p].at].by = p
        BY <2>1 DEF KeptInv, OnPath, Smoke
  <2>3. CASE r = my[p].at
    <3>1. r \in wrote'[p]
          BY <1>1, <2>1, <2>3
    <3>2. evidence'[r].by = p /\ evidence'[r].full = TRUE /\ evidence'[r] \in Evidence
          BY <1>1, <2>1, <2>2, <2>3 DEF Evidence
    <3>3. evidence'[r] = [by |-> p, full |-> TRUE]
          BY <3>2 DEF Evidence
    <3> QED BY <2>1, <2>2, <2>3, <3>1, <3>3 DEF Completes
  <2> QED BY <1>1, <2>1, <2>3
<1>4. CASE Undo(p)
  <2>1. CASE wrote[p] = {}
        BY <1>4, <2>1 DEF Undo
  <2>2. CASE wrote[p] # {}
    <3>1. PICK s \in wrote[p] : /\ evidence' = [evidence EXCEPT ![s] = NoEvidence]
                                /\ wrote' = [wrote EXCEPT ![p] = @ \ {s}]
                                /\ pc' = pc /\ pc[p] = "undo"
          BY <1>4, <2>2 DEF Undo
    <3>2. evidence[s].by = p /\ s \in Ref
      <4>1. evidence[s] = [by |-> p, full |-> TRUE]
            BY DEF KeptInv, WroteIsThere
      <4> QED BY <1>1, <4>1
    <3> QED BY <1>1, <3>1, <3>2 DEF TakesBack
  <2> QED BY <2>1, <2>2
<1>5. CASE ClearState(p)
  <2>1. p \in Skeleton /\ Active(p)
        BY <1>5 DEF ClearState, KeptInv, OnPath, Smoke, Active, Resting, Settled
  <2>2. CASE "stateLane" \in my[p].created
    <3>1. evidence[r].by = NoProc
          BY <2>1, <2>2 DEF KeptInv, OwnDirectoryEmpty
    <3>2. evidence[r] = NoEvidence
          BY <3>1, WorkspaceAssumption DEF EvidenceHasAuthor, Smoke
    <3> QED BY <1>5, <2>2, <3>2 DEF ClearState
  <2> QED BY <1>5, <2>2 DEF ClearState
<1>6. CASE Prepare(p) /\ UNCHANGED <<kept, notes>>
      BY <1>6 DEF kept
<1>7. CASE \/ Start(p) \/ Prepared(p) \/ Gate(p) \/ Recheck(p) \/ NoteState(p)
           \/ UndoState(p) \/ OpenState(p) \/ VerifyState(p) \/ TruncateState(p)
           \/ WriteState(p) \/ Clear(p) \/ Fault(p) \/ Die(p)
      BY <1>7 DEF Start, Prepared, Gate, Recheck, NoteState, UndoState, OpenState, VerifyState,
         TruncateState, WriteState, Clear, Fault, Die, kept
<1> QED BY <1>2, <1>3, <1>4, <1>5, <1>6, <1>7, Steps

(* What a process notes about its evidence changes with it. *)
LEMMA WroteMoves ==
  ASSUME TypeOK, NEW p \in Proc, Moves(p)
  PROVE  \/ wrote'[p] = wrote[p]
         \/ pc[p] = "complete" /\ wrote'[p] = wrote[p] \cup {my[p].at}
         \/ /\ pc[p] = "undo" /\ pc'[p] = "undo"
            /\ \E r \in Ref : wrote'[p] = wrote[p] \ {r} /\ evidence'[r] = NoEvidence
<1>1. wrote \in [Proc -> SUBSET Ref] /\ evidence \in [Ref -> Evidence]
      BY DEF TypeOK
<1>2. CASE Prepare(p) /\ UNCHANGED <<kept, notes>>
      BY <1>2 DEF notes
<1>3. CASE CompleteEvidence(p)
      BY <1>1, <1>3 DEF CompleteEvidence, Due
<1>4. CASE Undo(p)
      BY <1>1, <1>4 DEF Undo
<1>5. CASE \/ Start(p) \/ Prepared(p) \/ Gate(p) \/ Recheck(p) \/ NoteState(p)
           \/ UndoState(p) \/ OpenState(p) \/ VerifyState(p) \/ TruncateState(p)
           \/ WriteState(p) \/ Clear(p) \/ Fault(p) \/ Die(p) \/ CreateEvidence(p)
           \/ ClearState(p)
      BY <1>5 DEF Start, Prepared, Gate, Recheck, NoteState, UndoState, OpenState, VerifyState,
         TruncateState, WriteState, Clear, Fault, Die, notes, CreateEvidence, ClearState
<1> QED BY <1>2, <1>3, <1>4, <1>5, Steps

(* Who changes the lane run state. *)
LEMMA LaneStateMoves ==
  ASSUME TypeOK, NEW p \in Proc, Moves(p)
  PROVE  \/ laneState' = laneState
         \/ pc[p] = "open" /\ laneState.file = NoProc /\ laneState' = [file |-> p, text |-> NoProc]
         \/ /\ pc[p] \in {"truncate", "write"} /\ laneState.file = my[p].into
            /\ laneState'.file = laneState.file
            /\ laneState'.text \in {NoProc, p}
            /\ laneState'.text = p => pc'[p] = "done"
         \/ pc[p] = "undoState" /\ laneState' = NoState
<1>1. laneState \in LaneState /\ pc \in [Proc -> Labels]
      BY DEF TypeOK
<1>2. CASE Prepare(p) /\ UNCHANGED <<kept, notes>>
      BY <1>2 DEF kept
<1>3. CASE OpenState(p) \/ UndoState(p)
      BY <1>3 DEF OpenState, UndoState
<1>4. CASE TruncateState(p) \/ WriteState(p)
      BY <1>1, <1>4, WorkspaceAssumption DEF TruncateState, WriteState, SetText, Go, LaneState
<1>5. CASE \/ Start(p) \/ Prepared(p) \/ Gate(p) \/ Recheck(p) \/ NoteState(p)
           \/ CreateEvidence(p) \/ CompleteEvidence(p) \/ Undo(p) \/ VerifyState(p)
           \/ Clear(p) \/ ClearState(p) \/ Fault(p) \/ Die(p)
      BY <1>5 DEF Start, Prepared, Gate, Recheck, NoteState, Undo, VerifyState,
         CompleteEvidence, Clear, Fault, Die, kept, CreateEvidence, ClearState
<1> QED BY <1>2, <1>3, <1>4, <1>5, Steps

(* Who makes and removes directories, and that makers know. *)
LEMMA DirMoves ==
  ASSUME TypeOK, NEW p \in Proc, Moves(p)
  PROVE  /\ \A f \in PathName :
              \/ dir'[f] = dir[f]
              \/ /\ pc[p] = "make" /\ dir[f] = NoProc /\ dir'[f] = p
                 /\ f = Path[my[p].at] /\ f \in my'[p].created
              \/ pc[p] \in {"unmake", "clear", "clearState"} /\ dir'[f] = NoProc
         /\ my[p].created \subseteq my'[p].created
<1>1. /\ dir \in [PathName -> Proc \cup {NoProc}] /\ my \in [Proc -> Local]
      /\ pc[p] \in {"look", "make", "confirm"} => my[p].at \in 1..4
      BY DEF TypeOK, WorkspaceTypeOK, InSeries
<1> USE DEF lane
<1>2. CASE Make(p)
      BY <1>1, <1>2 DEF Make, Local
<1>3. CASE Look(p) \/ Confirm(p) \/ OpenMarker(p) \/ FillMarker(p)
      BY <1>1, <1>3 DEF Look, Confirm, OpenMarker, FillMarker, Local
<1>4. CASE Unmake(p)
      BY <1>1, <1>4 DEF Unmake, Remove
<1>5. CASE Clear(p) \/ ClearState(p)
      BY <1>1, <1>5 DEF Clear, ClearState, Remove
<1>6. CASE Start(p) \/ Prepared(p) \/ Gate(p) \/ Recheck(p) \/ NoteState(p)
      BY <1>1, <1>6 DEF Start, Prepared, Gate, Recheck, NoteState, Probe, Local
<1>7. CASE CreateEvidence(p) \/ CompleteEvidence(p) \/ Undo(p) \/ UndoState(p)
      BY <1>1, <1>7 DEF CreateEvidence, CompleteEvidence, Undo, UndoState, Local
<1>8. CASE OpenState(p) \/ VerifyState(p) \/ TruncateState(p) \/ WriteState(p)
      BY <1>1, <1>8 DEF OpenState, VerifyState, TruncateState, WriteState, Local
<1>9. CASE Fault(p) \/ Die(p)
      BY <1>1, <1>9 DEF Fault, Die
<1> QED BY <1>2, <1>3, <1>4, <1>5, <1>6, <1>7, <1>8, <1>9, Steps DEF Prepare

-----------------------------------------------------------------------------
(* What a process has noted for itself agrees with what it has done. *)
Notes(p) ==
  /\ pc[p] = "idle" => my[p] = Fresh
  /\ pc[p] \in {"unmake", "unprepared", "rejected", "undoState", "failed"} => wrote[p] = {}
  /\ p \in Skeleton => wrote[p] = {}
  /\ pc[p] \in {"verify", "truncate", "write"} => my[p].into # NoProc
  /\ pc[p] = "undoState" => ~existed[p]
  /\ p \notin hurt /\ pc[p] \notin {"complete", "dead"} =>
       \A r \in Ref : evidence[r].by = p => r \in wrote[p]
  /\ pc[p] = "complete" =>
       \A r \in Ref : evidence[r].by = p => r \in wrote[p] \cup {my[p].at}

StateHasFile == laneState.file = NoProc => laneState.text = NoProc

DirectoryHasMaker == \A f \in PathName : \A p \in Proc : dir[f] = p => f \in my[p].created

(* What clean-up has removed. *)
Unmade(p) ==
  /\ pc[p] = "unprepared" /\ my[p].at >= 3 => dir["workspaceLane"] # p
  /\ pc[p] = "clearState" => dir["workspaceLane"] # p
  /\ pc[p] = "failed" /\ p \in Skeleton => dir["workspaceLane"] # p /\ dir["stateLane"] # p

Accounts ==
  /\ HurtCleansUp
  /\ EvidenceHasAuthor
  /\ \A p \in Proc : Notes(p)
  /\ StateHasFile
  /\ DirectoryHasMaker
  /\ \A p \in Proc : Unmade(p)

(* Accounts are true at first,                                             *)
LEMMA InitAccounts == Init => Accounts
<1> SUFFICES ASSUME Init PROVE Accounts
    OBVIOUS
<1>1. /\ \A p \in Proc : pc[p] = "idle" /\ my[p] = Fresh /\ wrote[p] = {}
      /\ \A r \in Ref : evidence[r] = NoEvidence
      /\ \A f \in PathName : dir[f] = NoProc
      /\ hurt = {} /\ laneState = NoState
      BY DEF Init, WorkspaceInit
<1>2. \A p \in Proc : p # NoProc
      BY WorkspaceAssumption
<1>3. \A p \in Proc : Notes(p)
  <2>1. \A r \in Ref : evidence[r].by = NoProc
        BY <1>1 DEF NoEvidence
  <2> QED BY <1>1, <1>2, <2>1 DEF Notes
<1>4. \A p \in Proc : Unmade(p)
      BY <1>1 DEF Unmade
<1> QED BY <1>1, <1>2, <1>3, <1>4
        DEF Accounts, HurtCleansUp, EvidenceHasAuthor, StateHasFile, DirectoryHasMaker, NoState

(* and stay so when nothing happens.                                       *)
LEMMA AccountsUnchanged == Accounts /\ UNCHANGED vars => Accounts'
BY DEF vars, Accounts, HurtCleansUp, EvidenceHasAuthor, Notes, StateHasFile,
   DirectoryHasMaker, Unmade

(* A process that met a failing call keeps to its clean-up.                *)
LEMMA HurtKept ==
  ASSUME TypeOK, Accounts, NEW p \in Proc, Moves(p) PROVE HurtCleansUp'
<1>1. Fault(p) => pc'[p] \in Cleaning \cup Settled
      BY DEF Fault, PreparationError, KeepingError, Go, TypeOK, Cleaning, Settled
<1>2. pc[p] \in Cleaning => pc'[p] \in Cleaning \cup Settled
      BY Courses DEF Course, Cleaning, Settled, Preparing
<1>3. ~Fault(p) => hurt' = hurt
      BY Steps DEF Start, Prepared, Gate, Recheck, NoteState, UndoState, OpenState, VerifyState,
         TruncateState, WriteState, Clear, Die, notes, CreateEvidence, ClearState, Undo, CompleteEvidence
<1>4. pc[p] \notin Settled
      BY Courses DEF Course
<1> QED BY <1>1, <1>2, <1>3, <1>4, Others DEF Accounts, HurtCleansUp, TypeOK

(* Evidence has the process that created it.                               *)
LEMMA AuthorKept ==
  ASSUME TypeOK, KeptInv, Accounts, NEW p \in Proc, Moves(p) PROVE EvidenceHasAuthor'
<1> SUFFICES ASSUME NEW r \in Ref, evidence'[r] # NoEvidence
             PROVE  /\ evidence'[r].by \in Smoke
                    /\ pc'[evidence'[r].by] \notin Before
                    /\ evidence'[r].full => r \in wrote'[evidence'[r].by]
    BY DEF EvidenceHasAuthor
<1>1. CASE evidence'[r] = evidence[r]
  <2> DEFINE q == evidence[r].by
  <2>1. q \in Smoke /\ pc[q] \notin Before /\ (evidence[r].full => r \in wrote[q])
        BY <1>1 DEF Accounts, EvidenceHasAuthor
  <2>2. CASE q # p
        BY <1>1, <2>1, <2>2, Others DEF Smoke
  <2>3. CASE q = p
    <3>1. pc'[p] \notin Before
          BY <2>1, <2>3, Courses DEF Course, Before, Preparing, Settled
    <3>2. r \in wrote[p] => r \in wrote'[p]
          BY WroteMoves
    <3> QED BY <1>1, <2>1, <2>3, <3>1, <3>2
  <2> QED BY <2>2, <2>3
<1>2. CASE Creates(p, r)
  <2>1. p \in Smoke
        BY <1>2 DEF Creates, KeptInv, OnPath, Smoke
  <2> QED BY <1>2, <2>1 DEF Creates, Before, Preparing
<1>3. CASE Completes(p, r)
  <2>1. p \in Smoke
        BY <1>3 DEF Completes, KeptInv, OnPath, Smoke
  <2>2. pc'[p] \notin Before
        BY <1>3, Courses DEF Completes, Course, Before, Preparing, Settled
  <2> QED BY <1>3, <2>1, <2>2 DEF Completes
<1>4. CASE TakesBack(p, r)
      BY <1>4 DEF TakesBack
<1> QED BY <1>1, <1>2, <1>3, <1>4, EvidenceMoves DEF Accounts

(* A process's own account changes with what it does. *)
LEMMA NotesKept ==
  ASSUME TypeOK, KeptInv, Accounts, NEW p \in Proc, Moves(p) PROVE \A q \in Proc : Notes(q)'
<1>1. ASSUME NEW q \in Proc, q # p PROVE Notes(q)'
  <2>1. \A r \in Ref : evidence'[r].by = q => evidence[r].by = q
    <3>1. SUFFICES ASSUME NEW r \in Ref, evidence'[r].by = q PROVE evidence[r].by = q
          OBVIOUS
    <3>2. NoEvidence.by # q
          BY WorkspaceAssumption DEF NoEvidence
    <3>3. ~Creates(p, r) /\ ~Completes(p, r) /\ ~TakesBack(p, r)
          BY <1>1, <3>1, <3>2 DEF Creates, Completes, TakesBack
    <3> QED BY <3>1, <3>3, EvidenceMoves DEF Accounts
  <2>2. q \in hurt' <=> q \in hurt
        BY <1>1, Others
  <2> QED BY <1>1, <2>1, <2>2, Others DEF Accounts, Notes
<1>2. Course(pc[p], pc'[p]) /\ OnPath(p) /\ Notes(p) /\ HurtCleansUp
      BY Courses DEF KeptInv, Accounts
<1>3. pc'[p] # "idle"
      BY <1>2 DEF Course
<1>4. p \in Skeleton => wrote'[p] = {}
      BY <1>2, WroteMoves DEF OnPath, Notes
<1>5. pc'[p] \in {"unmake", "unprepared", "rejected", "undoState", "failed"} => wrote'[p] = {}
  <2>1. SUFFICES ASSUME pc'[p] \in {"unmake", "unprepared", "rejected", "undoState", "failed"},
                        p \in Smoke
                 PROVE  wrote'[p] = {}
        BY <1>4 DEF Smoke
  <2>2. wrote'[p] = wrote[p]
        BY <1>2, <2>1, WroteMoves DEF Course, Preparing
  <2>3. pc[p] \in Before \cup {"unmake", "undoState"} \/ pc[p] = "undo"
        BY <1>2, <2>1 DEF Course, Before, Preparing, OnPath
  <2>4. CASE pc[p] = "undo"
    <3>1. ~Fault(p) /\ ~Die(p)
          BY <2>1, <2>4 DEF Fault, Die, Go, Preparing, Keeping, Writing, TypeOK
    <3>2. Undo(p)
          BY <2>4, <3>1, ActionAt
    <3> QED BY <2>1, <2>2, <2>4, <3>2 DEF Undo
  <2> QED BY <1>2, <2>1, <2>2, <2>3, <2>4 DEF OnPath, Notes
<1>6. pc'[p] \in {"verify", "truncate", "write"} => my'[p].into # NoProc
  <2>1. SUFFICES ASSUME pc'[p] \in {"verify", "truncate", "write"} PROVE my'[p].into # NoProc
        OBVIOUS
  <2>2. pc[p] \in {"open", "verify", "truncate"} /\ ~Fault(p) /\ ~Die(p)
    <3>1. pc[p] \in {"open", "verify", "truncate"}
          BY <1>2, <2>1 DEF Course, Preparing
    <3> QED BY <2>1, <3>1 DEF Fault, Die, KeepingError, Go, Preparing, TypeOK
  <2>3. CASE pc[p] = "open"
    <3>1. OpenState(p)
          BY <2>2, <2>3, ActionAt
    <3> QED BY <3>1, WorkspaceAssumption DEF OpenState, TypeOK, WorkspaceTypeOK, Local
  <2>4. CASE pc[p] \in {"verify", "truncate"}
    <3>1. my' = my
          BY <2>2, <2>4, ActionAt DEF VerifyState, TruncateState
    <3> QED BY <1>2, <2>4, <3>1 DEF Notes
  <2> QED BY <2>2, <2>3, <2>4
<1>7. pc'[p] = "undoState" => ~existed'[p]
  <2>1. SUFFICES ASSUME pc'[p] = "undoState" PROVE ~existed'[p]
        OBVIOUS
  <2>2. pc[p] = "undo"
        BY <1>2, <2>1 DEF Course, Preparing
  <2>3. ~Fault(p) /\ ~Die(p)
        BY <2>1, <2>2 DEF Fault, Die, Go, Preparing, Keeping, Writing, TypeOK
  <2>4. Undo(p)
        BY <2>2, <2>3, ActionAt
  <2> QED BY <2>1, <2>2, <2>4 DEF Undo, Go, TypeOK
<1>8. ASSUME NEW r \in Ref, evidence'[r].by = p, r \in wrote[p] PROVE r \in wrote'[p]
  <2>1. NoEvidence.by # p
        BY WorkspaceAssumption DEF NoEvidence
  <2> QED BY <1>8, <2>1, WroteMoves
<1>9. ASSUME p \notin hurt', pc'[p] \notin {"complete", "dead"},
             NEW r \in Ref, evidence'[r].by = p
      PROVE  r \in wrote'[p]
  <2>1. p \notin hurt /\ pc[p] # "dead"
        BY <1>2, <1>9, Others DEF Course, Settled
  <2>2. CASE evidence'[r] = evidence[r]
    <3>1. pc[p] # "complete" => r \in wrote[p]
          BY <1>2, <1>9, <2>1, <2>2 DEF Notes
    <3>2. ASSUME pc[p] = "complete" PROVE r \in wrote'[p]
      <4>1. ~Fault(p) /\ ~Die(p)
            BY <1>9, <3>2, Others DEF Die, Go, TypeOK
      <4>2. CompleteEvidence(p)
            BY <3>2, <4>1, ActionAt
      <4>3. wrote'[p] = wrote[p] \cup {my[p].at}
            BY <4>2 DEF CompleteEvidence, Due, TypeOK
      <4> QED BY <1>2, <1>9, <2>2, <3>2, <4>3 DEF Notes
    <3> QED BY <1>8, <1>9, <3>1, <3>2
  <2>3. NoEvidence.by # p
        BY WorkspaceAssumption DEF NoEvidence
  <2> QED BY <1>9, <2>2, <2>3, EvidenceMoves DEF Accounts, Creates, Completes, TakesBack
<1>10. ASSUME pc'[p] = "complete", NEW r \in Ref, evidence'[r].by = p
       PROVE  r \in wrote'[p] \cup {my'[p].at}
  <2>1. pc[p] = "evidence"
        BY <1>2, <1>10 DEF Course, Preparing
  <2>2. p \notin hurt
        BY <1>2, <2>1 DEF HurtCleansUp, Cleaning, Settled
  <2>3. ~Fault(p) /\ ~Die(p)
        BY <1>10, <2>1 DEF Fault, Die, KeepingError, Go, Preparing, TypeOK
  <2>4. my' = my /\ wrote' = wrote
        BY <2>1, <2>3, ActionAt DEF CreateEvidence, notes
  <2>5. evidence[r].by = p => r \in wrote[p]
        BY <1>2, <2>1, <2>2 DEF Notes
  <2>6. NoEvidence.by # p
        BY WorkspaceAssumption DEF NoEvidence
  <2> QED BY <1>10, <2>1, <2>4, <2>5, <2>6, EvidenceMoves
          DEF Accounts, Creates, Completes, TakesBack
<1>11. Notes(p)'
       BY <1>3, <1>4, <1>5, <1>6, <1>7, <1>9, <1>10 DEF Notes
<1> QED BY <1>1, <1>11

(* Files and directories have their makers.                                *)
LEMMA FilesKept ==
  ASSUME TypeOK, KeptInv, Accounts, NEW p \in Proc, Moves(p)
  PROVE  StateHasFile' /\ DirectoryHasMaker'
<1>1. StateHasFile'
  <2>1. pc[p] \in {"truncate", "write"} => my[p].into # NoProc
        BY DEF Accounts, Notes
  <2> QED BY <2>1, LaneStateMoves, WorkspaceAssumption DEF Accounts, StateHasFile, NoState
<1>2. DirectoryHasMaker'
  <2>1. SUFFICES ASSUME NEW f \in PathName, NEW q \in Proc, dir'[f] = q
                 PROVE  f \in my'[q].created
        BY DEF DirectoryHasMaker
  <2>2. q # NoProc
        BY WorkspaceAssumption
  <2>3. CASE dir'[f] = dir[f]
    <3>1. f \in my[q].created
          BY <2>1, <2>3 DEF Accounts, DirectoryHasMaker
    <3> QED BY <3>1, Others, DirMoves
  <2> QED BY <2>1, <2>2, <2>3, DirMoves
<1> QED BY <1>1, <1>2

(* What clean-up has removed stays removed.                                *)
LEMMA UnmadeKept ==
  ASSUME TypeOK, KeptInv, Accounts, NEW p \in Proc, Moves(p) PROVE \A q \in Proc : Unmade(q)'
<1>1. {"workspaceLane", "stateLane"} \subseteq PathName
      BY DEF PathName
<1>2. ASSUME NEW q \in Proc, q # p PROVE Unmade(q)'
  <2>1. \A f \in PathName : dir[f] # q => dir'[f] # q
        BY <1>2, DirMoves, WorkspaceAssumption
  <2> QED BY <1>1, <1>2, <2>1, Others DEF Accounts, Unmade
<1>3. /\ Course(pc[p], pc'[p]) /\ OnPath(p) /\ Unmade(p) /\ DirectoryHasMaker
      /\ pc \in [Proc -> Labels] /\ my \in [Proc -> Local]
      /\ dir \in [PathName -> Proc \cup {NoProc}]
      BY Courses DEF KeptInv, Accounts, TypeOK, WorkspaceTypeOK
<1>4. ASSUME pc'[p] = "unprepared", my'[p].at >= 3 PROVE dir'["workspaceLane"] # p
  <2>1. pc[p] \in Preparing \cup {"unmake"}
        BY <1>3, <1>4 DEF Course, Preparing
  <2>2. ~Die(p)
        BY <1>3, <1>4 DEF Die, Go
  <2>3. CASE pc[p] = "unmake"
    <3>1. Unmake(p)
          BY <2>2, <2>3, ActionAt DEF Fault, Preparing, Keeping, Writing
    <3> QED BY <1>1, <1>3, <3>1, WorkspaceAssumption DEF Unmake, Remove
  <2>4. CASE pc[p] \in Preparing
    <3>1. PreparationError(p) /\ my' = my /\ dir' = dir
      <4>1. CASE Fault(p)
            BY <2>4, <4>1 DEF Fault, lane
      <4>2. CASE ~Fault(p)
        <5>1. Look(p) \/ Make(p) \/ Confirm(p) \/ OpenMarker(p) \/ FillMarker(p)
              BY <2>2, <2>4, <4>2, ActionAt DEF Preparing
        <5> QED BY <1>3, <1>4, <5>1 DEF Look, Make, Confirm, OpenMarker, FillMarker, Go
      <4> QED BY <4>1, <4>2
    <3>2. "workspaceLane" \notin my[p].created
          BY <1>3, <1>4, <3>1 DEF PreparationError, Go
    <3> QED BY <1>1, <1>3, <3>1, <3>2 DEF DirectoryHasMaker
  <2> QED BY <2>1, <2>3, <2>4
<1>5. ASSUME pc'[p] = "clearState" PROVE dir'["workspaceLane"] # p
  <2>1. pc[p] = "clear"
        BY <1>3, <1>5 DEF Course, Preparing
  <2>2. Clear(p)
        BY <1>3, <1>5, <2>1, ActionAt DEF Fault, Die, Go, Preparing, Keeping, Writing
  <2> QED BY <1>1, <1>3, <2>2, WorkspaceAssumption DEF Clear, Remove, DirectoryHasMaker, lane
<1>6. ASSUME pc'[p] = "failed", p \in Skeleton
      PROVE  dir'["workspaceLane"] # p /\ dir'["stateLane"] # p
  <2>1. pc[p] = "clearState"
        BY <1>3, <1>6 DEF Course, OnPath, Preparing
  <2>2. ClearState(p)
        BY <1>3, <1>6, <2>1, ActionAt DEF Fault, Die, Go, Preparing, Keeping, Writing
  <2>3. dir["workspaceLane"] # p
        BY <1>3, <2>1 DEF Unmade
  <2> QED BY <1>1, <1>3, <2>2, <2>3, WorkspaceAssumption
          DEF ClearState, Remove, DirectoryHasMaker, lane
<1>7. Unmade(p)'
      BY <1>4, <1>5, <1>6 DEF Unmade
<1> QED BY <1>2, <1>7

(* Every step keeps the accounts.                                          *)
LEMMA StepAccounts == TypeOK /\ KeptInv /\ Accounts /\ [Next]_vars => Accounts'
<1> SUFFICES ASSUME TypeOK, KeptInv, Accounts, [Next]_vars PROVE Accounts'
    OBVIOUS
<1>1. ASSUME NEW p \in Proc, Moves(p) PROVE Accounts'
      BY <1>1, HurtKept, AuthorKept, NotesKept, FilesKept, UnmadeKept DEF Accounts
<1>2. CASE UNCHANGED vars
      BY <1>2, AccountsUnchanged
<1> QED BY <1>1, <1>2 DEF Next, Moves

-----------------------------------------------------------------------------
(* Commands that no other overlaps. *)

(* Evidence that an earlier command has left stops a command. *)
Explained(r) == evidence[r].full => pc[evidence[r].by] \in {"done", "dead"}

Taken(p) ==
  \E r \in Ref : /\ evidence[r].by \notin {NoProc, p}
                 /\ pc[evidence[r].by] \in Settled
                 /\ Explained(r)

(* How far a command has brought the lane. *)
Progress(p) ==
  /\ pc[p] \in {"look", "make", "confirm"} =>
       \A i \in 1..4 : i < my[p].at => dir[Path[i]] # NoProc
  /\ pc[p] = "make" => dir[Path[my[p].at]] = NoProc
  /\ pc[p] = "confirm" => dir[Path[my[p].at]] # NoProc
  /\ pc[p] \in {"mark", "fill", "prepared", "gate", "recheck", "note", "evidence", "complete"} =>
       \A f \in PathName : dir[f] # NoProc
  /\ pc[p] = "fill" => my[p].into = dir[Marked(p)]
  /\ pc[p] \in {"mark", "fill"} /\ my[p].at = 6 => marker["workspaceLane"] = "full"
  /\ pc[p] \in {"prepared", "gate", "recheck"} => \A l \in LaneName : marker[l] = "full"
  /\ pc[p] = "verify" => laneState.file = my[p].into

Undisturbed(p) ==
  /\ ~my[p].issue /\ ~my[p].blocked
  /\ pc[p] \notin {"unmake", "unprepared", "rejected", "clear", "clearState"}
  /\ p \in Skeleton => pc[p] # "failed"
  /\ pc[p] \in {"undo", "undoState", "failed"} => Taken(p)
  /\ Active(p) => Progress(p)

LoneInv == \A p \in Alone \ hurt : Undisturbed(p)

(* Nobody else moves while a process is alone. *)
LEMMA LoneMover ==
  ASSUME TypeOK, KeptInv, NEW p \in Proc, Moves(p), NEW q \in Alone, Active(q)
  PROVE  p = q
<1>1. q \in Proc
      BY WorkspaceAssumption
<1>2. CASE pc[p] \in Resting
  <2>1. Start(p)
    <3>1. pc[p] = "idle"
          BY <1>2, Courses DEF Course, Resting
    <3>2. ~Fault(p) /\ ~Die(p)
          BY <3>1 DEF Fault, Die, Preparing, Keeping, Writing, Resting
    <3> QED BY <3>1, <3>2, ActionAt
  <2> QED BY <2>1 DEF Start, Active
<1>3. CASE pc[p] \notin Resting
      BY <1>1, <1>3 DEF KeptInv, AloneIsAlone
<1> QED BY <1>2, <1>3

(* What stops a command stays. *)
LEMMA TakenStays ==
  ASSUME TypeOK, KeptInv, Accounts, NEW p \in Proc, Moves(p), NEW q \in Proc, Taken(q)
  PROVE  Taken(q)'
<1>1. PICK r \in Ref : /\ evidence[r].by \notin {NoProc, q}
                      /\ pc[evidence[r].by] \in Settled
                      /\ Explained(r)
      BY DEF Taken
<1>2. PICK o \in Proc : o = evidence[r].by /\ pc[o] \in Settled
  <2>1. evidence[r] \in Evidence
        BY DEF TypeOK
  <2>2. evidence[r].by \in Proc
        BY <1>1, <2>1 DEF Evidence
  <2> QED BY <1>1, <2>2
<1>3. o # p
      BY <1>2, Courses DEF Course
<1>4. evidence'[r] = evidence[r]
  <2>1. ~Creates(p, r) /\ ~Completes(p, r) /\ ~TakesBack(p, r)
        BY <1>2, <1>3, WorkspaceAssumption DEF Creates, Completes, TakesBack
  <2> QED BY <2>1, EvidenceMoves DEF Accounts
<1>5. pc'[o] = pc[o]
      BY <1>3, Others
<1>6. Explained(r)'
      BY <1>1, <1>2, <1>4, <1>5 DEF Explained
<1> QED BY <1>1, <1>2, <1>4, <1>5, <1>6 DEF Taken

(* A command finds evidence in its way only if an earlier one has left it. *)
LEMMA StoppedByEarlier ==
  ASSUME TypeOK, KeptInv, Accounts, NEW p \in Alone, p \notin hurt, pc[p] = "evidence",
         evidence[my[p].at].by # NoProc
  PROVE  Taken(p)
<1> DEFINE r == my[p].at
           o == evidence[r].by
<1>1. p \in Proc /\ p \in Smoke /\ r \in Ref /\ r \in Nat /\ wrote[p] = 1..(r - 1)
      BY WorkspaceAssumption DEF TypeOK, WorkspaceTypeOK, Local, KeptInv, OnPath, Smoke
<1>2. r \notin 1..(r - 1)
      BY <1>1
<1>3. o # p
      BY <1>1, <1>2 DEF Accounts, Notes
<1>4. o \in Smoke /\ o \in Proc /\ pc[o] \notin Before /\ (evidence[r].full => r \in wrote[o])
      BY <1>1, WorkspaceAssumption DEF Accounts, EvidenceHasAuthor, NoEvidence, Smoke
<1>5. pc[o] \in Resting
      BY <1>1, <1>3, <1>4 DEF KeptInv, AloneIsAlone, Active, Resting, Settled
<1>6. pc[o] \in Settled
      BY <1>4, <1>5 DEF Resting, Before
<1>7. pc[o] \in {"unprepared", "rejected", "failed"} => wrote[o] = {}
      BY <1>4 DEF Accounts, Notes
<1>8. Explained(r)
      BY <1>4, <1>6, <1>7 DEF Explained, Settled
<1> QED BY <1>1, <1>3, <1>4, <1>6, <1>8 DEF Taken

(* Every path is prepared at some position.                                *)
LEMMA PathIsPathName == \A f \in PathName : \E i \in 1..4 : Path[i] = f
<1>1. Path[1] = "workspaceRuns" /\ Path[2] = "workspaceLane"
      /\ Path[3] = "stateRuns" /\ Path[4] = "stateLane"
      BY DEF Path
<1> QED BY <1>1 DEF PathName

(* Nothing goes wrong while a lone process prepares its lane,              *)
LEMMA LonePrepareKept ==
  ASSUME TypeOK, NEW p \in Proc, Undisturbed(p), Prepare(p)
  PROVE  Undisturbed(p)'
<1>1. /\ my \in [Proc -> Local] /\ pc \in [Proc -> Labels]
      /\ dir \in [PathName -> Proc \cup {NoProc}]
      /\ marker \in [LaneName -> {"none", "empty", "full"}]
      /\ pc[p] \in {"look", "make", "confirm"} => my[p].at \in 1..4
      /\ pc[p] \in {"mark", "fill"} => my[p].at \in 5..6
      BY DEF TypeOK, WorkspaceTypeOK, InSeries
<1>2. pc[p] \in Preparing
      BY DEF Prepare, Look, Make, Confirm, OpenMarker, FillMarker, Unmake, Undisturbed, Preparing
<1>3. Progress(p) /\ ~my[p].issue /\ ~my[p].blocked
      BY <1>2 DEF Undisturbed, Active, Preparing, Resting, Settled
<1>4. ASSUME ~my'[p].issue, ~my'[p].blocked, Progress(p)',
             pc'[p] \in Preparing \cup {"prepared"}
      PROVE  Undisturbed(p)'
      BY <1>4 DEF Undisturbed, Preparing
<1>5. CASE Look(p)
  <2>1. /\ pc'[p] \in {"make", "confirm"} /\ my' = my /\ dir' = dir
        /\ pc'[p] = "make" <=> dir[Path[my[p].at]] = NoProc
        BY <1>1, <1>5 DEF Look, Go
  <2>2. Progress(p)'
        BY <1>1, <1>3, <1>5, <2>1 DEF Progress, Look
  <2> QED BY <1>3, <1>4, <2>1, <2>2 DEF Preparing
<1>6. CASE Make(p)
  <2> DEFINE path == Path[my[p].at]
  <2>1. my[p].at \in 1..4 /\ path \in PathName
        BY <1>1, <1>6, PathNames DEF Make
  <2>2. dir[path] = NoProc
        BY <1>3, <1>6 DEF Make, Progress
  <2>3. /\ dir' = [dir EXCEPT ![path] = p]
        /\ my' = [my EXCEPT ![p].created = @ \cup {path}]
        /\ pc'[p] = "confirm"
        BY <1>1, <1>6, <2>2 DEF Make, Go
  <2>4. my'[p].at = my[p].at /\ my'[p].issue = my[p].issue /\ my'[p].blocked = my[p].blocked
        BY <1>1, <2>3 DEF Local
  <2>5. \A f \in PathName : dir[f] # NoProc => dir'[f] # NoProc
        BY <1>1, <2>3, WorkspaceAssumption
  <2>6. dir'[path] # NoProc
        BY <1>1, <2>1, <2>3, WorkspaceAssumption
  <2>7. \A i \in 1..4 : i < my[p].at => dir[Path[i]] # NoProc
        BY <1>3, <1>6 DEF Make, Progress
  <2>8. \A i \in 1..4 : i < my[p].at => dir'[Path[i]] # NoProc
        BY <2>5, <2>7, PathNames
  <2>9. Progress(p)'
        BY <2>3, <2>4, <2>6, <2>8 DEF Progress
  <2> QED BY <1>3, <1>4, <2>3, <2>4, <2>9 DEF Preparing
<1>7. CASE Confirm(p)
  <2>1. dir[Path[my[p].at]] # NoProc
        BY <1>3, <1>7 DEF Confirm, Progress
  <2>2. /\ my' = [my EXCEPT ![p].at = @ + 1] /\ dir' = dir
        /\ pc'[p] = IF my[p].at < 4 THEN "look" ELSE "mark"
        BY <1>1, <1>7, <2>1 DEF Confirm, Go
  <2>3. /\ my[p].at \in 1..4 /\ my'[p].at = my[p].at + 1
        /\ my'[p].issue = my[p].issue /\ my'[p].blocked = my[p].blocked
        BY <1>1, <1>7, <2>2 DEF Local, Confirm
  <2>4. \A i \in 1..4 : i < my[p].at => dir[Path[i]] # NoProc
        BY <1>3, <1>7 DEF Confirm, Progress
  <2>5. \A i \in 1..4 : i < my[p].at + 1 => dir[Path[i]] # NoProc
        BY <2>1, <2>3, <2>4
  <2>6. my[p].at = 4 => \A f \in PathName : dir[f] # NoProc
        BY <2>5, PathIsPathName
  <2>7. Progress(p)'
        BY <2>2, <2>3, <2>5, <2>6 DEF Progress
  <2> QED BY <1>3, <1>4, <2>2, <2>3, <2>7 DEF Preparing
<1>8. CASE OpenMarker(p)
  <2>1. my[p].at \in 5..6 /\ Marked(p) \in LaneName /\ Marked(p) \in PathName
        BY <1>1, <1>8, PathNames DEF OpenMarker, Marked
  <2>2. \A f \in PathName : dir[f] # NoProc
        BY <1>3, <1>8 DEF OpenMarker, Progress
  <2>3. /\ my' = [my EXCEPT ![p].into = dir[Marked(p)]] /\ dir' = dir
        /\ marker' = [marker EXCEPT ![Marked(p)] = "empty"]
        /\ pc'[p] = "fill"
        BY <1>1, <1>8, <2>1, <2>2 DEF OpenMarker, Go
  <2>4. /\ my'[p].at = my[p].at /\ my'[p].into = dir[Marked(p)]
        /\ my'[p].issue = my[p].issue /\ my'[p].blocked = my[p].blocked
        BY <1>1, <2>3 DEF Local
  <2>5. my[p].at = 6 => Marked(p) = "stateLane"
        BY DEF Marked, Lane
  <2>6. my[p].at = 6 => marker'["workspaceLane"] = "full"
        BY <1>1, <1>3, <1>8, <2>3, <2>5 DEF OpenMarker, Progress, LaneName
  <2>7. Marked(p)' = Marked(p)
        BY <2>4 DEF Marked
  <2>8. Progress(p)'
        BY <2>2, <2>3, <2>4, <2>6, <2>7 DEF Progress
  <2> QED BY <1>3, <1>4, <2>3, <2>4, <2>8 DEF Preparing
<1>9. CASE FillMarker(p)
  <2>1. my[p].at \in 5..6 /\ Marked(p) \in LaneName
        BY <1>1, <1>9, PathNames DEF FillMarker, Marked
  <2>2. (\A f \in PathName : dir[f] # NoProc) /\ my[p].into = dir[Marked(p)]
        BY <1>3, <1>9 DEF FillMarker, Progress
  <2>3. /\ marker' = [marker EXCEPT ![Marked(p)] = "full"] /\ dir' = dir
        /\ my' = [my EXCEPT ![p].at = IF @ = 5 THEN 6 ELSE 1]
        /\ pc'[p] = IF my[p].at = 5 THEN "mark" ELSE "prepared"
        BY <1>1, <1>9, <2>1, <2>2 DEF FillMarker, Go
  <2>4. /\ my'[p].at = IF my[p].at = 5 THEN 6 ELSE 1
        /\ my'[p].issue = my[p].issue /\ my'[p].blocked = my[p].blocked
        BY <1>1, <2>3 DEF Local
  <2>5. /\ my[p].at = 5 => Marked(p) = "workspaceLane"
        /\ my[p].at = 6 => Marked(p) = "stateLane"
        BY DEF Marked, Lane
  <2>6. my[p].at = 6 => marker["workspaceLane"] = "full"
        BY <1>3, <1>9 DEF FillMarker, Progress
  <2>7. /\ marker'["workspaceLane"] = "full"
        /\ my[p].at = 6 => \A l \in LaneName : marker'[l] = "full"
        BY <1>1, <2>1, <2>3, <2>5, <2>6 DEF LaneName
  <2>8. Progress(p)'
        BY <2>1, <2>2, <2>3, <2>4, <2>7 DEF Progress
  <2> QED BY <1>3, <1>4, <2>3, <2>4, <2>8 DEF Preparing
<1>10. CASE Unmake(p)
       BY <1>2, <1>10 DEF Unmake, Preparing
<1> QED BY <1>5, <1>6, <1>7, <1>8, <1>9, <1>10 DEF Prepare

(* With every directory and marker in place, no probe raises an issue. *)
LEMMA SoundProbe ==
  ASSUME NEW p \in Proc, my[p].at \in 1..4,
         \A f \in PathName : dir[f] # NoProc,
         \A l \in LaneName : marker[l] = "full"
  PROVE  ~Unsound(p)
<1>1. CASE my[p].at \in 1..2
  <2>1. Lane[my[p].at] \in PathName
        BY <1>1, PathNames
  <2> QED BY <1>1, <2>1 DEF Unsound
<1>2. CASE my[p].at \in 3..4
  <2>1. my[p].at - 2 \in 1..2 /\ ~(my[p].at <= 2)
        BY <1>2
  <2>2. Lane[my[p].at - 2] \in LaneName
        BY <2>1, PathNames
  <2> QED BY <2>1, <2>2 DEF Unsound
<1> QED BY <1>1, <1>2

(* passes the gates,                                                       *)
LEMMA LoneCommandKept ==
  ASSUME TypeOK, Accounts, NEW p \in Proc, Undisturbed(p),
         Start(p) \/ Prepared(p) \/ Gate(p) \/ Recheck(p)
  PROVE  Undisturbed(p)'
<1>1. /\ my \in [Proc -> Local] /\ pc \in [Proc -> Labels]
      /\ pc[p] \in {"gate", "recheck"} => my[p].at \in 1..4
      /\ dir' = dir /\ marker' = marker /\ laneState' = laneState
      BY DEF TypeOK, WorkspaceTypeOK, InSeries, Start, Prepared, Gate, Recheck, lane, kept
<1>2. ~my[p].issue /\ ~my[p].blocked
      BY DEF Undisturbed
<1>3. pc[p] \in {"prepared", "gate", "recheck"} =>
        /\ \A f \in PathName : dir[f] # NoProc
        /\ \A l \in LaneName : marker[l] = "full"
      BY DEF Undisturbed, Progress, Active, Resting, Settled
<1>4. CASE Start(p)
  <2>1. pc'[p] = "look" /\ my' = my /\ my[p] = Fresh
        BY <1>1, <1>4 DEF Start, Go, Accounts, Notes
  <2>2. my'[p].at = 1
        BY <2>1 DEF Fresh
  <2>3. Progress(p)'
        BY <2>1, <2>2 DEF Progress
  <2> QED BY <1>2, <2>1, <2>3 DEF Undisturbed
<1>5. CASE Prepared(p)
  <2>1. pc'[p] \in {"open", "gate"} /\ my' = my
        BY <1>1, <1>5 DEF Prepared, Go
  <2>2. Progress(p)'
        BY <1>1, <1>3, <1>5, <2>1 DEF Progress, Prepared
  <2> QED BY <1>2, <2>1, <2>2 DEF Undisturbed
<1>6. CASE Gate(p)
  <2>1. ~Unsound(p)
        BY <1>1, <1>3, <1>6, SoundProbe DEF Gate
  <2>2. /\ ~my'[p].issue /\ ~my'[p].blocked
        /\ pc'[p] \in {"gate", "recheck"}
        BY <1>1, <1>2, <1>6, <2>1 DEF Gate, Probe, Local, Go
  <2>3. Progress(p)'
        BY <1>1, <1>3, <1>6, <2>2 DEF Progress, Gate
  <2> QED BY <2>2, <2>3 DEF Undisturbed
<1>7. CASE Recheck(p)
  <2>1. ~Unsound(p)
        BY <1>1, <1>3, <1>7, SoundProbe DEF Recheck
  <2>2. /\ ~my'[p].issue /\ ~my'[p].blocked
        /\ pc'[p] \in {"recheck", "note"}
        BY <1>1, <1>2, <1>7, <2>1 DEF Recheck, Probe, Local, Go
  <2>3. Progress(p)'
        BY <1>1, <1>3, <1>7, <2>2 DEF Progress, Recheck
  <2> QED BY <2>2, <2>3 DEF Undisturbed
<1> QED BY <1>4, <1>5, <1>6, <1>7

(* writes its evidence,                                                    *)
LEMMA LonePersistKept ==
  ASSUME TypeOK, KeptInv, Accounts, NEW p \in Alone, p \notin hurt, Moves(p), Undisturbed(p),
         NoteState(p) \/ CreateEvidence(p) \/ CompleteEvidence(p) \/ Undo(p) \/ UndoState(p)
  PROVE  Undisturbed(p)'
<1>1. /\ p \in Proc /\ my \in [Proc -> Local] /\ pc \in [Proc -> Labels]
      BY WorkspaceAssumption DEF TypeOK, WorkspaceTypeOK
<1>2. /\ dir' = dir /\ p \in Smoke
      /\ pc[p] \in {"note", "evidence", "complete", "undo", "undoState"}
      BY <1>1 DEF NoteState, CreateEvidence, CompleteEvidence, Undo, UndoState, lane,
         KeptInv, OnPath, Smoke
<1>3. ~my[p].issue /\ ~my[p].blocked
      BY DEF Undisturbed
<1>4. pc[p] \in {"note", "evidence", "complete"} => \A f \in PathName : dir[f] # NoProc
      BY DEF Undisturbed, Progress, Active, Resting, Settled
<1>5. ~my'[p].issue /\ ~my'[p].blocked
      BY <1>1, <1>3 DEF NoteState, CreateEvidence, CompleteEvidence, Undo, UndoState, Local
<1>6. pc'[p] \in {"undo", "undoState", "failed"} => Taken(p)'
  <2>1. SUFFICES pc'[p] \in {"undo", "undoState", "failed"} => Taken(p)
        BY <1>1, TakenStays
  <2>2. pc[p] \in {"undo", "undoState"} => Taken(p)
        BY DEF Undisturbed
  <2>3. CASE CreateEvidence(p)
    <3>1. dir["stateLane"] # NoProc
          BY <1>4, <2>3 DEF CreateEvidence, PathName
    <3>2. pc'[p] = "undo" => evidence[my[p].at].by # NoProc
          BY <1>1, <2>3, <3>1 DEF CreateEvidence, Due, Go
    <3>3. pc'[p] \in {"undo", "complete"}
          BY <1>1, <2>3 DEF CreateEvidence, Go
    <3> QED BY <2>3, <3>2, <3>3, StoppedByEarlier DEF CreateEvidence
  <2>4. CASE NoteState(p) \/ CompleteEvidence(p)
        BY <1>1, <2>4 DEF NoteState, CompleteEvidence, Go
  <2>5. CASE Undo(p) \/ UndoState(p)
        BY <2>2, <2>5 DEF Undo, UndoState
  <2> QED BY <2>3, <2>4, <2>5
<1>7. pc'[p] \in {"evidence", "complete", "open", "undo", "undoState", "failed"}
      BY <1>1, <1>2 DEF NoteState, CreateEvidence, CompleteEvidence, Undo, UndoState, Go
<1>8. pc'[p] \in {"evidence", "complete"} => pc[p] \in {"note", "evidence", "complete"}
      BY <1>1, <1>2 DEF NoteState, CreateEvidence, CompleteEvidence, Undo, UndoState, Go
<1>9. Progress(p)'
      BY <1>2, <1>4, <1>7, <1>8 DEF Progress
<1> QED BY <1>2, <1>5, <1>6, <1>7, <1>9 DEF Undisturbed, Smoke

(* or writes the lane run state.                                           *)
LEMMA LoneStateKept ==
  ASSUME TypeOK, NEW p \in Proc, Undisturbed(p),
         OpenState(p) \/ VerifyState(p) \/ TruncateState(p) \/ WriteState(p)
  PROVE  Undisturbed(p)'
<1>1. my \in [Proc -> Local] /\ pc \in [Proc -> Labels]
      BY DEF TypeOK, WorkspaceTypeOK
<1>2. ~my[p].issue /\ ~my[p].blocked
      BY DEF Undisturbed
<1>3. CASE OpenState(p)
  <2>1. /\ pc'[p] = "verify" /\ my' = [my EXCEPT ![p].into = laneState'.file]
        BY <1>1, <1>3 DEF OpenState, Go
  <2>2. /\ ~my'[p].issue /\ ~my'[p].blocked /\ my'[p].into = laneState'.file
        BY <1>1, <1>2, <2>1 DEF Local
  <2>3. Progress(p)'
        BY <2>1, <2>2 DEF Progress
  <2> QED BY <2>1, <2>2, <2>3 DEF Undisturbed
<1>4. CASE VerifyState(p)
  <2>1. laneState.file = my[p].into
        BY <1>4 DEF VerifyState, Undisturbed, Progress, Active, Resting, Settled
  <2>2. pc'[p] = "truncate" /\ my' = my
        BY <1>1, <1>4, <2>1 DEF VerifyState, Go
  <2> QED BY <1>2, <2>2 DEF Undisturbed, Progress
<1>5. CASE TruncateState(p) \/ WriteState(p)
  <2>1. pc'[p] \in {"write", "done"} /\ my' = my
        BY <1>1, <1>5 DEF TruncateState, WriteState, Go
  <2> QED BY <1>2, <2>1 DEF Undisturbed, Progress
<1> QED BY <1>3, <1>4, <1>5

(* So every step keeps the invariant of lone processes,                    *)
LEMMA StepLone == TypeOK /\ KeptInv /\ Accounts /\ LoneInv /\ [Next]_vars => LoneInv'
<1> SUFFICES ASSUME TypeOK, KeptInv, Accounts, LoneInv, [Next]_vars PROVE LoneInv'
    OBVIOUS
<1>1. CASE UNCHANGED vars
      BY <1>1 DEF vars, LoneInv, Undisturbed, Taken, Explained, Progress, Active, Marked
<1>2. ASSUME NEW p \in Proc, Moves(p), NEW q \in Alone, q \notin hurt'
      PROVE  Undisturbed(q)'
  <2>1. q \in Proc /\ q \notin hurt /\ Undisturbed(q)
        BY <1>2, Others, WorkspaceAssumption DEF LoneInv
  <2>2. CASE q # p
    <3>1. ~Active(q)
          BY <1>2, <2>2, LoneMover
    <3>2. pc'[q] = pc[q] /\ my'[q] = my[q]
          BY <1>2, <2>1, <2>2, Others
    <3>3. Taken(q) => Taken(q)'
          BY <1>2, <2>1, TakenStays
    <3> QED BY <2>1, <3>1, <3>2, <3>3 DEF Undisturbed, Active
  <2>3. CASE q = p
    <3>1. CASE Die(p)
      <4>1. pc'[p] = "dead" /\ my' = my
            BY <3>1 DEF Die, Go, TypeOK
      <4> QED BY <2>1, <2>3, <4>1 DEF Undisturbed, Active, Resting, Settled
    <3>2. CASE ~Die(p)
      <4>1. ~Fault(p)
            BY <1>2, <2>3, Others
      <4>2. ~Clear(p) /\ ~ClearState(p)
            BY <2>1, <2>3 DEF Undisturbed, Clear, ClearState
      <4> QED BY <1>2, <2>1, <2>3, <3>2, <4>1, <4>2, Steps, LonePrepareKept, LoneCommandKept,
                 LonePersistKept, LoneStateKept
    <3> QED BY <3>1, <3>2
  <2> QED BY <2>2, <2>3
<1> QED BY <1>1, <1>2 DEF Next, Moves, LoneInv

(* which is true at first.                                                 *)
LEMMA InitLone == Init => LoneInv
<1> SUFFICES ASSUME Init, NEW p \in Alone PROVE Undisturbed(p)
    BY DEF LoneInv
<1>1. p \in Proc /\ pc[p] = "idle" /\ my[p] = Fresh
      BY WorkspaceAssumption DEF Init, WorkspaceInit
<1> QED BY <1>1 DEF Undisturbed, Active, Resting, Fresh

-----------------------------------------------------------------------------
(* A retry that noted that no lane run state was there finds no recorded   *)
(* result later.                                                           *)
Past == {"evidence", "complete", "undo", "undoState"} \cup Writing

Unrecorded(p) == pc[p] \in Past /\ ~existed[p] => laneState.text \notin Smoke

RetryInv == \A p \in Alone \cap Smoke : Unrecorded(p)

(* Nothing is recorded at first.                                           *)
LEMMA InitRetry == Init => RetryInv
BY WorkspaceAssumption DEF Init, WorkspaceInit, RetryInv, Unrecorded, Past, Writing

(* A retry's own step records nothing before it is over,                   *)
LEMMA UnrecordedKept ==
  ASSUME TypeOK, KeptInv, Accounts, NEW p \in Alone \cap Smoke, Unrecorded(p), Moves(p)
  PROVE  Unrecorded(p)'
<1> SUFFICES ASSUME pc'[p] \in Past, ~existed'[p] PROVE laneState'.text \notin Smoke
    BY DEF Unrecorded
<1>1. /\ p \in Proc /\ p \in Smoke /\ NoProc \notin Smoke /\ Course(pc[p], pc'[p])
      /\ existed \in [Proc -> BOOLEAN] /\ pc \in [Proc -> Labels]
      BY Courses, WorkspaceAssumption DEF Smoke, TypeOK
<1>2. ~Die(p)
      BY <1>1 DEF Die, Go, Past, Writing
<1>3. CASE pc[p] = "note"
  <2>1. NoteState(p)
        BY <1>1, <1>2, <1>3, ActionAt DEF Fault, Preparing, Keeping, Writing, Go, Past
  <2>2. laneState.file = NoProc /\ laneState' = laneState
        BY <1>1, <2>1 DEF NoteState, kept
  <2> QED BY <1>1, <2>2 DEF Accounts, StateHasFile
<1>4. CASE pc[p] \in Past
  <2>1. existed'[p] = existed[p]
    <3>1. ~NoteState(p)
          BY <1>4 DEF NoteState, Past, Writing
    <3> QED BY <1>1, <3>1, Steps DEF Start, Prepared, Gate, Recheck, UndoState, OpenState, VerifyState,
           TruncateState, WriteState, Clear, Die, Fault, notes, CreateEvidence, ClearState,
           Undo, CompleteEvidence
  <2>2. laneState.text \notin Smoke
        BY <1>4, <2>1 DEF Unrecorded
  <2>3. pc'[p] # "done"
        BY DEF Past, Writing
  <2> QED BY <1>1, <2>2, <2>3, LaneStateMoves DEF NoState
<1>5. CASE pc[p] \notin Past \cup {"note"}
  <2>1. pc[p] = "prepared" /\ pc'[p] = "open"
        BY <1>1, <1>5 DEF Course, Past, Writing, Preparing
  <2>2. Prepared(p)
        BY <1>1, <1>2, <2>1, ActionAt DEF Fault, Preparing, Keeping, Writing
  <2> QED BY <1>1, <2>1, <2>2 DEF Prepared, Go, Smoke
<1> QED BY <1>3, <1>4, <1>5

(* and nobody else moves meanwhile.                                        *)
LEMMA StepRetry == TypeOK /\ KeptInv /\ Accounts /\ RetryInv /\ [Next]_vars => RetryInv'
<1> SUFFICES ASSUME TypeOK, KeptInv, Accounts, RetryInv, [Next]_vars PROVE RetryInv'
    OBVIOUS
<1>1. CASE UNCHANGED vars
      BY <1>1 DEF vars, RetryInv, Unrecorded
<1>2. ASSUME NEW p \in Proc, Moves(p), NEW q \in Alone \cap Smoke
      PROVE  Unrecorded(q)'
  <2>1. q \in Proc /\ q \in Alone /\ Unrecorded(q)
        BY WorkspaceAssumption DEF RetryInv
  <2>2. CASE q # p
    <3>1. ~Active(q)
          BY <1>2, <2>1, <2>2, LoneMover
    <3>2. pc'[q] \notin Past
          BY <1>2, <2>1, <2>2, <3>1, Others DEF Active, Past, Writing, Resting, Settled
    <3> QED BY <3>2 DEF Unrecorded
  <2>3. CASE q = p
        BY <1>2, <2>1, <2>3, UnrecordedKept
  <2> QED BY <2>2, <2>3
<1> QED BY <1>1, <1>2 DEF Next, Moves, RetryInv

(* A smoke command that writes a state has all of the evidence, and so has *)
(* one whose result is recorded: nobody writes over a recorded result.     *)
LEMMA NoSecondWriter ==
  ASSUME KeptInv, NEW p \in Smoke, pc[p] \in {"truncate", "write"}, laneState.text \in Smoke
  PROVE  FALSE
<1> DEFINE t == laneState.text
<1>1. /\ p \in Proc /\ t \in Proc /\ 1 \in Ref
      /\ OnPath(p) /\ OnPath(t) /\ pc[t] = "done"
      BY PersistenceAssumption DEF KeptInv, TextIsDone, Smoke, Ref
<1>2. wrote[p] = Ref /\ wrote[t] = Ref
      BY <1>1 DEF OnPath, Writing
<1>3. evidence[1] = [by |-> p, full |-> TRUE] /\ evidence[1] = [by |-> t, full |-> TRUE]
      BY <1>1, <1>2 DEF KeptInv, WroteIsThere
<1>4. evidence[1].by = p /\ evidence[1].by = t
      BY <1>3
<1> QED BY <1>1, <1>4

(* How a recorded result can go.                                           *)
LEMMA LossStep ==
  ASSUME TypeOK, KeptInv, Accounts, RetryInv, NEW q \in Proc, Moves(q),
         laneState.text \in Smoke, laneState' # laneState
  PROVE  \/ q \in Skeleton /\ pc[q] \in {"truncate", "write"}
         \/ /\ q \in Smoke \ Alone /\ pc[q] = "undoState" /\ ~existed[q]
            /\ laneState' = NoState
<1>1. OnPath(q) /\ Notes(q) /\ laneState.file # NoProc
      BY WorkspaceAssumption DEF KeptInv, Accounts, StateHasFile, Smoke
<1>2. \/ pc[q] \in {"truncate", "write"}
      \/ pc[q] = "undoState" /\ laneState' = NoState
      BY <1>1, LaneStateMoves
<1>3. CASE q \in Skeleton
      BY <1>1, <1>2, <1>3 DEF OnPath
<1>4. CASE q \in Smoke
  <2>1. pc[q] = "undoState" /\ laneState' = NoState /\ ~existed[q]
        BY <1>1, <1>2, <1>4, NoSecondWriter DEF Notes
  <2>2. q \notin Alone
        BY <1>4, <2>1 DEF RetryInv, Unrecorded, Past
  <2> QED BY <1>4, <2>1, <2>2
<1> QED BY <1>3, <1>4 DEF Smoke

(* Nor does a retry take a recorded result away.                           *)
LEMMA RetryStep ==
  ASSUME TypeOK, KeptInv, Accounts, RetryInv, NEW q \in Proc, Moves(q),
         NEW p \in Alone \cap Smoke, Active(p), laneState.text \in Smoke
  PROVE  UNCHANGED laneState
<1>1. p = q
      BY LoneMover
<1> QED BY <1>1, LossStep DEF Smoke

-----------------------------------------------------------------------------
(* What follows from the accounts.                                         *)

(* The accounts are always true,                                           *)
LEMMA AlwaysAccounts == Spec => [](TypeOK /\ KeptInv /\ Accounts)
BY InitTyped, StepTyped, InitKept, StepKept, InitAccounts, StepAccounts, PTL DEF Spec

(* and so are the invariants of lone processes                             *)
LEMMA AlwaysLone == Spec => []LoneInv
BY AlwaysAccounts, InitLone, StepLone, PTL DEF Spec

(* and of retries.                                                         *)
LEMMA AlwaysRetry == Spec => []RetryInv
BY AlwaysAccounts, InitRetry, StepRetry, PTL DEF Spec

(* A failed preparation leaves no workspace of its making, and a failed    *)
(* skeleton no lane directory of its making.                               *)
THEOREM CleanUpTheorem == Spec => []FailureRemovesDirectories
<1>1. Accounts => FailureRemovesDirectories
      BY DEF Accounts, Unmade, FailureRemovesDirectories
<1> QED BY <1>1, AlwaysAccounts, PTL

FailureLeavesNoEvidence ==
  \A p \in Smoke \ hurt : pc[p] = "failed" => \A r \in Ref : evidence[r].by # p

(* Only the failing call of its own that NothingHalfCreated runs into: a   *)
(* smoke command that failed without one has left no evidence file.        *)
THEOREM HalfCreatedTheorem == Spec => []FailureLeavesNoEvidence
<1>1. Accounts => FailureLeavesNoEvidence
  <2> SUFFICES ASSUME Accounts, NEW p \in Smoke \ hurt, pc[p] = "failed",
                      NEW r \in Ref, evidence[r].by = p
               PROVE  FALSE
      BY DEF FailureLeavesNoEvidence
  <2>1. Notes(p)
        BY DEF Accounts, Smoke
  <2> QED BY <2>1 DEF Notes
<1> QED BY <1>1, AlwaysAccounts, PTL

(* A smoke command or skeleton that no other overlaps fails only for a     *)
(* failing call of its own or evidence that an earlier command has left.   *)
THEOREM UndisturbedTheorem == Spec => []UndisturbedSucceeds
<1>1. LoneInv => UndisturbedSucceeds
  <2> SUFFICES ASSUME LoneInv, NEW p \in Alone \ hurt
               PROVE  /\ pc[p] \notin {"unprepared", "rejected"}
                      /\ ~my[p].blocked
                      /\ pc[p] = "failed" =>
                           \E r \in Ref : /\ evidence[r].by \notin {NoProc, p}
                                          /\ Explained(r)
      BY DEF UndisturbedSucceeds, Explained
  <2> QED BY DEF LoneInv, Undisturbed, Taken
<1> QED BY <1>1, AlwaysLone, PTL

(* A retry leaves the recorded result of an earlier command as it is.      *)
THEOREM RetryTheorem == Spec => RetryKeepsState
<1> DEFINE Keeps == \A p \in Alone \cap Smoke :
                      pc[p] \notin Resting /\ laneState.text \in Smoke => UNCHANGED laneState
<1>1. TypeOK /\ KeptInv /\ Accounts /\ RetryInv /\ [Next]_vars => [Keeps]_vars
      BY RetryStep DEF Next, Moves, Active, vars
<1> QED BY <1>1, AlwaysAccounts, AlwaysRetry, PTL DEF Spec, RetryKeepsState

(* A recorded result is lost in two ways only: a skeleton is prepared for  *)
(* the lane again, or a smoke command that overlaps others, and looked for *)
(* the state before the result was recorded, fails and cleans up.  The     *)
(* second is what violates FailureKeepsState.                              *)
RecordedResultStays ==
  [][laneState.text \in Smoke /\ laneState' # laneState =>
       \/ \E p \in Skeleton : pc[p] \in {"truncate", "write"}
       \/ \E p \in Smoke \ Alone :
            pc[p] = "undoState" /\ ~existed[p] /\ laneState' = NoState]_vars

(* No smoke command writes over another's recorded result.                 *)
THEOREM LossTheorem == Spec => RecordedResultStays
<1> DEFINE Stays == laneState.text \in Smoke /\ laneState' # laneState =>
                      \/ \E p \in Skeleton : pc[p] \in {"truncate", "write"}
                      \/ \E p \in Smoke \ Alone :
                           pc[p] = "undoState" /\ ~existed[p] /\ laneState' = NoState
<1>1. TypeOK /\ KeptInv /\ Accounts /\ RetryInv /\ [Next]_vars => [Stays]_vars
      BY LossStep DEF Next, Moves, vars
<1> QED BY <1>1, AlwaysAccounts, AlwaysRetry, PTL DEF Spec, RecordedResultStays
=============================================================================
