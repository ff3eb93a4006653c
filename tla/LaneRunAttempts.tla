--------------------------- MODULE LaneRunAttempts ---------------------------
(***************************************************************************)
(* What the lane-run queue and lock of one work item promise to a reader   *)
(* who looks at the pair of files as one thing: a numbered sequence of     *)
(* attempts.  An attempt is queued, is claimed by at most one lane run, is *)
(* closed with one outcome, and only then (or while still unclaimed) gives *)
(* way to the next number.  Closing is visible in two stages because the   *)
(* lock is written before the queue record: "closing" is the stage between *)
(* them, and it may be taken back (the queue write failed) or abandoned    *)
(* (the process died).                                                     *)
(***************************************************************************)
EXTENDS Naturals

CONSTANTS Run,     (* lane run identifiers                                  *)
          NoRun    (* "no lane run"                                         *)

VARIABLES attempt,   (* number of the latest attempt, 0 before the first    *)
          phase,     (* where that attempt stands                           *)
          outcome,   (* the terminal status a closing attempt is to take    *)
          run        (* the lane run the attempt belongs to, once known     *)

attemptVars == <<attempt, phase, outcome, run>>

Outcome == {"completed", "revoked", "superseded"}

(* An attempt that no lane run is working on. *)
Unclaimed == phase # "active"

Init ==
  /\ attempt = 0
  /\ phase = "none"
  /\ outcome = "none"
  /\ run = NoRun

(* Enqueue, retry and requeue all number the next attempt. *)
Open ==
  /\ Unclaimed
  /\ attempt' = attempt + 1
  /\ phase' = "queued"
  /\ outcome' = "none"
  /\ run' = NoRun

Claim(r) ==
  /\ phase = "queued"
  /\ phase' = "active"
  /\ run' = r
  /\ UNCHANGED <<attempt, outcome>>

BeginClose(o) ==
  /\ phase = "active"
  /\ phase' = "closing"
  /\ outcome' = o
  /\ UNCHANGED <<attempt, run>>

Close ==
  /\ phase = "closing"
  /\ phase' = outcome
  /\ UNCHANGED <<attempt, outcome, run>>

(* The second half of the close failed and the first half was undone. *)
Reopen ==
  /\ phase = "closing"
  /\ phase' = "active"
  /\ outcome' = "none"
  /\ UNCHANGED <<attempt, run>>

(* A blocked attempt is withdrawn by the operator before any claim. *)
Withdraw(r) ==
  /\ phase = "queued"
  /\ phase' = "revoked"
  /\ outcome' = "revoked"
  /\ run' = r
  /\ UNCHANGED attempt

Next ==
  \/ Open
  \/ \E r \in Run : Claim(r) \/ Withdraw(r)
  \/ \E o \in Outcome : BeginClose(o)
  \/ Close
  \/ Reopen

Spec == Init /\ [][Next]_attemptVars
=============================================================================
