------------------------- MODULE LaneRunStatusProofs -------------------------
(***************************************************************************)
(* Theorems about LaneRunStatus, for any number of work items, attempts    *)
(* and writes during one reading.                                          *)
(***************************************************************************)
EXTENDS LaneRunStatus, TLAPS

-----------------------------------------------------------------------------
(* The files of one item, and what a write does to them.                   *)

(* A lock never runs ahead of its record; an active one is on a queued     *)
(* record, and one on a finished record ended like it.                     *)
Coherent(f) ==
  /\ f \in Files
  /\ f.record.status = "none" <=> f.record.seq = 0
  /\ f.lock.status = "none" <=> f.lock.seq = 0
  /\ f.lock.seq <= f.record.seq
  /\ f.lock.status = "active" => f.lock.seq = f.record.seq /\ f.record.status = "queued"
  /\ f.lock.seq = f.record.seq /\ f.record.status \in Terminal => f.lock.status = f.record.status

(* A write on the record leaves the lock and goes forward, ...             *)
RecordMoves(f, g) ==
  /\ g.lock = f.lock /\ f.record.seq <= g.record.seq
  /\ f.lock.status # "active"

(* ... and one on the lock leaves the record: it claims or restores it, or *)
(* closes an active one.                                                   *)
LockMoves(f, g) ==
  /\ g.record = f.record /\ f.lock.seq <= g.lock.seq
  /\ \/ g.lock.status = "active"
     \/ f.lock.status = "active" /\ g.lock.status \in Terminal /\ g.lock.seq = f.lock.seq

(* No files are coherent. *)
LEMMA NoFilesCohere == Coherent(NoFiles)
BY DEF Coherent, NoFiles, Files, Record, Lock, Terminal

(* Every write keeps the pair coherent, and moves one file forward. *)
LEMMA WriteMoves ==
  ASSUME NEW f, Coherent(f), NEW g \in Successors(f)
  PROVE  Coherent(g) /\ (RecordMoves(f, g) \/ LockMoves(f, g))
<1> USE DEF Coherent, Terminal
<1>0. /\ f.record.seq \in Nat /\ f.lock.seq \in Nat /\ f.record.blocker \in BOOLEAN
      /\ f.record.status \in {"none", "queued"} \cup Terminal
      /\ f.lock.status \in {"none", "active"} \cup Terminal
      /\ f.record \in Record /\ f.lock \in Lock
  BY DEF Files, Record, Lock
<1>1. ASSUME NEW seq \in Nat, NEW status \in {"queued"} \cup Terminal,
             NEW blockers \in SUBSET BOOLEAN, g \in WithRecord(f, seq, status, blockers)
      PROVE  /\ g.lock = f.lock /\ g.record.seq = seq /\ g.record.status = status
             /\ g \in Files
  <2>1. PICK b \in blockers :
          g = [record |-> [seq |-> seq, status |-> status, blocker |-> b], lock |-> f.lock]
    BY <1>1 DEF WithRecord
  <2>2. [seq |-> seq, status |-> status, blocker |-> b] \in Record
    BY DEF Record
  <2> QED
    BY <1>0, <2>1, <2>2 DEF Files
<1>2. ASSUME NEW seq \in Nat, NEW statuses, statuses \subseteq {"active"} \cup Terminal,
             g \in WithLock(f, seq, statuses)
      PROVE  /\ g.record = f.record /\ g.lock.seq = seq /\ g.lock.status \in statuses
             /\ g \in Files
  <2>1. PICK s \in statuses : g = [record |-> f.record, lock |-> [seq |-> seq, status |-> s]]
    BY <1>2 DEF WithLock
  <2>2. [seq |-> seq, status |-> s] \in Lock
    BY <1>2 DEF Lock
  <2> QED
    BY <1>0, <2>1, <2>2 DEF Files
<1>3. CASE g \in Opened(f)
  <2>1. ~Active(f) /\ g \in WithRecord(f, f.record.seq + 1, "queued", BOOLEAN)
    BY <1>3 DEF Opened, Provided
  <2>2. g.lock = f.lock /\ g.record.seq = f.record.seq + 1 /\ g.record.status = "queued"
        /\ g \in Files
    BY <1>0, <1>1, <2>1
  <2> QED
    BY <1>0, <2>1, <2>2 DEF RecordMoves, Active
<1>4. CASE g \in Claimed(f)
  <2>1. /\ f.record.status = "queued" /\ ~Active(f)
        /\ g \in WithLock(f, f.record.seq, {"active"})
    BY <1>4 DEF Claimed, Provided
  <2>2. g.record = f.record /\ g.lock.seq = f.record.seq /\ g.lock.status = "active" /\ g \in Files
    BY <1>0, <1>2, <2>1
  <2> QED
    BY <1>0, <2>1, <2>2 DEF LockMoves
<1>5. CASE g \in Closed(f)
  <2>1. Active(f) /\ g \in WithLock(f, f.lock.seq, Terminal)
    BY <1>5 DEF Closed, Provided
  <2>2. g.record = f.record /\ g.lock.seq = f.lock.seq /\ g.lock.status \in Terminal /\ g \in Files
    BY <1>0, <1>2, <2>1
  <2> QED
    BY <1>0, <2>1, <2>2 DEF LockMoves, Active
<1>6. CASE g \in Recorded(f)
  <2>1. PICK blockers \in SUBSET BOOLEAN :
          Torn(f) /\ g \in WithRecord(f, f.record.seq, f.lock.status, blockers)
    BY <1>0, <1>6 DEF Recorded, Provided
  <2>2. g.lock = f.lock /\ g.record.seq = f.record.seq /\ g.record.status = f.lock.status
        /\ g \in Files
    BY <1>0, <1>1, <2>1 DEF Torn
  <2> QED
    BY <1>0, <2>1, <2>2 DEF RecordMoves, Torn
<1>7. CASE g \in Reopened(f)
  <2>1. Torn(f) /\ g \in WithLock(f, f.lock.seq, {"active"})
    BY <1>7 DEF Reopened, Provided
  <2>2. g.record = f.record /\ g.lock.seq = f.lock.seq /\ g.lock.status = "active" /\ g \in Files
    BY <1>0, <1>2, <2>1
  <2> QED
    BY <1>0, <2>1, <2>2 DEF LockMoves, Torn
<1>8. CASE g \in Withdrawn(f)
  <2>1. /\ f.record.status = "queued" /\ f.lock.status = "none"
        /\ g \in WithRecord(f, f.record.seq, "revoked", {FALSE})
    BY <1>8 DEF Withdrawn, Provided
  <2>2. g.lock = f.lock /\ g.record.seq = f.record.seq /\ g.record.status = "revoked"
        /\ g \in Files
    <3>1. {FALSE} \in SUBSET BOOLEAN /\ "revoked" \in {"queued"} \cup Terminal
      OBVIOUS
    <3> QED
      BY <1>0, <1>1, <2>1, <3>1
  <2> QED
    BY <1>0, <2>1, <2>2 DEF RecordMoves
<1> QED
  BY <1>3, <1>4, <1>5, <1>6, <1>7, <1>8 DEF Successors

-----------------------------------------------------------------------------
(* A record that was read, the lock as it is, and what held meanwhile.     *)

(* Some fact of H has this state, or this verification. *)
HadState(H, state) == \E fact \in H : fact.state = state
HadVerification(H, verification) == \E fact \in H : fact.verification = verification
WasClaimable(H) ==
  \E fact \in H : fact.state = "queued" /\ fact.verification = "not-started" /\ ~fact.blocker

Overtaken(q, l) == l.status = "active" \/ Stale(q, l)

(* What the record alone would show has held, unless a lock went before it *)
(* when it was read; *)
Remembered(q, l, H) ==
  /\ q.blocker => \E fact \in H : fact.blocker
  /\ q.status = "completed" => HadState(H, "completed") /\ HadVerification(H, "succeeded")
  /\ q.status \in {"revoked", "superseded"} =>
       HadState(H, q.status) /\ HadVerification(H, "unknown")
  /\ q.status = "queued" /\ ~q.blocker => WasClaimable(H) \/ Overtaken(q, l)

(* and what a closed lock would show has held while it was effective. *)
Witnessed(q, l, H) ==
  l.status \in Terminal /\ l.seq >= q.seq =>
    /\ HadState(H, l.status)
    /\ l.status = "completed" => HadVerification(H, "succeeded")
    /\ l.status # "completed" /\ q.status = "queued" => HadVerification(H, "not-started")

Followed(q, f, H) ==
  /\ q.seq <= f.record.seq /\ Fact(f) \in H
  /\ Remembered(q, f.lock, H) /\ Witnessed(q, f.lock, H)

(* What a fact says. *)
LEMMA FactFields ==
  ASSUME NEW f
  PROVE  /\ Fact(f).state = ClaimState(f.record, f.lock)
         /\ Fact(f).verification = Verification(f.record, f.lock)
         /\ Fact(f).blocker = f.record.blocker
BY DEF Fact

(* What holds of coherent files.                                           *)
LEMMA CoherentFacts ==
  ASSUME NEW f, Coherent(f)
  PROVE  /\ f.lock.status = "active" =>
              Fact(f).state = "active" /\ Fact(f).verification = "running"
         /\ f.lock.status \in Terminal /\ f.lock.seq >= f.record.seq =>
              /\ Fact(f).state = f.lock.status
              /\ f.lock.status = "completed" => Fact(f).verification = "succeeded"
              /\ f.lock.status # "completed" /\ f.record.status = "queued" =>
                   Fact(f).verification = "not-started"
         /\ f.record.status \in Terminal =>
              /\ Fact(f).state = f.record.status
              /\ Fact(f).verification = IF f.record.status = "completed" THEN "succeeded"
                                        ELSE "unknown"
         /\ f.record.status = "queued" /\ ~Overtaken(f.record, f.lock) =>
              Fact(f).state = "queued" /\ Fact(f).verification = "not-started"
<1>1. /\ f.record.seq \in Nat /\ f.lock.seq \in Nat
      /\ f.record.status \in {"none", "queued"} \cup Terminal
      /\ f.lock.status \in {"none", "active"} \cup Terminal
  BY DEF Coherent, Files, Record, Lock
<1>2. NoFiles.lock.status = "none"
  BY DEF NoFiles
<1>3. EffectiveLock(f.record, f.lock).status =
        IF Overtaken(f.record, f.lock) THEN f.lock.status ELSE "none"
  BY <1>2 DEF EffectiveLock, Overtaken
<1>4. Overtaken(f.record, f.lock) <=>
        \/ f.lock.status = "active"
        \/ f.lock.status \in Terminal /\ f.lock.seq >= f.record.seq
  BY DEF Overtaken, Stale
<1>5. /\ f.lock.status = "active" => f.record.status = "queued"
      /\ f.record.status \in Terminal => f.lock.status # "active"
      /\ f.record.status \in Terminal /\ f.lock.status \in Terminal /\ f.lock.seq >= f.record.seq
           => f.lock.status = f.record.status
  BY <1>1 DEF Coherent, Terminal
<1>6. Fact(f).state = IF Overtaken(f.record, f.lock) THEN f.lock.status ELSE f.record.status
  BY <1>1, <1>3, <1>4, FactFields DEF ClaimState, Terminal
<1>7. ASSUME NEW e, e = EffectiveLock(f.record, f.lock).status
      PROVE  Fact(f).verification =
               IF "completed" \in {e, f.record.status} THEN "succeeded"
               ELSE IF e = "active" THEN "running"
               ELSE IF f.record.status = "queued" THEN "not-started"
               ELSE "unknown"
  BY <1>7, FactFields DEF Verification
<1>8. PICK e : e = EffectiveLock(f.record, f.lock).status
  OBVIOUS
<1>9. e = IF Overtaken(f.record, f.lock) THEN f.lock.status ELSE "none"
  BY <1>3, <1>8
<1>10. Fact(f).verification =
         IF "completed" \in {e, f.record.status} THEN "succeeded"
         ELSE IF e = "active" THEN "running"
         ELSE IF f.record.status = "queued" THEN "not-started"
         ELSE "unknown"
  BY <1>7, <1>8
<1>11. CASE f.lock.status = "active"
  BY <1>11, <1>4, <1>5, <1>6, <1>9, <1>10 DEF Terminal
<1>12. CASE f.lock.status \in Terminal /\ f.lock.seq >= f.record.seq
  BY <1>12, <1>1, <1>4, <1>5, <1>6, <1>9, <1>10 DEF Terminal
<1>13. CASE ~Overtaken(f.record, f.lock)
  BY <1>13, <1>1, <1>4, <1>6, <1>9, <1>10 DEF Terminal
<1> QED
  BY <1>4, <1>11, <1>12, <1>13

(* A record is followed from the moment it is read ...                     *)
LEMMA FollowedAtFirst ==
  ASSUME NEW f, Coherent(f), NEW H, Fact(f) \in H
  PROVE  Followed(f.record, f, H)
<1>1. /\ f.record.seq \in Nat /\ f.lock.seq \in Nat
      /\ f.record.status \in {"none", "queued"} \cup Terminal
      /\ f.lock.status \in {"none", "active"} \cup Terminal
  BY DEF Coherent, Files, Record, Lock
<1>2. Remembered(f.record, f.lock, H)
  <2>1. f.record.blocker => \E fact \in H : fact.blocker
    BY FactFields
  <2>2. f.record.status = "queued" /\ ~f.record.blocker =>
          WasClaimable(H) \/ Overtaken(f.record, f.lock)
    BY CoherentFacts, FactFields DEF WasClaimable
  <2>3. f.record.status = "completed" => HadState(H, "completed") /\ HadVerification(H, "succeeded")
    BY CoherentFacts DEF HadState, HadVerification, Terminal
  <2>4. f.record.status \in {"revoked", "superseded"} =>
          HadState(H, f.record.status) /\ HadVerification(H, "unknown")
    BY CoherentFacts DEF HadState, HadVerification, Terminal
  <2> QED
    BY <2>1, <2>2, <2>3, <2>4 DEF Remembered
<1>3. Witnessed(f.record, f.lock, H)
  BY CoherentFacts DEF Witnessed, HadState, HadVerification
<1> QED
  BY <1>1, <1>2, <1>3 DEF Followed

(* ... through every write, whose outcome is a fact, too.                  *)
LEMMA FollowedOn ==
  ASSUME NEW f, Coherent(f), NEW g \in Successors(f),
         NEW q, q.seq \in Nat, NEW H, Followed(q, f, H)
  PROVE  Followed(q, g, H \cup {Fact(g)})
<1> DEFINE K == H \cup {Fact(g)}
<1>1. /\ f.record.seq \in Nat /\ f.lock.seq \in Nat
      /\ f.lock.status \in {"none", "active"} \cup Terminal
  BY DEF Coherent, Files, Record, Lock
<1>2. Coherent(g) /\ (RecordMoves(f, g) \/ LockMoves(f, g))
  BY WriteMoves
<1>3. g.record.seq \in Nat /\ g.lock.seq \in Nat /\ q.seq <= f.record.seq
  BY <1>2 DEF Coherent, Files, Record, Lock, Followed
<1>4. q.seq <= g.record.seq
  BY <1>1, <1>2, <1>3 DEF RecordMoves, LockMoves
<1>5. H \subseteq K /\ Fact(g) \in K
  OBVIOUS
<1> HIDE DEF K
<1>6. /\ \A s : HadState(H, s) => HadState(K, s)
      /\ \A s : HadVerification(H, s) => HadVerification(K, s)
      /\ WasClaimable(H) => WasClaimable(K)
      /\ (\E fact \in H : fact.blocker) => \E fact \in K : fact.blocker
  BY <1>5 DEF HadState, HadVerification, WasClaimable
<1>7. Remembered(q, f.lock, H) /\ Witnessed(q, f.lock, H)
  BY DEF Followed
<1>8. ASSUME g.lock = f.lock
      PROVE  Remembered(q, g.lock, K) /\ Witnessed(q, g.lock, K)
  BY <1>6, <1>7, <1>8 DEF Remembered, Witnessed
<1>9. ASSUME LockMoves(f, g)
      PROVE  Remembered(q, g.lock, K) /\ Witnessed(q, g.lock, K)
  <2>1. ASSUME f.lock.status = "active", g.lock.status \in Terminal, g.lock.seq = f.lock.seq
        PROVE  g.lock.seq = g.record.seq /\ g.lock.seq >= q.seq /\ g.record.status = "queued"
    BY <1>1, <1>3, <1>9, <2>1 DEF Coherent, LockMoves
  <2>2. Overtaken(q, g.lock)
    BY <1>9, <2>1 DEF LockMoves, Overtaken, Stale
  <2>3. Remembered(q, g.lock, K)
    BY <1>6, <1>7, <2>2 DEF Remembered
  <2>4. Witnessed(q, g.lock, K)
    <3>1. CASE g.lock.status = "active"
      BY <3>1 DEF Witnessed, Terminal
    <3>2. CASE f.lock.status = "active" /\ g.lock.status \in Terminal /\ g.lock.seq = f.lock.seq
      <4>1. g.lock.seq >= g.record.seq /\ g.record.status = "queued"
        BY <1>3, <2>1, <3>2
      <4>2. /\ Fact(g).state = g.lock.status
            /\ g.lock.status = "completed" => Fact(g).verification = "succeeded"
            /\ g.lock.status # "completed" => Fact(g).verification = "not-started"
        BY <1>2, <3>2, <4>1, CoherentFacts
      <4> QED
        BY <1>5, <4>2 DEF Witnessed, HadState, HadVerification
    <3> QED
      BY <1>9, <3>1, <3>2 DEF LockMoves
  <2> QED
    BY <2>3, <2>4
<1> QED
  BY <1>2, <1>4, <1>5, <1>8, <1>9 DEF Followed, RecordMoves, K

-----------------------------------------------------------------------------
(* What is shown of a record that was followed has held.                   *)

Had(view, H) ==
  /\ view.state = "blocked" => \E fact \in H : fact.blocker
  /\ view.state = "queued" =>
       \E fact \in H :
         fact.state = "queued" /\ fact.verification = "not-started" /\ ~fact.blocker
  /\ view.state \in Terminal \cup {"active"} =>
       /\ \E fact \in H : fact.state = view.state
       /\ \E fact \in H : fact.verification = view.verification

Views == [state : {"none", "blocked", "queued", "active"} \cup Terminal,
          verification : {"none", "blocked", "succeeded", "running", "not-started", "unknown"}]

(* What is shown, case by case.                                            *)
LEMMA ShownCases ==
  ASSUME NEW q \in Record, q.status # "none", NEW l \in Lock
  PROVE  /\ Shown(q, l) \in Views /\ Shown(q, l).state # "none"
         /\ q.blocker => Shown(q, l).state = "blocked"
         /\ ~q.blocker =>
              Shown(q, l).state = IF Overtaken(q, l) THEN l.status ELSE q.status
         /\ ~q.blocker =>
              Shown(q, l).verification =
                IF q.status = "completed" \/ (Overtaken(q, l) /\ l.status = "completed")
                THEN "succeeded"
                ELSE IF l.status = "active" THEN "running"
                ELSE IF q.status = "queued" THEN "not-started"
                ELSE "unknown"
<1>1. /\ q.seq \in Nat /\ l.seq \in Nat /\ q.blocker \in BOOLEAN
      /\ q.status \in {"queued"} \cup Terminal
      /\ l.status \in {"none", "active"} \cup Terminal
  BY DEF Record, Lock
<1>2. EffectiveLock(q, l).status = IF Overtaken(q, l) THEN l.status ELSE "none"
  BY DEF EffectiveLock, Overtaken, NoFiles
<1>3. Overtaken(q, l) => l.status \in {"active"} \cup Terminal
  BY DEF Overtaken, Stale
<1>4. ClaimState(q, l) = IF Overtaken(q, l) THEN l.status ELSE q.status
  BY <1>1, <1>2, <1>3 DEF ClaimState, Terminal
<1>5. PICK e : e = EffectiveLock(q, l).status
  OBVIOUS
<1>6. Verification(q, l) = IF "completed" \in {e, q.status} THEN "succeeded"
                           ELSE IF e = "active" THEN "running"
                           ELSE IF q.status = "queued" THEN "not-started"
                           ELSE "unknown"
  BY <1>5 DEF Verification
<1>7. e = IF Overtaken(q, l) THEN l.status ELSE "none"
  BY <1>2, <1>5
<1>8. l.status = "active" => Overtaken(q, l)
  BY DEF Overtaken
<1>9. Verification(q, l) =
        IF q.status = "completed" \/ (Overtaken(q, l) /\ l.status = "completed")
        THEN "succeeded"
        ELSE IF l.status = "active" THEN "running"
        ELSE IF q.status = "queued" THEN "not-started"
        ELSE "unknown"
  BY <1>6, <1>7, <1>8
<1>10. CASE q.blocker
  BY <1>10 DEF Shown, Views
<1>11. CASE ~q.blocker
  <2>1. Shown(q, l) = [state |-> ClaimState(q, l), verification |-> Verification(q, l)]
    BY <1>11 DEF Shown
  <2>2. ClaimState(q, l) \in {"queued", "active"} \cup Terminal
    BY <1>1, <1>3, <1>4
  <2>3. Verification(q, l) \in {"succeeded", "running", "not-started", "unknown"}
    BY <1>9
  <2>4. Shown(q, l) \in Views
    BY <2>1, <2>2, <2>3 DEF Views
  <2>5. Shown(q, l).state = ClaimState(q, l) /\ Shown(q, l).verification = Verification(q, l)
    BY <2>1
  <2>6. Shown(q, l).state # "none"
    BY <2>2, <2>5 DEF Terminal
  <2> QED
    BY <1>4, <1>9, <1>11, <2>4, <2>5, <2>6
<1> QED
  BY <1>10, <1>11

(* Its projection held, piece by piece.                                    *)
LEMMA FollowedWasSo ==
  ASSUME NEW f, Coherent(f), NEW q \in Record, q.status # "none", NEW H, Followed(q, f, H)
  PROVE  Had(Shown(q, f.lock), H)
<1> DEFINE l == f.lock
<1>1. /\ q.seq \in Nat /\ q.blocker \in BOOLEAN
      /\ q.status \in {"queued"} \cup Terminal
  BY DEF Record
<1>2. l \in Lock
  BY DEF Coherent, Files
<1>3. PICK v : v = Shown(q, l)
  OBVIOUS
<1>4. Remembered(q, l, H) /\ Witnessed(q, l, H) /\ Fact(f) \in H
  BY DEF Followed
<1>5. l.status = "active" => HadState(H, "active") /\ HadVerification(H, "running")
  BY <1>4, CoherentFacts DEF HadState, HadVerification
<1> HIDE DEF l
<1>6. Overtaken(q, l) => l.status = "active" \/ (l.status \in Terminal /\ l.seq >= q.seq)
  BY DEF Overtaken, Stale
<1>7. CASE q.blocker
  <2>1. v.state = "blocked"
    BY <1>2, <1>3, <1>7, ShownCases
  <2> QED
    BY <1>3, <1>4, <1>7, <2>1 DEF Had, Remembered, Terminal, l
<1>8. CASE ~q.blocker
  <2>1. /\ v.state = IF Overtaken(q, l) THEN l.status ELSE q.status
        /\ v.verification =
             IF q.status = "completed" \/ (Overtaken(q, l) /\ l.status = "completed")
             THEN "succeeded"
             ELSE IF l.status = "active" THEN "running"
             ELSE IF q.status = "queued" THEN "not-started"
             ELSE "unknown"
    BY <1>2, <1>3, <1>8, ShownCases
  <2>2. v.state # "blocked"
    BY <1>1, <1>6, <2>1 DEF Terminal
  <2>3. v.state = "queued" => WasClaimable(H)
    BY <1>4, <1>6, <1>8, <2>1 DEF Remembered, Terminal
  <2>4. v.state \in Terminal \cup {"active"} => HadState(H, v.state)
    <3>1. CASE Overtaken(q, l)
      BY <1>4, <1>5, <1>6, <2>1, <3>1 DEF Witnessed
    <3>2. CASE ~Overtaken(q, l)
      BY <1>1, <1>4, <2>1, <3>2 DEF Remembered, Terminal
    <3> QED
      BY <3>1, <3>2
  <2>5. v.state \in Terminal \cup {"active"} => HadVerification(H, v.verification)
    <3>1. CASE q.status = "completed"
      BY <1>4, <2>1, <3>1 DEF Remembered
    <3>2. CASE q.status # "completed" /\ l.status = "active"
      BY <1>5, <2>1, <3>2
    <3>3. CASE q.status = "queued" /\ Overtaken(q, l) /\ l.status # "active"
      BY <1>4, <1>6, <2>1, <3>3 DEF Witnessed
    <3>4. CASE q.status \in {"revoked", "superseded"} /\ l.status # "active"
      <4>1. CASE Overtaken(q, l) /\ l.status = "completed"
        BY <1>4, <1>6, <2>1, <4>1 DEF Witnessed
      <4>2. CASE ~(Overtaken(q, l) /\ l.status = "completed")
        BY <1>4, <2>1, <3>4, <4>2 DEF Remembered
      <4> QED
        BY <4>1, <4>2
    <3>5. CASE q.status = "queued" /\ ~Overtaken(q, l)
      BY <2>1, <3>5 DEF Terminal
    <3> QED
      BY <1>1, <3>1, <3>2, <3>3, <3>4, <3>5 DEF Terminal
  <2>6. Had(v, H)
    BY <2>2, <2>3, <2>4, <2>5 DEF Had, WasClaimable, HadState, HadVerification
  <2> QED
    BY <1>3, <2>6 DEF l
<1> QED
  BY <1>7, <1>8

-----------------------------------------------------------------------------
(* The inductive invariant.                                                *)

Typed ==
  /\ files \in [Item -> Files]
  /\ class \in [Item -> {"owner-controlled-dogfood", "customer-repository"}]
  /\ call \in Call
  /\ at \in {"idle", "records", "audit", "locks", "customers", "owner"}
  /\ todo \subseteq Item /\ open \subseteq Item \ todo /\ replaced \subseteq open
  /\ moved \subseteq Item /\ moves \in Nat
  /\ seen \in [Item -> Record] /\ shown \in [Item -> Views]
  /\ report \in [verdict : Verdict, item : Item \cup {NoItem}]

(* The files of every item fit each other, and so does every record read.  *)
Sound ==
  /\ \A i \in Item : Coherent(files[i])
  /\ \A i \in Item : seen[i].status = "none" <=> seen[i].seq = 0

(* Between two readings nothing is remembered. *)
Rested == at = "idle" => /\ seen = Nothing /\ shown = NothingShown
                         /\ moved = {} /\ todo = {} /\ open = {} /\ replaced = {}

(* What was read of an item that has stood still is how it is. *)
InStep ==
  \A i \in Item \ moved :
    /\ i \in Read => seen[i] = files[i].record
    /\ i \in Displayed => shown[i] = Shown(files[i].record, files[i].lock)

Wanted == IF call.target = NoItem THEN Read ELSE Read \cap {call.target}

(* How far the reader is.  Only what came in meanwhile may escape it, and  *)
(* only what was written meanwhile was replaced. *)
Progress ==
  /\ at = "records" => todo \subseteq Listed
  /\ at = "audit" => todo \cup open \subseteq Locked
  /\ at \in {"records", "audit"} => shown = NothingShown
  /\ at # "idle" => Listed \subseteq Read \cup moved \cup (IF at = "records" THEN todo ELSE {})
  /\ at = "locks" => Displayed \cup todo = Wanted
  /\ at \in {"customers", "owner"} => Displayed = Wanted
  /\ at = "customers" => call.target = NoItem
  /\ replaced \subseteq moved

(* A plan that is not refused yet has a queued item and met no obstacle,   *)
(* and no customer's item that stood still;                                *)
Planned ==
  at \in {"customers", "owner"} =>
    /\ report.item \in Displayed /\ shown[report.item].state = "queued"
    /\ \A i \in Displayed : ~Obstructed(shown[i])
    /\ call.target = NoItem =>
         \A i \in Listed \ moved :
           \/ ~CustomerQueued(i)
           \/ at = "customers" /\ (i \in todo \/ report.verdict = "refused")

(* one that is refused did, unless something moved.  The owner's item is   *)
(* known when it is read.                                                  *)
Judged ==
  /\ at = "customers" =>
       /\ report.verdict \in {"pending", "refused"}
       /\ report.verdict = "refused" /\ moved = {} => \E i \in Item : CustomerQueued(i)
  /\ at = "owner" =>
       /\ todo \subseteq {report.item}
       /\ report.item \notin todo =>
            /\ report.verdict \in {"ready", "refused"}
            /\ report.item \notin moved =>
                 (report.verdict = "ready" <=> class[report.item] = "owner-controlled-dogfood")

(* What was read, and what is shown, of the watched item was so once. *)
Watching ==
  at # "idle" =>
    /\ Fact(files[call.watched]) \in held
    /\ call.watched \in Read => Followed(seen[call.watched], files[call.watched], held)
    /\ Had(shown[call.watched], held)

SInv == Typed /\ Sound /\ Rested /\ InStep /\ Progress /\ Planned /\ Judged /\ Watching

(* What is remembered between two readings is well typed. *)
LEMMA NothingTyped ==
  /\ Nothing \in [Item -> Record] /\ NothingShown \in [Item -> Views]
  /\ \A i \in Item : Nothing[i].seq = 0 /\ Nothing[i].status = "none"
  /\ \A i \in Item : NothingShown[i] = Unshown
<1>1. NoFiles.record \in Record /\ NoFiles.record.seq = 0 /\ NoFiles.record.status = "none"
  BY DEF NoFiles, Record
<1>2. Unshown \in Views
  BY DEF Unshown, Views
<1> QED
  BY <1>1, <1>2 DEF Nothing, NothingShown

(* A call that names an item is watched at that item. *)
LEMMA CallTyped ==
  ASSUME call \in Call
  PROVE  call.watched \in Item /\ call.target \in {NoItem, call.watched}
BY StatusAssumption DEF Call

(* Only a listed record is queued or finished.                             *)
LEMMA ListedRecords ==
  ASSUME Typed, Sound, NEW i \in Item
  PROVE  /\ i \in Listed <=> files[i].record.status # "none"
         /\ files[i].record \in Record /\ files[i].lock \in Lock
         /\ i \in Locked => i \in Listed
<1>1. /\ Coherent(files[i]) /\ files[i].record.seq \in Nat /\ files[i].lock.seq \in Nat
      /\ files[i].record \in Record /\ files[i].lock \in Lock
  BY DEF Sound, Coherent, Files, Record, Lock
<1> QED
  BY <1>1 DEF Coherent, Listed, Locked

(* The invariant holds at first ... *)
LEMMA InitInv == Init => SInv
<1> SUFFICES ASSUME Init PROVE SInv
  OBVIOUS
<1>1. NoFiles \in Files /\ Coherent(NoFiles)
  BY NoFilesCohere DEF Coherent
<1>2. Typed
  BY <1>1, NothingTyped DEF Init, Typed, Verdict
<1>3. Sound
  BY <1>1, NothingTyped DEF Init, Sound
<1>4. InStep
  BY NothingTyped DEF Init, InStep, Read, Displayed
<1> QED
  BY <1>2, <1>3, <1>4 DEF Init, SInv, Rested, Progress, Planned, Judged, Watching

(* The end of a reading, whatever its report.                              *)
Ends ==
  /\ at' = "idle" /\ todo' = {} /\ open' = {} /\ replaced' = {}
  /\ seen' = Nothing /\ shown' = NothingShown
  /\ held' = {} /\ moved' = {} /\ moves' = 0
  /\ UNCHANGED call
  /\ report' \in [verdict : Verdict, item : Item \cup {NoItem}]

(* ... and a reading that ends starts from nothing again. *)
LEMMA EndsInv ==
  ASSUME SInv, Ends, UNCHANGED <<files, class>>
  PROVE  SInv'
<1>1. Typed'
  BY NothingTyped DEF SInv, Typed, Ends
<1>2. Sound'
  BY NothingTyped DEF SInv, Sound, Ends
<1>3. InStep'
  BY NothingTyped DEF Ends, InStep, Read, Displayed
<1> QED
  BY <1>1, <1>2, <1>3 DEF Ends, SInv, Rested, Progress, Planned, Judged, Watching

(* A reading begins with the fact that holds now. *)
LEMMA StartInv ==
  ASSUME SInv, NEW c \in Call, Start(c), UNCHANGED <<files, class>>
  PROVE  SInv'
<1> USE DEF Start
<1>1. Listed \subseteq Item /\ Listed' = Listed /\ Read' = Read /\ Displayed' = Displayed
  BY DEF Listed, Read, Displayed
<1>2. /\ seen = Nothing /\ shown = NothingShown /\ Read = {} /\ Displayed = {}
      /\ moved = {} /\ open = {} /\ replaced = {}
  BY NothingTyped DEF SInv, Rested, Read, Displayed
<1>3. Typed'
  BY <1>1, <1>2 DEF SInv, Typed, Verdict
<1>4. Sound'
  BY DEF SInv, Sound
<1>5. InStep'
  BY <1>1, <1>2 DEF InStep
<1>6. Progress'
  BY <1>1, <1>2 DEF Progress
<1>7. Watching'
  <2>1. call' = c /\ c.watched \in Item
    BY StatusAssumption DEF Call
  <2>2. Fact(files[c.watched]) \in held'
    OBVIOUS
  <2>3. Had(shown[c.watched], held')
    BY <1>2, <2>1, NothingTyped DEF Had, Unshown, Terminal
  <2> QED
    BY <1>1, <1>2, <2>1, <2>2, <2>3 DEF Watching
<1> QED
  BY <1>3, <1>4, <1>5, <1>6, <1>7 DEF SInv, Rested, Planned, Judged

(* A record that is read is listed, and followed from then on. *)
LEMMA ReadRecordInv ==
  ASSUME SInv, NEW i \in Item, ReadRecord(i), UNCHANGED <<files, class>>
  PROVE  SInv'
<1> USE DEF ReadRecord, Open
<1>1. Typed /\ Sound /\ i \in Listed /\ at = "records"
  BY DEF SInv, Progress
<1>2. /\ seen' = [seen EXCEPT ![i] = files[i].record] /\ seen \in [Item -> Record]
      /\ files[i].record \in Record /\ files[i].record.seq # 0 /\ Coherent(files[i])
  BY <1>1, ListedRecords DEF Typed, Sound, Listed
<1>3. /\ seen'[i] = files[i].record
      /\ \A j \in Item \ {i} : seen'[j] = seen[j]
      /\ seen' \in [Item -> Record]
  BY <1>2
<1>4. Read' = Read \cup {i} /\ Displayed' = Displayed /\ Listed' = Listed
  BY <1>2, <1>3 DEF Read, Displayed, Listed
<1>5. shown = NothingShown /\ Displayed = {}
  BY <1>1, NothingTyped DEF SInv, Progress, Displayed
<1>6. Typed'
  BY <1>1, <1>3 DEF Typed
<1>7. Sound'
  BY <1>1, <1>2, <1>3 DEF Sound, Coherent
<1>8. InStep'
  BY <1>3, <1>4, <1>5 DEF SInv, InStep
<1>9. Progress'
  BY <1>1, <1>4 DEF SInv, Progress
<1>10. Watching'
  <2> DEFINE w == call.watched
  <2>1. w \in Item /\ call' = call
    BY <1>1, CallTyped DEF Typed
  <2>2. Fact(files[w]) \in held /\ Had(shown[w], held)
    BY <1>1 DEF SInv, Watching
  <2>3. CASE w = i
    BY <1>2, <1>3, <2>1, <2>2, <2>3, FollowedAtFirst DEF Watching
  <2>4. CASE w # i
    BY <1>1, <1>3, <1>4, <2>1, <2>2, <2>4 DEF SInv, Watching
  <2> QED
    BY <2>3, <2>4
<1> QED
  BY <1>1, <1>6, <1>7, <1>8, <1>9, <1>10 DEF SInv, Rested, Planned, Judged

(* The locks are listed, which is all that is kept of them.                *)
LEMMA ListLocksInv ==
  ASSUME SInv, ListLocks, UNCHANGED <<files, class>>
  PROVE  SInv'
<1> USE DEF ListLocks, GoOn, AllRead
<1>1. /\ Read' = Read /\ Displayed' = Displayed /\ Listed' = Listed /\ Locked' = Locked
      /\ Wanted' = Wanted /\ Locked \subseteq Item
  BY DEF Read, Displayed, Listed, Locked, Wanted
<1>2. Typed' /\ Progress'
  BY <1>1 DEF SInv, Typed, Progress
<1> QED
  BY <1>1, <1>2 DEF SInv, Sound, Rested, InStep, Planned, Judged, Watching

(* Nothing is taken from a lock in the audit. *)
LEMMA AuditLockInv ==
  ASSUME SInv, NEW i \in Item, AuditLock(i), UNCHANGED <<files, class>>
  PROVE  SInv'
<1> USE DEF AuditLock, Open
<1>1. /\ Read' = Read /\ Displayed' = Displayed /\ Listed' = Listed /\ Locked' = Locked
      /\ Wanted' = Wanted
  BY DEF Read, Displayed, Listed, Locked, Wanted
<1>2. Typed' /\ Progress'
  BY <1>1 DEF SInv, Typed, Progress
<1> QED
  BY <1>1, <1>2 DEF SInv, Sound, Rested, InStep, Planned, Judged, Watching

(* A file that is compared is read, or the reading ends. *)
LEMMA CompareInv ==
  ASSUME SInv, NEW i \in Item, Compare(i), UNCHANGED <<files, class>>
  PROVE  SInv'
<1>1. CASE i \in replaced \/ (at = "audit" /\ i \notin Read)
  <2>1. report.item \in Item \cup {NoItem}
    BY DEF SInv, Typed
  <2>2. Ends
    BY <1>1, <2>1 DEF Compare, Report, Ends, Verdict
  <2> QED
    BY <2>2, EndsInv
<1>2. CASE ~(i \in replaced \/ (at = "audit" /\ i \notin Read))
  <2>1. /\ i \notin replaced /\ open' = open \ {i}
        /\ UNCHANGED <<call, at, todo, replaced, seen, shown, report, held, moved, moves>>
    BY <1>2 DEF Compare
  <2>2. /\ Read' = Read /\ Displayed' = Displayed /\ Listed' = Listed /\ Locked' = Locked
        /\ Wanted' = Wanted
    BY <2>1 DEF Read, Displayed, Listed, Locked, Wanted
  <2>3. Typed' /\ Progress'
    BY <2>1, <2>2 DEF SInv, Typed, Progress
  <2>4. Rested' /\ Planned' /\ Judged'
    BY <2>1, <2>2 DEF SInv, Rested, Planned, Judged, CustomerQueued
  <2> QED
    BY <2>1, <2>2, <2>3, <2>4 DEF SInv, Sound, InStep, Watching
<1> QED
  BY <1>1, <1>2

(* The locks to be shown are chosen; nothing is shown yet.                 *)
LEMMA ChooseLocksInv ==
  ASSUME SInv, ChooseLocks, UNCHANGED <<files, class>>
  PROVE  SInv'
<1>1. Typed /\ Sound /\ at = "audit" /\ todo = {} /\ open = {}
  BY DEF SInv, ChooseLocks, AllRead
<1>2. call.target \in Item \cup {NoItem}
  BY <1>1, CallTyped DEF Typed
<1>3. CASE Report("absent", call.target)
  <2>1. Ends
    BY <1>2, <1>3 DEF Report, Ends, Verdict
  <2> QED
    BY <2>1, EndsInv
<1>4. CASE GoOn("locks", Wanted) /\ UNCHANGED report
  <2> USE DEF GoOn
  <2>1. /\ Read' = Read /\ Displayed' = Displayed /\ Listed' = Listed /\ Wanted' = Wanted
        /\ Read \subseteq Item
    BY <1>4 DEF Read, Displayed, Listed, Wanted
  <2>2. Displayed = {}
    BY <1>1, NothingTyped DEF SInv, Progress, Displayed
  <2>3. Typed'
    BY <1>1, <1>4, <2>1 DEF Typed, Wanted
  <2>4. Progress'
    BY <1>1, <1>4, <2>1, <2>2 DEF SInv, Progress
  <2> QED
    BY <1>1, <1>4, <2>1, <2>3, <2>4 DEF SInv, Sound, Rested, InStep, Planned, Judged, Watching
<1> QED
  BY <1>3, <1>4 DEF ChooseLocks, Wanted

(* A lock that is read is shown with the record that was followed. *)
LEMMA ReadLockInv ==
  ASSUME SInv, NEW i \in Item, ReadLock(i), UNCHANGED <<files, class>>
  PROVE  SInv'
<1> USE DEF ReadLock
<1>0. /\ i \in todo /\ todo' = todo \ {i} /\ open' \in {open, open \cup {i}}
      /\ UNCHANGED <<call, at, replaced, seen, report, held, moved, moves>>
  BY DEF Open
<1>1. Typed /\ Sound /\ at = "locks" /\ i \in Wanted
  BY <1>0 DEF SInv, Progress
<1>2. i \in Read /\ seen[i].seq # 0 /\ seen[i].status # "none" /\ seen[i] \in Record
  BY <1>1 DEF Wanted, Read, Sound, Typed
<1>3. Coherent(files[i]) /\ files[i].lock \in Lock
  BY <1>1, ListedRecords DEF Sound
<1>4. PICK v : v = Shown(seen[i], files[i].lock)
  OBVIOUS
<1>5. v \in Views /\ v # Unshown
  BY <1>2, <1>3, <1>4, ShownCases DEF Unshown
<1>6. shown' = [shown EXCEPT ![i] = v] /\ shown \in [Item -> Views]
  BY <1>1, <1>4 DEF Typed
<1>7. shown'[i] = v /\ (\A j \in Item \ {i} : shown'[j] = shown[j]) /\ shown' \in [Item -> Views]
  BY <1>5, <1>6
<1>8. /\ Displayed' = Displayed \cup {i} /\ Read' = Read /\ Listed' = Listed
      /\ Wanted' = Wanted
  BY <1>0, <1>5, <1>7 DEF Displayed, Read, Listed, Wanted
<1>9. Typed'
  BY <1>0, <1>1, <1>7 DEF Typed
<1>10. InStep'
  BY <1>0, <1>2, <1>4, <1>7, <1>8 DEF SInv, InStep
<1>11. Progress'
  BY <1>0, <1>1, <1>8 DEF SInv, Progress
<1>12. Watching'
  <2> DEFINE w == call.watched
  <2>1. w \in Item /\ call' = call
    BY <1>0, <1>1, CallTyped DEF Typed
  <2>2. /\ Fact(files[w]) \in held
        /\ w \in Read => Followed(seen[w], files[w], held)
        /\ Had(shown[w], held)
    BY <1>1 DEF SInv, Watching
  <2>3. w = i => Had(v, held)
    BY <1>2, <1>3, <1>4, <2>2, FollowedWasSo
  <2>4. Had(shown'[w], held)
    BY <1>7, <2>1, <2>2, <2>3
  <2> QED
    BY <1>0, <1>8, <2>1, <2>2, <2>4 DEF Watching
<1> QED
  BY <1>0, <1>1, <1>9, <1>10, <1>11, <1>12 DEF SInv, Sound, Rested, Planned, Judged

(* Who is selected is displayed; an obstacle would have been selected.     *)
LEMMA Selected ==
  ASSUME NEW i \in Selection
  PROVE  /\ i \in Displayed
         /\ ~Obstructed(shown[i]) => \A j \in Displayed : ~Obstructed(shown[j])
BY DEF Selection

(* A plan goes on only from a queued item, hence without an obstacle. *)
LEMMA PlanInv ==
  ASSUME SInv, Plan, UNCHANGED <<files, class>>
  PROVE  SInv'
<1>1. Typed /\ Sound /\ at = "locks" /\ todo = {} /\ open = {} /\ Displayed \subseteq Item
  BY DEF SInv, Plan, AllRead, Displayed
<1>2. PICK i \in Selection :
        IF shown[i].state # "queued"
        THEN Report("refused", i)
        ELSE /\ report' = [verdict |-> "pending", item |-> i]
             /\ IF call.target = NoItem THEN GoOn("customers", Listed) ELSE GoOn("owner", {i})
  BY DEF Plan
<1>3. i \in Displayed /\ i \in Item
  BY <1>1, <1>2, Selected
<1>4. CASE shown[i].state # "queued"
  <2>1. Ends
    BY <1>2, <1>3, <1>4 DEF Report, Ends, Verdict
  <2> QED
    BY <2>1, EndsInv
<1>5. CASE shown[i].state = "queued"
  <2>1. /\ report' = [verdict |-> "pending", item |-> i]
        /\ at' = IF call.target = NoItem THEN "customers" ELSE "owner"
        /\ todo' = IF call.target = NoItem THEN Listed ELSE {i}
        /\ UNCHANGED <<call, open, replaced, seen, shown, held, moved, moves>>
    BY <1>2, <1>5 DEF GoOn
  <2>2. /\ Read' = Read /\ Displayed' = Displayed /\ Listed' = Listed /\ Wanted' = Wanted
        /\ Listed \subseteq Item
    BY <2>1 DEF Read, Displayed, Listed, Wanted
  <2>3. Typed'
    BY <1>1, <1>3, <2>1, <2>2 DEF Typed, Verdict
  <2>4. Progress'
    BY <1>1, <2>1, <2>2 DEF SInv, Progress
  <2>5. ~Obstructed(shown[i])
    BY <1>5 DEF Obstructed
  <2>6. \A j \in Displayed : ~Obstructed(shown[j])
    BY <1>2, <2>5, Selected
  <2>7. Planned'
    BY <1>3, <1>5, <2>1, <2>2, <2>6 DEF Planned
  <2>8. Judged'
    BY <2>1 DEF Judged
  <2> QED
    BY <1>1, <2>1, <2>2, <2>3, <2>4, <2>7, <2>8 DEF SInv, Sound, Rested, InStep, Watching
<1> QED
  BY <1>4, <1>5

(* A customer's item will end the plan; one that is none is left behind. *)
LEMMA SeekCustomerInv ==
  ASSUME SInv, NEW i \in Item, SeekCustomer(i), UNCHANGED <<files, class>>
  PROVE  SInv'
<1> USE DEF SeekCustomer, Open
<1>1. Typed /\ Sound /\ at = "customers" /\ i \in todo /\ call.target = NoItem
  BY DEF SInv, Progress
<1>2. /\ report' = IF CustomerQueued(i) THEN [report EXCEPT !.verdict = "refused"] ELSE report
      /\ report \in [verdict : Verdict, item : Item \cup {NoItem}]
  BY <1>1 DEF CustomerQueued, Judge, Typed
<1>3. /\ report' \in [verdict : Verdict, item : Item \cup {NoItem}]
      /\ report'.item = report.item
      /\ report'.verdict = IF CustomerQueued(i) THEN "refused" ELSE report.verdict
  BY <1>2 DEF Verdict
<1>4. /\ Read' = Read /\ Displayed' = Displayed /\ Listed' = Listed /\ Wanted' = Wanted
      /\ \A j \in Item : CustomerQueued(j)' <=> CustomerQueued(j)
  BY DEF Read, Displayed, Listed, Wanted, CustomerQueued
<1>5. Typed'
  BY <1>1, <1>3 DEF Typed
<1>6. Progress'
  BY <1>1, <1>4 DEF SInv, Progress
<1>7. Planned'
  <2>1. \A j \in Listed \ moved : \/ ~CustomerQueued(j) \/ j \in todo
                                  \/ report.verdict = "refused"
    BY <1>1 DEF SInv, Planned
  <2>2. \A j \in Listed' \ moved' : \/ ~CustomerQueued(j)'
                                    \/ j \in todo' \/ report'.verdict = "refused"
    BY <1>3, <1>4, <2>1 DEF Listed
  <2> QED
    BY <1>1, <1>3, <1>4, <2>2 DEF SInv, Planned
<1>8. Judged'
  BY <1>1, <1>3, <1>4 DEF SInv, Judged
<1> QED
  BY <1>1, <1>4, <1>5, <1>6, <1>7, <1>8 DEF SInv, Sound, Rested, InStep, Watching

(* The selected item is judged by the class it has when it is read. *)
LEMMA ReadOwnerInv ==
  ASSUME SInv, NEW i \in Item, ReadOwner(i), UNCHANGED <<files, class>>
  PROVE  SInv'
<1> USE DEF ReadOwner, Open
<1>1. Typed /\ Sound /\ at = "owner" /\ i \in todo /\ i = report.item
  BY DEF SInv, Judged
<1>2. /\ report' = [report EXCEPT !.verdict = IF class[i] = "owner-controlled-dogfood"
                                             THEN "ready" ELSE "refused"]
      /\ report \in [verdict : Verdict, item : Item \cup {NoItem}]
  BY <1>1 DEF Judge, Typed
<1>3. /\ report' \in [verdict : Verdict, item : Item \cup {NoItem}]
      /\ report'.item = i
      /\ report'.verdict = IF class[i] = "owner-controlled-dogfood" THEN "ready" ELSE "refused"
  BY <1>1, <1>2 DEF Verdict
<1>4. /\ Read' = Read /\ Displayed' = Displayed /\ Listed' = Listed /\ Wanted' = Wanted
      /\ \A j \in Item : CustomerQueued(j)' <=> CustomerQueued(j)
  BY DEF Read, Displayed, Listed, Wanted, CustomerQueued
<1>5. Typed'
  BY <1>1, <1>3 DEF Typed
<1>6. Progress'
  BY <1>1, <1>4 DEF SInv, Progress
<1>7. Planned'
  BY <1>1, <1>3, <1>4 DEF SInv, Planned, Listed
<1>8. Judged'
  BY <1>1, <1>3 DEF SInv, Judged
<1> QED
  BY <1>1, <1>4, <1>5, <1>6, <1>7, <1>8 DEF SInv, Sound, Rested, InStep, Watching

(* When all records are read, the plan is refused or goes on to its item,  *)
(* and when that is read it is decided.                                    *)
LEMMA DecideInv ==
  ASSUME SInv, Decide, UNCHANGED <<files, class>>
  PROVE  SInv'
<1>1. /\ Typed /\ Sound /\ todo = {} /\ open = {} /\ at \in {"customers", "owner"}
      /\ report.item \in Item /\ report.verdict \in Verdict
  BY DEF SInv, Typed, Decide, AllRead, Planned, Displayed
<1>2. CASE Report(report.verdict, report.item)
  <2>1. Ends
    BY <1>1, <1>2 DEF Report, Ends
  <2> QED
    BY <2>1, EndsInv
<1>3. CASE /\ at = "customers" /\ report.verdict = "pending"
           /\ GoOn("owner", {report.item}) /\ UNCHANGED report
  <2> USE DEF GoOn
  <2>1. /\ Read' = Read /\ Displayed' = Displayed /\ Listed' = Listed /\ Wanted' = Wanted
        /\ \A j \in Item : CustomerQueued(j)' <=> CustomerQueued(j)
    BY <1>3 DEF Read, Displayed, Listed, Wanted, CustomerQueued
  <2>2. Typed'
    BY <1>1, <1>3 DEF Typed
  <2>3. Progress'
    BY <1>1, <1>3, <2>1 DEF SInv, Progress
  <2>4. Planned'
    BY <1>1, <1>3, <2>1 DEF SInv, Planned, Listed
  <2>5. Judged'
    BY <1>3 DEF Judged
  <2> QED
    BY <1>1, <1>3, <2>1, <2>2, <2>3, <2>4, <2>5 DEF SInv, Sound, Rested, InStep, Watching
<1> QED
  BY <1>1, <1>2, <1>3 DEF Decide

(* The other reports end the reading. *)
LEMMA StatusInv ==
  ASSUME SInv, Status, UNCHANGED <<files, class>>
  PROVE  SInv'
<1>1. Ends
  BY DEF Status, Report, Ends, Verdict
<1> QED
  BY <1>1, EndsInv

(* So does an explanation. *)
LEMMA ExplainInv ==
  ASSUME SInv, Explain, UNCHANGED <<files, class>>
  PROVE  SInv'
<1>1. Ends
  BY Selected DEF Explain, Report, Ends, Verdict, Displayed
<1> QED
  BY <1>1, EndsInv

(* A write moves its item, adds its fact, and leaves the rest alone. *)
LEMMA WriteInv ==
  ASSUME SInv, NEW i \in Item, Write(i)
  PROVE  SInv'
<1>1. PICK f \in Successors(files[i]) :
        /\ held' = IF at = "idle" \/ i # call.watched THEN held ELSE held \cup {Fact(f)}
        /\ files' = [files EXCEPT ![i] = f]
        /\ \E c \in {"owner-controlled-dogfood", "customer-repository"} :
             class' = [class EXCEPT ![i] = c]
        /\ replaced' = IF i \in open /\ FileRead(f) # FileRead(files[i])
                       THEN replaced \cup {i} ELSE replaced
  BY DEF Write
<1>2. /\ UNCHANGED <<call, at, todo, open, seen, shown, report>>
      /\ at = "idle" => UNCHANGED <<moved, moves>>
      /\ at # "idle" => moves' = moves + 1 /\ moved' = moved \cup {i}
  BY DEF Write
<1>3. Typed /\ Sound
  BY DEF SInv
<1>4. /\ Coherent(files[i]) /\ Coherent(f) /\ f \in Files
      /\ files[i].record.seq <= f.record.seq /\ files[i].lock.seq <= f.lock.seq
  <2>1. Coherent(files[i])
    BY <1>3 DEF Sound
  <2>2. Coherent(f) /\ (RecordMoves(files[i], f) \/ LockMoves(files[i], f))
    BY <1>1, <2>1, WriteMoves
  <2>3. f.record.seq \in Nat /\ f.lock.seq \in Nat /\ f \in Files
    BY <2>2 DEF Coherent, Files, Record, Lock
  <2> QED
    BY <2>1, <2>2, <2>3 DEF RecordMoves, LockMoves
<1>5. /\ files'[i] = f /\ (\A j \in Item \ {i} : files'[j] = files[j]) /\ files' \in [Item -> Files]
      /\ \A j \in Item \ {i} : class'[j] = class[j]
      /\ class' \in [Item -> {"owner-controlled-dogfood", "customer-repository"}]
  BY <1>1, <1>3, <1>4 DEF Typed
<1>6. /\ Read' = Read /\ Displayed' = Displayed /\ Wanted' = Wanted
      /\ Listed \subseteq Listed' /\ Listed' \subseteq Listed \cup {i}
  <2>1. files[i].record.seq \in Nat /\ f.record.seq \in Nat
    BY <1>3, <1>4 DEF Typed, Files, Record
  <2>2. files[i].record.seq # 0 => f.record.seq # 0
    BY <1>4, <2>1
  <2> QED
    BY <1>2, <1>5, <2>2 DEF Read, Displayed, Wanted, Listed
<1>7. /\ replaced' \in {replaced, replaced \cup {i}}
      /\ i \notin open => replaced' = replaced
  BY <1>1
<1>8. Typed'
  <2>1. replaced' \subseteq open
    BY <1>7, <1>3 DEF Typed
  <2> QED
    BY <1>2, <1>3, <1>5, <2>1 DEF Typed
<1>9. Sound'
  BY <1>2, <1>3, <1>4, <1>5 DEF Sound
<1>10. Rested'
  BY <1>7, <1>2 DEF SInv, Rested
<1>11. InStep'
  <2>1. CASE at = "idle"
    <3>1. Read = {} /\ Displayed = {}
      BY <2>1, NothingTyped DEF SInv, Rested, Read, Displayed
    <3> QED
      BY <1>6, <3>1 DEF InStep
  <2>2. CASE at # "idle"
    BY <1>2, <1>5, <1>6, <2>2 DEF SInv, InStep
  <2> QED
    BY <2>1, <2>2
<1>12. Progress'
  <2>1. Locked \subseteq Locked'
    <3>1. files[i].lock.status # "none" => f.lock.status # "none"
      <4>1. files[i].lock.seq \in Nat /\ f.lock.seq \in Nat
        BY <1>4 DEF Coherent, Files, Lock
      <4> QED
        BY <1>4, <4>1 DEF Coherent
    <3> QED
      BY <1>5, <3>1 DEF Locked
  <2>2. replaced' \subseteq moved'
    <3>1. CASE at = "idle"
      BY <1>7, <1>2, <3>1 DEF SInv, Rested, Progress
    <3>2. CASE at # "idle"
      BY <1>7, <1>2, <3>2 DEF SInv, Progress
    <3> QED
      BY <3>1, <3>2
  <2>3. Listed' \subseteq Listed \cup moved' \/ at = "idle"
    BY <1>2, <1>6
  <2>4. moved \subseteq moved'
    BY <1>2
  <2>5. at = "records" => Listed \subseteq Read \cup moved \cup todo
    BY DEF SInv, Progress
  <2>6. at \notin {"idle", "records"} => Listed \subseteq Read \cup moved
    BY DEF SInv, Progress
  <2>7. at' # "idle" =>
          Listed' \subseteq Read' \cup moved' \cup (IF at' = "records" THEN todo' ELSE {})
    BY <1>2, <1>6, <2>3, <2>4, <2>5, <2>6
  <2> QED
    BY <1>2, <1>6, <2>1, <2>2, <2>7 DEF SInv, Progress
<1>13. Planned'
  <2> SUFFICES ASSUME at \in {"customers", "owner"} PROVE Planned'
    BY <1>2 DEF Planned
  <2>1. \A j \in Listed' \ moved' :
          j \in Listed \ moved /\ (CustomerQueued(j)' <=> CustomerQueued(j))
    BY <1>2, <1>5, <1>6 DEF CustomerQueued, Listed
  <2> QED
    BY <1>2, <1>6, <2>1 DEF SInv, Planned
<1>14. Judged'
  <2> SUFFICES ASSUME at \in {"customers", "owner"} PROVE Judged'
    BY <1>2 DEF Judged
  <2>1. moved' # {} /\ i \in moved' /\ moved \subseteq moved'
    BY <1>2
  <2>2. report.item \in Item
    BY DEF SInv, Planned, Displayed
  <2>3. report.item \notin moved' => class'[report.item] = class[report.item]
    BY <1>5, <2>1, <2>2
  <2> QED
    BY <1>2, <2>1, <2>3 DEF SInv, Judged
<1>15. Watching'
  <2> SUFFICES ASSUME at # "idle" PROVE Watching'
    BY <1>2 DEF Watching
  <2> DEFINE w == call.watched
  <2>1. w \in Item /\ call' = call
    BY <1>2, <1>3, CallTyped DEF Typed
  <2>2. /\ Fact(files[w]) \in held
        /\ w \in Read => Followed(seen[w], files[w], held)
        /\ Had(shown[w], held)
    BY DEF SInv, Watching
  <2>3. CASE w # i
    BY <1>1, <1>2, <1>5, <1>6, <2>1, <2>2, <2>3 DEF Watching
  <2>4. CASE w = i
    <3>1. held' = held \cup {Fact(f)}
      BY <1>1, <2>4
    <3>2. w \in Read => Followed(seen[w], f, held \cup {Fact(f)})
      <4>1. seen[w].seq \in Nat
        BY <1>3, <2>1 DEF Typed, Record
      <4> QED
        BY <1>1, <1>4, <2>2, <2>4, <4>1, FollowedOn
    <3>3. Had(shown[w], held \cup {Fact(f)})
      BY <2>2 DEF Had
    <3> QED
      BY <1>2, <1>5, <1>6, <2>1, <2>4, <3>1, <3>2, <3>3 DEF Watching
  <2> QED
    BY <2>3, <2>4
<1> QED
  BY <1>8, <1>9, <1>10, <1>11, <1>12, <1>13, <1>15, <1>14 DEF SInv

(* Every step keeps the invariant. *)
LEMMA NextInv == SInv /\ [Next]_statusVars => SInv'
<1> SUFFICES ASSUME SInv, [Next]_statusVars PROVE SInv'
  OBVIOUS
<1>1. CASE ReaderStep
  <2>1. UNCHANGED <<files, class>>
    BY <1>1 DEF ReaderStep
  <2>2. CASE \E c \in Call : Start(c)
    BY <2>1, <2>2, StartInv
  <2>3. CASE \E i \in Item : ReadRecord(i) \/ AuditLock(i) \/ ReadLock(i)
    BY <2>1, <2>3, ReadRecordInv, AuditLockInv, ReadLockInv
  <2>4. CASE \E i \in Item : SeekCustomer(i) \/ ReadOwner(i) \/ Compare(i)
    BY <2>1, <2>4, SeekCustomerInv, ReadOwnerInv, CompareInv
  <2>5. CASE ListLocks \/ ChooseLocks
    BY <2>1, <2>5, ListLocksInv, ChooseLocksInv
  <2>6. CASE Status \/ Explain
    BY <2>1, <2>6, StatusInv, ExplainInv
  <2>7. CASE Plan \/ Decide
    BY <2>1, <2>7, PlanInv, DecideInv
  <2> QED
    BY <1>1, <2>2, <2>3, <2>4, <2>5, <2>6, <2>7 DEF ReaderStep
<1>2. CASE \E i \in Item : Write(i)
  BY <1>2, WriteInv
<1>3. CASE UNCHANGED statusVars
  <2>1. /\ Read' = Read /\ Displayed' = Displayed /\ Listed' = Listed /\ Locked' = Locked
        /\ Wanted' = Wanted /\ \A i \in Item : CustomerQueued(i)' <=> CustomerQueued(i)
    BY <1>3 DEF Read, Displayed, Listed, Locked, Wanted, CustomerQueued, statusVars
  <2>2. Typed' /\ Sound' /\ Rested' /\ InStep' /\ Progress'
    BY <1>3, <2>1 DEF SInv, Typed, Sound, Rested, InStep, Progress, statusVars
  <2>3. Planned'
    BY <1>3, <2>1 DEF SInv, Planned, statusVars, Listed
  <2>4. Judged' /\ Watching'
    BY <1>3, <2>1 DEF SInv, Judged, Watching, statusVars
  <2> QED
    BY <2>2, <2>3, <2>4 DEF SInv
<1> QED
  BY <1>1, <1>2, <1>3 DEF Next

(* It holds of every behaviour.                                            *)
LEMMA Invariance == Spec => []SInv
BY InitInv, NextInv, PTL DEF Spec

-----------------------------------------------------------------------------
(* The type invariant: the variables have their shapes, and only what was  *)
(* read is shown.                                                          *)
THEOREM TypeCorrect == Spec => []TypeOK
<1>1. SInv => TypeOK
  <2> SUFFICES ASSUME SInv PROVE TypeOK
    OBVIOUS
  <2>1. Displayed \subseteq Read
    <3>1. at \in {"idle", "records", "audit"} => Displayed = {}
      BY NothingTyped DEF SInv, Rested, Progress, Displayed
    <3>2. at \in {"locks", "customers", "owner"} => Displayed \subseteq Wanted
      BY DEF SInv, Progress
    <3> QED
      BY <3>1, <3>2 DEF SInv, Typed, Wanted
  <2>2. \A i \in Item : shown[i] # Unshown => seen[i].seq # 0
    BY <2>1 DEF Displayed, Read
  <2>3. at = "owner" => report.item \in Displayed
    BY DEF SInv, Planned
  <2>4. call.watched \in Item /\ call.target \in {NoItem, call.watched}
    BY CallTyped DEF SInv, Typed
  <2> QED
    BY <2>2, <2>3, <2>4 DEF SInv, Typed, TypeOK
<1> QED
  BY <1>1, Invariance, PTL

(* What is shown can be acted on: claim, complete or stop, and enqueue or  *)
(* its links are not refused by the guards that look at the two files.     *)
THEOREM AdviceTheorem == Spec => []AdviceCanBeFollowed
<1>1. SInv => AdviceCanBeFollowed
  <2> SUFFICES ASSUME SInv, NEW i \in Listed, NEW v, v = Shown(files[i].record, files[i].lock)
               PROVE  /\ v.state = "queued" => Claimed(files[i]) # {}
                      /\ v.state = "active" => Closed(files[i]) # {}
                      /\ v.state \in Terminal => Opened(files[i]) # {}
    BY DEF AdviceCanBeFollowed
  <2> DEFINE q == files[i].record
             l == files[i].lock
  <2>1. i \in Item /\ q \in Record /\ l \in Lock /\ q.status # "none"
    BY ListedRecords DEF SInv, Listed
  <2>2. /\ q.status \in {"queued"} \cup Terminal
        /\ l.status \in {"none", "active"} \cup Terminal
    BY <2>1 DEF Record, Lock
  <2>3. /\ q.blocker => v.state = "blocked"
        /\ ~q.blocker => v.state = IF Overtaken(q, l) THEN l.status ELSE q.status
    BY <2>1, ShownCases
  <2>4. v.state = "queued" => Claimed(files[i]) # {}
    <3> SUFFICES ASSUME v.state = "queued" PROVE Claimed(files[i]) # {}
      OBVIOUS
    <3>1. ~Overtaken(q, l) /\ q.status = "queued"
      BY <2>2, <2>3 DEF Overtaken, Stale, Terminal
    <3>2. q.status = "queued" /\ ~Stale(q, l) /\ ~Active(files[i])
      BY <3>1 DEF Overtaken, Active
    <3>3. Claimed(files[i]) = WithLock(files[i], q.seq, {"active"})
      BY <3>2 DEF Claimed, Provided
    <3> QED
      BY <3>3 DEF WithLock
  <2>5. v.state = "active" => Closed(files[i]) # {}
    <3> SUFFICES ASSUME v.state = "active" PROVE Closed(files[i]) # {}
      OBVIOUS
    <3>1. Active(files[i])
      BY <2>2, <2>3 DEF Active, Terminal
    <3>2. Closed(files[i]) = WithLock(files[i], l.seq, Terminal)
      BY <3>1 DEF Closed, Provided
    <3> QED
      BY <3>2 DEF WithLock, Terminal
  <2>6. v.state \in Terminal => Opened(files[i]) # {}
    <3> SUFFICES ASSUME v.state \in Terminal PROVE Opened(files[i]) # {}
      OBVIOUS
    <3>1. ~Active(files[i])
      BY <2>2, <2>3 DEF Active, Terminal, Overtaken
    <3>2. Opened(files[i]) = WithRecord(files[i], q.seq + 1, "queued", BOOLEAN)
      BY <3>1 DEF Opened, Provided
    <3> QED
      BY <3>2 DEF WithRecord
  <2> QED
    BY <2>4, <2>5, <2>6
<1> QED
  BY <1>1, Invariance, PTL

-----------------------------------------------------------------------------
(* The reports there are.                                                  *)

TellsMalformed(i) ==
  /\ at \in {"records", "audit", "locks"} /\ i \in open
  /\ i \in replaced \/ (at = "audit" /\ i \notin Read)
  /\ report'.verdict = "malformed"

TellsError(i) ==
  at \in {"customers", "owner"} /\ i \in replaced /\ report'.verdict = "error"

TellsAbsent ==
  at = "audit" /\ AllRead /\ Wanted = {} /\ report'.verdict = "absent"

TellsStatus ==
  /\ at = "locks" /\ AllRead /\ call.target = NoItem
  /\ report'.verdict = IF \E i \in Displayed : Obstructed(shown[i]) THEN "blocked" ELSE "ok"

TellsWhy(i) ==
  /\ at = "locks" /\ AllRead /\ i \in Selection
  /\ report'.verdict = IF Obstructed(shown[i]) THEN "blocked" ELSE "ok"

RefusesItem(i) ==
  /\ at = "locks" /\ AllRead /\ i \in Selection
  /\ shown[i].state # "queued" /\ report'.verdict = "refused"

RefusesCustomer ==
  at = "customers" /\ AllRead /\ report.verdict = "refused" /\ report'.verdict = "refused"

TellsOwner ==
  at = "owner" /\ AllRead /\ report' = report

(* A reading ends in one of these ways. *)
LEMMA ReportCases ==
  ASSUME SInv, [Next]_statusVars, Reporting
  PROVE  \/ TellsAbsent \/ TellsStatus \/ TellsOwner \/ RefusesCustomer
         \/ \E i \in Item : TellsMalformed(i) \/ TellsError(i) \/ TellsWhy(i) \/ RefusesItem(i)
<1>1. at # "idle" /\ at' = "idle" /\ at' # at
  BY DEF Reporting
<1>2. Selection \subseteq Item
  BY Selected DEF Displayed
<1>3. ASSUME NEW i \in Item, Compare(i)
      PROVE  TellsMalformed(i) \/ TellsError(i)
  <2>1. /\ i \in open
        /\ i \in replaced \/ (at = "audit" /\ i \notin Read)
        /\ Report(IF at \in {"customers", "owner"} THEN "error" ELSE "malformed", report.item)
    BY <1>1, <1>3 DEF Compare
  <2>2. at \in {"records", "audit", "locks", "customers", "owner"}
    BY <1>1 DEF SInv, Typed
  <2> QED
    BY <2>1, <2>2 DEF Report, TellsMalformed, TellsError
<1>4. CASE ChooseLocks
  BY <1>1, <1>4 DEF ChooseLocks, Wanted, Report, GoOn, TellsAbsent
<1>5. CASE Status
  BY <1>5 DEF Status, Report, TellsStatus
<1>6. CASE Explain
  BY <1>2, <1>6 DEF Explain, Report, TellsWhy
<1>7. CASE Plan
  <2>1. PICK i \in Selection :
          IF shown[i].state # "queued"
          THEN Report("refused", i)
          ELSE at' = IF call.target = NoItem THEN "customers" ELSE "owner"
    BY <1>7 DEF Plan, GoOn
  <2>2. Report("refused", i) /\ shown[i].state # "queued"
    BY <1>1, <2>1
  <2>3. RefusesItem(i)
    BY <1>7, <2>1, <2>2 DEF Plan, Report, RefusesItem
  <2> QED
    BY <1>2, <2>3
<1>8. CASE Decide
  <2>1. /\ AllRead
        /\ at = "owner" \/ (at = "customers" /\ report.verdict = "refused")
        /\ Report(report.verdict, report.item)
    BY <1>1, <1>8 DEF Decide, GoOn
  <2>2. report' = [verdict |-> report.verdict, item |-> report.item]
    BY <2>1 DEF Report
  <2>3. report' = report
    BY <2>2 DEF SInv, Typed
  <2> QED
    BY <2>1, <2>3 DEF RefusesCustomer, TellsOwner
<1>9. ASSUME NEW c \in Call, Start(c) PROVE FALSE
  BY <1>1, <1>9 DEF Start
<1>10. ASSUME NEW i \in Item, \/ ReadRecord(i) \/ AuditLock(i) \/ ReadLock(i)
                              \/ SeekCustomer(i) \/ ReadOwner(i) \/ Write(i)
       PROVE  FALSE
  BY <1>1, <1>10 DEF ReadRecord, AuditLock, ReadLock, SeekCustomer, ReadOwner, Open, Write
<1>11. CASE ListLocks
  BY <1>1, <1>11 DEF ListLocks, GoOn
<1>12. ~UNCHANGED statusVars
  BY <1>1 DEF statusVars
<1> QED
  BY <1>3, <1>4, <1>5, <1>6, <1>7, <1>8, <1>9, <1>10, <1>11, <1>12 DEF Next, ReaderStep

(* What a report rests on: everything that was listed, and stood still, is *)
(* among what is shown, as it is.                                          *)
LEMMA Steadiness ==
  ASSUME SInv, NEW i \in Item, Steady(i)
  PROVE  /\ at = "audit" => i \in Read
         /\ /\ (at = "locks" /\ todo = {}) \/ at \in {"customers", "owner"}
            /\ call.target \in {NoItem, i}
            => i \in Displayed /\ shown[i] = Shown(files[i].record, files[i].lock)
<1>1. i \in Listed /\ i \notin moved
  BY DEF Steady
<1>2. at = "audit" => i \in Read
  BY <1>1 DEF SInv, Progress
<1>3. ASSUME (at = "locks" /\ todo = {}) \/ at \in {"customers", "owner"},
             call.target \in {NoItem, i}
      PROVE  i \in Displayed /\ shown[i] = Shown(files[i].record, files[i].lock)
  <2>1. i \in Read
    BY <1>1, <1>3 DEF SInv, Progress
  <2>2. i \in Wanted
    BY <1>3, <2>1 DEF Wanted
  <2>3. i \in Displayed
    BY <1>3, <2>2 DEF SInv, Progress
  <2> QED
    BY <1>1, <2>3 DEF SInv, InStep
<1> QED
  BY <1>2, <1>3

(* A file is called malformed, or fails a plan, because it was written.    *)
LEMMA Blamed ==
  ASSUME SInv, NEW i \in Item, TellsMalformed(i) \/ TellsError(i)
  PROVE  i \in moved /\ (i \in replaced \/ i \in Locked \ Read)
<1>1. CASE i \in replaced
  BY <1>1 DEF SInv, Progress
<1>2. CASE i \notin replaced
  <2>1. at = "audit" /\ i \in open /\ i \notin Read
    BY <1>2 DEF TellsMalformed, TellsError
  <2>2. i \in Locked /\ i \in Listed
    BY <2>1, ListedRecords DEF SInv, Progress
  <2>3. i \in moved
    BY <2>1, <2>2, Steadiness DEF Steady
  <2> QED
    BY <2>1, <2>2, <2>3
<1> QED
  BY <1>1, <1>2

(* Which report calls a file malformed, and which says that it failed. *)
LEMMA BlamingReports ==
  ASSUME SInv, [Next]_statusVars, Reporting
  PROVE  /\ report'.verdict = "malformed" => \E i \in Item : TellsMalformed(i)
         /\ report'.verdict = "error" => \E i \in Item : TellsError(i)
         /\ report'.verdict = "ready" => TellsOwner
<1>1. TellsOwner => report'.verdict \in {"ready", "refused"}
  BY DEF SInv, Judged, TellsOwner, AllRead
<1> QED
  BY <1>1, ReportCases DEF TellsMalformed, TellsError, TellsAbsent, TellsStatus, TellsWhy,
                           RefusesItem, RefusesCustomer

-----------------------------------------------------------------------------
(* Everything shown of an item in a report did hold at some moment of the  *)
(* reading; files in order are called malformed, or fail a plan, only      *)
(* because of a write to an open file or of a lock that came in.           *)
THEOREM HeldOnceTheorem == Spec => ReportHeldOnce
<1>1. ASSUME SInv, [Next]_statusVars, Reporting
      PROVE  /\ HeldOnce(shown[call.watched])
             /\ report'.verdict = "malformed" =>
                  \E i \in moved : i \in replaced \/ i \in Locked \ Read
             /\ report'.verdict = "error" => moved \cap replaced # {}
  <2>1. HeldOnce(shown[call.watched])
    BY <1>1 DEF Reporting, SInv, Watching, Had, HeldOnce
  <2>2. report'.verdict = "malformed" =>
          \E i \in moved : i \in replaced \/ i \in Locked \ Read
    BY <1>1, BlamingReports, Blamed
  <2>3. ASSUME report'.verdict = "error" PROVE moved \cap replaced # {}
    <3>1. PICK i \in Item : TellsError(i)
      BY <1>1, <2>3, BlamingReports
    <3> QED
      BY <1>1, <3>1, Blamed DEF TellsError
  <2> QED
    BY <2>1, <2>2, <2>3
<1> QED
  BY <1>1, Invariance, PTL DEF Spec, ReportHeldOnce

(* An obstacle that was there all the time is never overlooked, whatever   *)
(* happens to the other items.                                             *)
THEOREM ObstacleTheorem == Spec => SteadyObstacleIsReported
<1>1. ASSUME SInv, [Next]_statusVars, Reporting,
             NEW i \in Item, Steady(i), call.target \in {NoItem, i}
      PROVE  /\ Obstacle(i) => report'.verdict \notin {"ok", "ready", "absent"}
             /\ CustomerQueued(i) => report'.verdict # "ready"
  <2>1. ASSUME NEW j \in Item, TellsMalformed(j) \/ TellsError(j) \/ RefusesItem(j)
        PROVE  report'.verdict \in {"malformed", "error", "refused"}
    BY <2>1 DEF TellsMalformed, TellsError, RefusesItem
  <2>2. CASE TellsAbsent
    <3>1. i \in Read
      BY <1>1, <2>2, Steadiness DEF TellsAbsent
    <3> QED
      BY <1>1, <2>2, <3>1 DEF TellsAbsent, Wanted
  <2>3. CASE TellsStatus
    <3>1. i \in Displayed /\ shown[i] = Shown(files[i].record, files[i].lock)
      BY <1>1, <2>3, Steadiness DEF TellsStatus, AllRead
    <3> QED
      BY <2>3, <3>1 DEF TellsStatus, Obstacle
  <2>4. ASSUME NEW j \in Item, TellsWhy(j)
        PROVE  /\ Obstacle(i) => report'.verdict = "blocked"
               /\ report'.verdict # "ready"
    <3>1. i \in Displayed /\ shown[i] = Shown(files[i].record, files[i].lock)
      BY <1>1, <2>4, Steadiness DEF TellsWhy, AllRead
    <3>2. Obstacle(i) => Obstructed(shown[j])
      BY <2>4, <3>1, Selected DEF TellsWhy, Obstacle
    <3> QED
      BY <2>4, <3>2 DEF TellsWhy
  <2>5. CASE RefusesCustomer
    BY <2>5 DEF RefusesCustomer
  <2>6. CASE TellsOwner
    <3>1. i \in Displayed /\ shown[i] = Shown(files[i].record, files[i].lock)
      BY <1>1, <2>6, Steadiness DEF TellsOwner
    <3>2. ~Obstacle(i)
      BY <1>1, <2>6, <3>1 DEF SInv, Planned, TellsOwner, Obstacle
    <3>3. ASSUME CustomerQueued(i) PROVE report'.verdict # "ready"
      <4>1. call.target = NoItem => ~CustomerQueued(i)
        BY <1>1, <2>6 DEF SInv, Planned, Progress, TellsOwner, Steady
      <4>2. call.target = i
        BY <1>1, <3>3, <4>1
      <4>3. i # NoItem
        BY StatusAssumption
      <4>4. Displayed \subseteq {i}
        BY <1>1, <2>6, <4>2, <4>3 DEF SInv, Progress, Wanted, TellsOwner
      <4>5. report.item = i
        BY <1>1, <2>6, <4>4 DEF SInv, Planned, TellsOwner
      <4>6. class[i] # "owner-controlled-dogfood"
        BY <3>3 DEF CustomerQueued
      <4>7. report.verdict = "refused"
        BY <1>1, <2>6, <4>5, <4>6 DEF SInv, Judged, TellsOwner, AllRead, Steady
      <4> QED
        BY <2>6, <4>7 DEF TellsOwner
    <3>4. report'.verdict \in {"ready", "refused"}
      BY <1>1, <2>6 DEF SInv, Judged, TellsOwner, AllRead
    <3> QED
      BY <3>2, <3>3, <3>4
  <2> QED
    BY <1>1, <2>1, <2>2, <2>3, <2>4, <2>5, <2>6, ReportCases
<1>2. ASSUME SInv, [Next]_statusVars, Reporting
      PROVE  \A i \in Item : Steady(i) /\ call.target \in {NoItem, i} =>
               /\ Obstacle(i) => report'.verdict \notin {"ok", "ready", "absent"}
               /\ CustomerQueued(i) => report'.verdict # "ready"
  BY <1>1, <1>2
<1> QED
  BY <1>2, Invariance, PTL DEF Spec, SteadyObstacleIsReported

(* While nobody writes, a claimable item of the owner is served.           *)
THEOREM QuietTheorem == Spec => QuietQueueIsServed
<1>1. ASSUME SInv, [Next]_statusVars, Reporting, moved = {}
      PROVE  /\ report'.verdict \notin {"malformed", "error"}
             /\ (\E i \in Item : Serves(i)) => report'.verdict \in {"ok", "ready"}
             /\ report'.verdict = "ready" => Claimable(report'.item)
  <2>1. report'.verdict \notin {"malformed", "error"}
    BY <1>1, BlamingReports, Blamed
  <2>2. ASSUME report'.verdict = "ready" PROVE Claimable(report'.item)
    <3>1. TellsOwner
      BY <1>1, <2>2, BlamingReports
    <3>2. report.item \in Displayed /\ shown[report.item].state = "queued" /\ report.item \in Item
      BY <1>1, <3>1 DEF SInv, Planned, TellsOwner, Displayed
    <3>3. shown[report.item] = Shown(files[report.item].record, files[report.item].lock)
      BY <1>1, <3>2 DEF SInv, InStep
    <3> QED
      BY <3>1, <3>2, <3>3 DEF TellsOwner, Claimable
  <2>3. ASSUME NEW i \in Item, Serves(i)
        PROVE  report'.verdict \in {"ok", "ready"}
    <3>1. /\ Claimable(i) /\ class[i] = "owner-controlled-dogfood" /\ call.target \in {NoItem, i}
      BY <2>3 DEF Serves
    <3>2. i \in Listed /\ Steady(i)
      <4>1. files[i].record.status # "none"
        <5>1. files[i].record \in Record /\ files[i].lock \in Lock /\ Coherent(files[i])
          BY <1>1, ListedRecords DEF SInv, Sound
        <5>2. files[i].record.status = "none" => files[i].lock.status = "none"
          BY <5>1 DEF Coherent, Record, Lock
        <5>3. ASSUME files[i].record.status = "none"
              PROVE  Shown(files[i].record, files[i].lock).state # "queued"
          BY <5>2, <5>3 DEF Shown, ClaimState, EffectiveLock, NoFiles, Stale, Terminal
        <5> QED
          BY <3>1, <5>3 DEF Claimable
      <4> QED
        BY <1>1, <4>1, ListedRecords DEF SInv, Steady
    <3>3. ASSUME NEW j \in Item, j \in Displayed
          PROVE  /\ j \in Listed /\ j \notin moved
                 /\ shown[j] = Shown(files[j].record, files[j].lock)
                 /\ call.target = i => j = i
      <4>1. j \in Wanted
        <5>1. at \notin {"idle", "records", "audit"}
          BY <1>1, <3>3, NothingTyped DEF SInv, Rested, Progress, Displayed
        <5> QED
          BY <1>1, <3>3, <5>1 DEF SInv, Typed, Progress
      <4>2. j \in Read
        BY <4>1 DEF Wanted
      <4>3. seen[j] = files[j].record /\ j \in Listed
        BY <1>1, <4>2 DEF SInv, InStep, Read, Listed
      <4>4. shown[j] = Shown(files[j].record, files[j].lock)
        BY <1>1, <3>3 DEF SInv, InStep
      <4>5. call.target = i => j = i
        BY <4>1, StatusAssumption DEF Wanted
      <4> QED
        BY <1>1, <4>3, <4>4, <4>5
    <3>4. ASSUME NEW j \in Item, j \in Displayed
          PROVE  ~Obstructed(shown[j])
      <4>1. CASE call.target = i
        <5>1. shown[j].state = "queued"
          BY <3>1, <3>3, <3>4, <4>1 DEF Claimable
        <5> QED
          BY <5>1 DEF Obstructed
      <4>2. CASE call.target = NoItem
        BY <2>3, <3>3, <3>4, <4>2, StatusAssumption DEF Serves, Obstacle
      <4> QED
        BY <3>1, <4>1, <4>2
    <3>5. ASSUME NEW j \in Item, j \in Displayed
          PROVE  shown[j].state \in {"queued", "completed"}
      <4>1. CASE call.target = i
        BY <3>1, <3>3, <3>5, <4>1 DEF Claimable
      <4>2. CASE call.target = NoItem
        <5>1. files[j].lock.status # "active"
          BY <2>3, <3>3, <3>5, <4>2, StatusAssumption DEF Serves
        <5>2. /\ files[j].record \in Record /\ files[j].lock \in Lock
              /\ files[j].record.status # "none"
          BY <1>1, <3>3, <3>5, ListedRecords DEF SInv
        <5>3. shown[j].state \notin {"blocked", "revoked", "superseded"}
          BY <3>4, <3>5 DEF Obstructed
        <5>4. /\ files[j].record.blocker => shown[j].state = "blocked"
              /\ ~files[j].record.blocker =>
                   shown[j].state = IF Overtaken(files[j].record, files[j].lock)
                                    THEN files[j].lock.status ELSE files[j].record.status
          BY <3>3, <3>5, <5>2, ShownCases
        <5> QED
          BY <5>1, <5>2, <5>3, <5>4 DEF Record, Overtaken, Stale, Terminal
      <4> QED
        BY <3>1, <4>1, <4>2
    <3>6. i \in Displayed => shown[i].state = "queued"
      BY <3>1, <3>3 DEF Claimable
    <3>7. ASSUME NEW j \in Item, j \in Selection, i \in Displayed
          PROVE  j \in Displayed /\ shown[j].state = "queued"
      <4>1. j \in Displayed /\ shown[j].state # "completed"
        BY <3>4, <3>6, <3>7 DEF Selection, Displayed
      <4> QED
        BY <3>5, <4>1
    <3>8. CASE TellsAbsent
      BY <3>1, <3>2, <3>8, <1>1, Steadiness DEF TellsAbsent, Wanted
    <3>9. CASE TellsStatus
      BY <3>4, <3>9 DEF TellsStatus, Displayed
    <3>10. ASSUME NEW j \in Item, TellsWhy(j) PROVE report'.verdict = "ok"
      <4>1. ~Obstructed(shown[j])
        BY <3>4, <3>10, Selected DEF TellsWhy
      <4> QED
        BY <3>10, <4>1 DEF TellsWhy
    <3>11. ASSUME NEW j \in Item, RefusesItem(j) PROVE FALSE
      <4>1. i \in Displayed
        BY <1>1, <3>1, <3>2, <3>11, Steadiness DEF RefusesItem, AllRead
      <4> QED
        BY <3>7, <3>11, <4>1 DEF RefusesItem
    <3>12. ASSUME RefusesCustomer PROVE FALSE
      <4>1. PICK j \in Item : CustomerQueued(j) /\ call.target = NoItem
        BY <1>1, <3>12 DEF SInv, Judged, Progress, RefusesCustomer
      <4>2. j \in Listed
        BY <1>1, <4>1, ListedRecords DEF SInv, CustomerQueued
      <4> QED
        BY <2>3, <4>1, <4>2, StatusAssumption DEF Serves
    <3>13. CASE TellsOwner
      <4> DEFINE j == report.item
      <4>1. j \in Displayed /\ j \in Item /\ shown[j].state = "queued"
        BY <1>1, <3>13 DEF SInv, Planned, TellsOwner, Displayed
      <4>2. j \in Listed /\ shown[j] = Shown(files[j].record, files[j].lock)
            /\ (call.target = i => j = i)
        BY <3>3, <4>1
      <4>3. class[j] = "owner-controlled-dogfood"
        <5>1. CASE call.target = i
          BY <3>1, <4>2, <5>1
        <5>2. CASE call.target = NoItem
          <6>1. ~CustomerQueued(j)
            BY <2>3, <4>2, <5>2, StatusAssumption DEF Serves
          <6>2. /\ files[j].record \in Record /\ files[j].lock \in Lock
                /\ files[j].record.status # "none"
            BY <1>1, <4>1, <4>2, ListedRecords DEF SInv
          <6>3. files[j].record.status = "queued"
            BY <4>1, <4>2, <6>2, ShownCases DEF Overtaken, Stale, Terminal
          <6> QED
            BY <1>1, <4>1, <6>1, <6>3 DEF SInv, Typed, CustomerQueued
        <5> QED
          BY <3>1, <5>1, <5>2
      <4>4. report.verdict = "ready"
        BY <1>1, <3>13, <4>3 DEF SInv, Judged, TellsOwner, AllRead
      <4> QED
        BY <3>13, <4>4 DEF TellsOwner
    <3>14. ASSUME NEW j \in Item, TellsMalformed(j) \/ TellsError(j) PROVE FALSE
      BY <1>1, <3>14, Blamed
    <3> QED
      BY <1>1, <3>8, <3>9, <3>10, <3>11, <3>12, <3>13, <3>14, ReportCases
  <2> QED
    BY <2>1, <2>2, <2>3
<1> QED
  BY <1>1, Invariance, PTL DEF Spec, QuietQueueIsServed
=============================================================================
