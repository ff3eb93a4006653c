---------------------------- MODULE LaneRunStatus ----------------------------
(***************************************************************************)
(* An operator's view of the queue: getLaneRunStatus, explainLaneRun and   *)
(* planLoopMode over a state root with several work items.  They take no   *)
(* lock: they list the records and read them one by one, list the locks    *)
(* and read those one by one, then read the lock of every item they show,  *)
(* and (for a plan) the records once more, while operations go on writing  *)
(* the files in between.  A file that is replaced between its being opened *)
(* and its being compared with what the path names fails to be read.       *)
(***************************************************************************)
EXTENDS LaneRunFiles

CONSTANTS Item,        (* work items                                        *)
          NoItem,      (* "no work item was named"                          *)
          Watched,     (* bound: the items whose history is watched         *)
          MaxAttempts, (* bound: enqueue sequence numbers, per item         *)
          MaxMoves     (* bound: writes during one reading, of which at     *)
                       (* most one per item that is not watched             *)

ASSUME StatusAssumption ==
  /\ NoItem \notin Item /\ Watched \subseteq Item
  /\ MaxAttempts \in [Item -> Nat] /\ MaxMoves \in Nat

VARIABLES files,   (* per item: the record and the lock                     *)
          class,   (* per item: the record's repositoryClassification       *)
          call,    (* the item asked about, and the item the history watches*)
          at,      (* the reader's next read                                *)
          todo,    (* the items it has still to read there,                 *)
          open,    (* those whose file is open and not yet compared,        *)
          replaced, (* and those of them whose file was replaced meanwhile  *)
          seen,    (* per item: the record as it was read                   *)
          shown,   (* per item: what is shown of it                         *)
          report,  (* the last report, and the item selected for it         *)
          held,    (* history: what has held of call.watched since Start    *)
          moved,   (* history: the items whose files changed since Start,   *)
          moves    (* and how often any did                                 *)

statusVars == <<files, class, call, at, todo, open, replaced, seen, shown, report, held,
                moved, moves>>

-----------------------------------------------------------------------------
(* The projection of a record and the lock read after it.                  *)

(* Wrong: only an active lock counts. *)
ActiveLockOnly(q, l) == IF l.status = "active" THEN l ELSE NoFiles.lock

(* resolveOperatorEffectiveLock: a closed lock of an older attempt is      *)
(* ignored, any other one wins over the record.                            *)
EffectiveLock(q, l) == IF l.status = "active" \/ Stale(q, l) THEN l ELSE NoFiles.lock

(* resolveOperatorLaneState.  resolveNextOperatorAction distinguishes the  *)
(* same five cases: claim, wait, nothing, inspect, enqueue.                *)
ClaimState(q, l) ==
  LET effective == EffectiveLock(q, l)
  IN IF effective.status # "none" THEN effective.status ELSE q.status

(* resolveOperatorVerificationState.  A completed record goes before an    *)
(* active lock, which then belongs to a later attempt.                     *)
Verification(q, l) ==
  LET effective == EffectiveLock(q, l)
  IN IF "completed" \in {effective.status, q.status} THEN "succeeded"
     ELSE IF effective.status = "active" THEN "running"
     ELSE IF q.status = "queued" THEN "not-started"
     ELSE "unknown"

Unshown == [state |-> "none", verification |-> "none"]

(* createLaneRunOperatorStatusItem: a blocker goes before everything. *)
Shown(q, l) ==
  IF q.blocker
  THEN [state |-> "blocked", verification |-> "blocked"]
  ELSE [state |-> ClaimState(q, l), verification |-> Verification(q, l)]

(* isBlockedOperatorStatusItem *)
Obstructed(view) == view.state \in {"blocked", "revoked", "superseded"}

-----------------------------------------------------------------------------
(* What can be asked: a report on one item, or on no item in particular.   *)
(* Which kind of report it is matters only once the locks are read.        *)

Call == {c \in [target : Item \cup {NoItem}, watched : Watched] :
           c.target \in {NoItem, c.watched}}

(* "pending": a plan that is not decided; "error": one that threw.         *)
Verdict == {"none", "pending", "malformed", "absent", "blocked", "ok", "refused", "ready",
            "error"}

Listed == {i \in Item : files[i].record.seq # 0}
Locked == {i \in Item : files[i].lock.status # "none"}
Read == {i \in Item : seen[i].seq # 0}
Displayed == {i \in Item : shown[i] # Unshown}

Nothing == [i \in Item |-> NoFiles.record]
NothingShown == [i \in Item |-> Unshown]

(* What holds of an item at one moment. *)
Fact(f) == [state |-> ClaimState(f.record, f.lock),
            verification |-> Verification(f.record, f.lock),
            blocker |-> f.record.blocker]

Report(verdict, item) ==
  /\ report' = [verdict |-> verdict, item |-> item]
  /\ at' = "idle"
  /\ todo' = {} /\ open' = {} /\ replaced' = {}
  /\ seen' = Nothing /\ shown' = NothingShown
  /\ held' = {} /\ moved' = {} /\ moves' = 0
  /\ UNCHANGED call

Start(c) ==
  /\ at = "idle"
  /\ call' = c /\ at' = "records" /\ todo' = Listed
  /\ report' = [verdict |-> "none", item |-> NoItem]
  /\ held' = {Fact(files[c.watched])}
  /\ UNCHANGED <<open, replaced, seen, shown, moved, moves>>

(* readJsonStateFile: first the file is opened, and what it says is what   *)
(* it said then, since every write is a rename.  The files of a listing    *)
(* are read one after the other, but the locks to be shown all at once.    *)
Open(i) ==
  /\ i \in todo /\ (at = "locks" \/ open = {})
  /\ todo' = todo \ {i} /\ open' = open \cup {i}
  /\ UNCHANGED <<call, at, replaced, held, moved, moves>>

(* Then fstat and lstat must agree.  A file that was replaced makes the    *)
(* report malformed, and so does a lock whose record was not among those   *)
(* read (assertLaneRunLocksAreReferencedByQueue).  The second reading of   *)
(* the records has no handler: there the error leaves planLoopMode.        *)
Compare(i) ==
  /\ i \in open
  /\ IF i \in replaced \/ (at = "audit" /\ i \notin Read)
     THEN Report(IF at \in {"customers", "owner"} THEN "error" ELSE "malformed", report.item)
     ELSE /\ open' = open \ {i}
          /\ UNCHANGED <<call, at, todo, replaced, seen, shown, report, held, moved, moves>>

AllRead == todo = {} /\ open = {}

(* What is read next, after all of one kind is. *)
GoOn(phase, items) ==
  /\ at' = phase /\ todo' = items
  /\ UNCHANGED <<call, open, replaced, seen, shown, held, moved, moves>>

(* readLaneRunQueueRecords, one listed record *)
ReadRecord(i) ==
  /\ at = "records" /\ Open(i)
  /\ seen' = [seen EXCEPT ![i] = files[i].record]
  /\ UNCHANGED <<shown, report>>

(* readLaneRunLockStableWorkItemIds, *)
ListLocks ==
  /\ at = "records" /\ AllRead
  /\ GoOn("audit", Locked)
  /\ UNCHANGED report

(* and each listed lock, of which only the name matters yet. *)
AuditLock(i) ==
  /\ at = "audit" /\ Open(i)
  /\ UNCHANGED <<seen, shown, report>>

(* Wrong: the requested item is not looked for among the records. *)
ChooseLocksForTarget ==
  /\ at = "audit" /\ AllRead
  /\ LET wanted == IF call.target = NoItem THEN Read ELSE {call.target}
     IN IF wanted = {} THEN Report("absent", call.target)
        ELSE GoOn("locks", wanted) /\ UNCHANGED report

(* The locks of all items, or of the requested one, are read next, unless  *)
(* there is no such item.                                                  *)
ChooseLocks ==
  /\ at = "audit" /\ AllRead
  /\ LET wanted == IF call.target = NoItem THEN Read ELSE Read \cap {call.target}
     IN IF wanted = {} THEN Report("absent", call.target)
        ELSE GoOn("locks", wanted) /\ UNCHANGED report

(* readOptionalLaneRunLock, for all items at once; a missing lock is known *)
(* to be missing at once.                                                  *)
ReadLock(i) ==
  /\ at = "locks"
  /\ \/ files[i].lock.status # "none" /\ Open(i)
     \/ /\ files[i].lock.status = "none" /\ i \in todo
        /\ todo' = todo \ {i}
        /\ UNCHANGED <<call, at, open, replaced, held, moved, moves>>
  /\ shown' = [shown EXCEPT ![i] = Shown(seen[i], files[i].lock)]
  /\ UNCHANGED <<seen, report>>

(* Wrong: without an obstacle, the first item is taken, finished or not. *)
SelectObstacleOrFirst ==
  LET obstructed == {i \in Displayed : Obstructed(shown[i])}
  IN IF obstructed # {} THEN obstructed ELSE Displayed

(* selectDefaultLaneRunExplanationItem takes the first item of the first   *)
(* of these groups that has one; the order within a group is that of the   *)
(* queuedAt times, which the callers of enqueue choose.                    *)
Selection ==
  LET obstructed == {i \in Displayed : Obstructed(shown[i])}
      unfinished == {i \in Displayed : shown[i].state # "completed"}
  IN IF obstructed # {} THEN obstructed
     ELSE IF unfinished # {} THEN unfinished
     ELSE Displayed

(* Wrong: the plan does not look through the records for a customer's. *)
PlanForOwnerOnly ==
  /\ at = "locks" /\ AllRead
  /\ \E i \in Selection :
       IF shown[i].state # "queued"
       THEN Report("refused", i)
       ELSE report' = [verdict |-> "pending", item |-> i] /\ GoOn("owner", {i})

(* A plan for one item is one-shot loop mode, a plan for no item in        *)
(* particular is continuous.  It goes on only from a queued item that is   *)
(* neither blocked nor claimed (resolveLoopModeBlockerReason); continuous  *)
(* mode lists the records again.                                           *)
Plan ==
  /\ at = "locks" /\ AllRead
  /\ \E i \in Selection :
       IF shown[i].state # "queued"
       THEN Report("refused", i)
       ELSE /\ report' = [verdict |-> "pending", item |-> i]
            /\ IF call.target = NoItem THEN GoOn("customers", Listed) ELSE GoOn("owner", {i})

Status ==
  /\ at = "locks" /\ AllRead /\ call.target = NoItem
  /\ Report(IF \E i \in Displayed : Obstructed(shown[i]) THEN "blocked" ELSE "ok", NoItem)

Explain ==
  /\ at = "locks" /\ AllRead
  /\ \E i \in Selection : Report(IF Obstructed(shown[i]) THEN "blocked" ELSE "ok", i)

Judge(verdict) == report' = [report EXCEPT !.verdict = verdict]

(* resolveLoopModeOwnershipDecision: no record of a customer repository    *)
(* may be queued, which is asked when all of them are read,                *)
SeekCustomer(i) ==
  /\ at = "customers" /\ Open(i)
  /\ IF files[i].record.status = "queued" /\ class[i] = "customer-repository"
     THEN Judge("refused") ELSE UNCHANGED report
  /\ UNCHANGED <<seen, shown>>

(* and the selected item itself, read again, must be the owner's.          *)
ReadOwner(i) ==
  /\ at = "owner" /\ Open(i)
  /\ Judge(IF class[i] = "owner-controlled-dogfood" THEN "ready" ELSE "refused")
  /\ UNCHANGED <<seen, shown>>

Decide ==
  /\ AllRead
  /\ \/ /\ at = "customers" /\ report.verdict = "pending"
        /\ GoOn("owner", {report.item}) /\ UNCHANGED report
     \/ /\ at = "owner" \/ (at = "customers" /\ report.verdict = "refused")
        /\ Report(report.verdict, report.item)

-----------------------------------------------------------------------------
Init ==
  /\ files = [i \in Item |-> NoFiles]
  /\ class \in [Item -> {"owner-controlled-dogfood"}]
  /\ call \in Call
  /\ at = "idle" /\ todo = {} /\ open = {} /\ replaced = {}
  /\ seen = Nothing /\ shown = NothingShown
  /\ report = [verdict |-> "none", item |-> NoItem]
  /\ held = {} /\ moved = {} /\ moves = 0

(* The file of an item that is being read. *)
FileRead(f) == IF at \in {"audit", "locks"} THEN f.lock ELSE f.record

(* One write of an operation on item i (LaneRunFiles).  A new attempt may  *)
(* be enqueued for a repository of the other class.                        *)
Write(i) ==
  /\ IF at = "idle" THEN UNCHANGED <<moved, moves>>
     ELSE /\ moves < MaxMoves /\ moves' = moves + 1
          /\ i = call.watched \/ i \notin moved
          /\ moved' = moved \cup {i}
  /\ \E f \in Successors(files[i]) :
       /\ f.record.seq <= MaxAttempts[i]
       /\ held' = IF at = "idle" \/ i # call.watched THEN held ELSE held \cup {Fact(f)}
       /\ files' = [files EXCEPT ![i] = f]
       /\ \E c \in {"owner-controlled-dogfood", "customer-repository"} :
            /\ c = class[i] \/ f.record.seq # files[i].record.seq
            /\ class' = [class EXCEPT ![i] = c]
       /\ replaced' = IF i \in open /\ FileRead(f) # FileRead(files[i])
                      THEN replaced \cup {i} ELSE replaced
  /\ UNCHANGED <<call, at, todo, open, seen, shown, report>>

ReaderStep ==
  /\ \/ \E c \in Call : Start(c)
     \/ \E i \in Item : \/ ReadRecord(i) \/ AuditLock(i) \/ ReadLock(i)
                         \/ SeekCustomer(i) \/ ReadOwner(i) \/ Compare(i)
     \/ ListLocks \/ ChooseLocks \/ Status \/ Explain \/ Plan \/ Decide
  /\ UNCHANGED <<files, class>>

Next == ReaderStep \/ \E i \in Item : Write(i)

Spec == Init /\ [][Next]_statusVars

-----------------------------------------------------------------------------
(* Properties.                                                             *)

(* The variables have their shapes, and only what was read is shown. *)
TypeOK ==
  /\ files \in [Item -> Files]
  /\ class \in [Item -> {"owner-controlled-dogfood", "customer-repository"}]
  /\ call.watched \in Item /\ call.target \in {NoItem, call.watched}
  /\ at \in {"idle", "records", "audit", "locks", "customers", "owner"}
  /\ todo \subseteq Item /\ open \subseteq Item \ todo /\ replaced \subseteq open
  /\ moved \subseteq Item /\ moves \in Nat
  /\ seen \in [Item -> Record]
  /\ report \in [verdict : Verdict, item : Item \cup {NoItem}]
  /\ \A i \in Item : shown[i] # Unshown => seen[i].seq # 0
  /\ at = "owner" => report.item \in Displayed

Reporting == at # "idle" /\ at' = "idle"

(* Although an item's record and its lock are read apart, everything shown *)
(* of it did hold at some moment of the reading: its claim state, its      *)
(* verification state and its blocker.  It is shown as queued, or selected *)
(* by a ready plan, only if at one such moment it was queued, unclaimed    *)
(* and unblocked all at once.  Files that are in order are called malformed*)
(* only because a write fell into the reading: it replaced the very file   *)
(* that was open, or brought in a lock whose record had not been there to  *)
(* be read.  Loop mode throws for the first of these reasons only.         *)
HeldOnce(view) ==
  /\ view.state = "blocked" => \E fact \in held : fact.blocker
  /\ view.state = "queued" =>
       \E fact \in held :
         fact.state = "queued" /\ fact.verification = "not-started" /\ ~fact.blocker
  /\ view.state \in Terminal \cup {"active"} =>
       /\ \E fact \in held : fact.state = view.state
       /\ \E fact \in held : fact.verification = view.verification

ReportHeldOnce ==
  [][Reporting =>
       /\ HeldOnce(shown[call.watched])
       /\ report'.verdict = "malformed" =>
            \E i \in moved : i \in replaced \/ i \in Locked \ Read
       /\ report'.verdict = "error" => moved \cap replaced # {}]_statusVars

(* An obstacle that was there all the time is never overlooked, whatever   *)
(* happens to the other items: a blocked, revoked or superseded item makes *)
(* the status and the default explanation blocked and keeps continuous     *)
(* loop mode from being ready, and so does a queued customer repository.   *)
Steady(i) == i \in Listed /\ i \notin moved

Obstacle(i) == Obstructed(Shown(files[i].record, files[i].lock))

CustomerQueued(i) ==
  files[i].record.status = "queued" /\ class[i] = "customer-repository"

SteadyObstacleIsReported ==
  [][Reporting =>
       \A i \in Item : Steady(i) /\ call.target \in {NoItem, i} =>
         /\ Obstacle(i) => report'.verdict \notin {"ok", "ready", "absent"}
         /\ CustomerQueued(i) => report'.verdict # "ready"]_statusVars

(* The other way round: while nobody writes, a claimable item of the owner *)
(* is served.  One-shot loop mode is ready for it whatever the other items *)
(* are like, continuous loop mode unless some item is obstructed, claimed  *)
(* or a customer's; finished items at the head of the queue do not matter. *)
Claimable(i) == Shown(files[i].record, files[i].lock).state = "queued"

Serves(i) ==
  /\ Claimable(i) /\ class[i] = "owner-controlled-dogfood"
  /\ \/ call.target = i
     \/ /\ call.target = NoItem
        /\ \A j \in Listed : /\ ~Obstacle(j) /\ ~CustomerQueued(j)
                             /\ files[j].lock.status # "active"

QuietQueueIsServed ==
  [][Reporting /\ moved = {} =>
       /\ report'.verdict \notin {"malformed", "error"}
       /\ (\E i \in Item : Serves(i)) => report'.verdict \in {"ok", "ready"}
       /\ report'.verdict = "ready" => Claimable(report'.item)]_statusVars

(* What is shown can be acted on with the operations' own guards: an item  *)
(* shown as queued can be claimed, an active one be closed, and any other  *)
(* unblocked one be queued again.                                          *)
AdviceCanBeFollowed ==
  \A i \in Listed :
    LET state == Shown(files[i].record, files[i].lock).state
    IN /\ state = "queued" => Claimed(files[i]) # {}
       /\ state = "active" => Closed(files[i]) # {}
       /\ state \in Terminal => Opened(files[i]) # {}
=============================================================================
