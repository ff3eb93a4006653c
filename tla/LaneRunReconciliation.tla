------------------------ MODULE LaneRunReconciliation ------------------------
(***************************************************************************)
(* reconcileLaneRunState: an operator compares the queue record, the lock, *)
(* the lane run's own state and what was observed of its branch, worktree, *)
(* journal, draft and verification.  The three files are read one after    *)
(* the other without the mutation lock, with any number of operations of   *)
(* LaneRunStore in between; the report follows from what was read and from *)
(* the call's arguments.  A record or lock that is replaced between its    *)
(* being opened and its being compared with what the path names fails to   *)
(* be read, which is reported as malformed.                                *)
(*                                                                         *)
(* Malformed arguments are reported before the first read.  A lane run     *)
(* identifier is short enough for the record's metadata to keep it whole.  *)
(* A lane run state whose journal is empty counts as one whose journal is  *)
(* missing, and one that fails to be read while it is written as malformed.*)
(***************************************************************************)
EXTENDS LaneRunStore

CONSTANT Observations  (* what a call observes: [missing, facts]           *)

Surface == {"branch", "worktree", "journal", "prDraft"}

(* Verification facts: that of a blocked lane run, that of the lane run    *)
(* state's own status if it is another one, and any different one.         *)
Fact == {"blocked", "other", "differing"}

ASSUME ObservationsAssumption ==
  Observations \subseteq [missing : SUBSET Surface, facts : SUBSET Fact]

VARIABLES recon,   (* the reconciliation: its next read, what it saw, its  *)
                   (* report                                               *)
          handle,  (* whether the file read last is open and not compared  *)
                   (* yet, or was even replaced since                      *)
          owners,  (* history: lane runs that held the lock or closed the  *)
                   (* record at some moment since the reading began        *)
          moved    (* history: whether a file changed since then           *)

reconVars == <<recon, handle, owners, moved>>

-----------------------------------------------------------------------------
(* What the files say.  v is all a report depends on: the record v.q and   *)
(* the lock v.l as they were read, whether both have the same lane, source *)
(* and classification (v.same), the lane run v.t that the caller named (or *)
(* NoRun), the lane run v.run that this selects, its state v.file, and     *)
(* what was observed (v.missing, v.facts).                                 *)

Exists(file) == file.seq # 0
Holds(v) == v.l.status = "active"

(* Wrong: the metadata of any earlier closing counts. *)
ClosedEver(q, r) == Exists(q) /\ \E s \in Terminal : q.ended[s] = r

(* isTerminalQueueRecordLinkedToLaneRun *)
ClosedBy(q, r) == q.status \in Terminal /\ q.ended[q.status] = r

(* isLaneRunLockContextCompatibleWithQueueRecord *)
Compatible(v) == v.same /\ (Holds(v) => v.l.seq = v.q.seq)

LockSpeaks(v) == Exists(v.l) /\ (~Exists(v.q) \/ Compatible(v))

(* A file knows the lane run that the caller named. *)
Known(v) == ClosedBy(v.q, v.t) \/ (v.l.run = v.t /\ LockSpeaks(v))

(* The lane run whose state is read: the active one, or the named one if   *)
(* it is known, or the one that the record or the lock names.              *)
Target(v) ==
  IF Holds(v) /\ LockSpeaks(v) THEN v.l.run
  ELSE IF v.t # NoRun THEN (IF Known(v) THEN v.t ELSE NoRun)
  ELSE IF v.q.status \in Terminal THEN v.q.ended[v.q.status]
  ELSE IF LockSpeaks(v) THEN v.l.run
  ELSE NoRun

-----------------------------------------------------------------------------
(* Mismatches.                                                             *)

(* Wrong: closed locks are compared as well. *)
NamesAnyOtherRecord(v) == Exists(v.q) /\ Exists(v.l) /\ v.l.seq # v.q.seq

NamesAnotherRecord(v) == Holds(v) /\ Exists(v.q) /\ v.l.seq # v.q.seq

Drifted(v) == Holds(v) /\ Exists(v.q) /\ ~Compatible(v)

(* isLaneRunStateLinkedToSelectedWorkItem, and of the record's work item. *)
Belongs(v) ==
  /\ Exists(v.q) /\ v.file # "foreign"
  /\ (v.l.run = v.run /\ Compatible(v)) \/ ClosedBy(v.q, v.run)

(* Evidence is shown only of a state that was not rejected. *)
Shown(v) == v.file # "absent" /\ ~Drifted(v) /\ Belongs(v)
Rejected(v) == Drifted(v) \/ (v.file # "absent" /\ ~Belongs(v))

(* Wrong: a closed record without lane run state goes unnoticed. *)
NothingLeftUnnoticed(v) == FALSE

LeftNothing(v) ==
  ~Holds(v) /\ ~Shown(v) /\ ClosedBy(v.q, v.run)

(* hasConflictingVerificationFacts *)
Conflicting(v) ==
  \/ Cardinality(v.facts) > 1
  \/ Shown(v) /\ v.facts \notin {{}, {v.file}}

Kind == {"missing-queue-record", "lock-queue-record-mismatch",
         "lane-run-target-mismatch", "lane-run-ownership-unverified",
         "lane-run-work-item-mismatch", "stale-lock", "missing-lane-state",
         "missing-branch", "missing-worktree", "missing-journal",
         "missing-pr-draft", "conflicting-verification-facts",
         "malformed-lane-state"}

IsMismatch(k, v) ==
  CASE k = "missing-queue-record" -> ~Exists(v.q)
    [] k = "lock-queue-record-mismatch" -> NamesAnotherRecord(v)
    [] k = "lane-run-target-mismatch" ->
         Holds(v) /\ LockSpeaks(v) /\ v.t \notin {NoRun, v.l.run}
    [] k = "lane-run-ownership-unverified" ->
         \/ Drifted(v)
         \/ v.t # NoRun /\ ~Holds(v) /\ ~Known(v)
         \/ Rejected(v) /\ (Exists(v.q) => v.file # "foreign")
    [] k = "lane-run-work-item-mismatch" ->
         ~Drifted(v) /\ Exists(v.q) /\ v.file = "foreign"
    [] k = "stale-lock" -> Holds(v) /\ ~Shown(v) /\ ~Rejected(v)
    [] k = "missing-lane-state" -> LeftNothing(v)
    [] k = "missing-branch" -> "branch" \in v.missing
    [] k = "missing-worktree" -> "worktree" \in v.missing
    [] k = "missing-journal" -> "journal" \in v.missing  \* or it has no entries
    [] k = "missing-pr-draft" -> "prDraft" \in v.missing
    [] k = "conflicting-verification-facts" -> Conflicting(v)
    [] k = "malformed-lane-state" -> FALSE  \* reported alone

Category == {"blocked", "manual-review", "needs-cleanup", "safe-to-requeue"}

CategoryOf(k, held) ==
  CASE k \in {"missing-branch", "missing-worktree"} ->
         IF held THEN "blocked" ELSE "needs-cleanup"
    [] k = "missing-pr-draft" -> IF held THEN "blocked" ELSE "safe-to-requeue"
    [] k = "stale-lock" -> "safe-to-requeue"
    [] k \in {"missing-lane-state", "missing-journal",
              "conflicting-verification-facts"} -> "manual-review"
    [] OTHER -> "blocked"

(* Wrong: nothing leads when there is no mismatch. *)
LeadingOrNone(categories) ==
  IF categories = {} THEN "none"
  ELSE CHOOSE c \in categories : TRUE

(* selectLeadingLaneRunReconciliationMismatch *)
Leading(categories) ==
  IF "blocked" \in categories THEN "blocked"
  ELSE IF "manual-review" \in categories THEN "manual-review"
  ELSE IF "needs-cleanup" \in categories THEN "needs-cleanup"
  ELSE "safe-to-requeue"

-----------------------------------------------------------------------------
(* The reconciliation.                                                     *)

SeenRecord == [seq : Nat, status : {"none", "queued"} \cup Terminal,
               prev : Nat, ended : [Terminal -> RunOrNone]]
Seen(q) == [seq |-> q.seq, status |-> q.status, prev |-> q.prev, ended |-> q.ended]

ReportShape == [kinds : SUBSET Kind, category : Category, run : RunOrNone,
                shown : BOOLEAN, named : BOOLEAN]
NoReport == [kinds |-> {}, category |-> "blocked", run |-> NoRun,
             shown |-> FALSE, named |-> FALSE]

Recon == [at : {"idle", "record", "lock", "laneRun", "reported"},
          q : SeenRecord, l : Lock, report : ReportShape]
At(at) == [at |-> at, q |-> Seen(NoRecord), l |-> NoLock, report |-> NoReport]

OwnersNow ==
  {r \in Run : lock.run = r \/ (queue.status \in Terminal /\ queue.ended[queue.status] = r)}

Begin ==
  /\ recon.at \in {"idle", "reported"}
  /\ recon' = At("record")
  /\ owners' = OwnersNow
  /\ moved' = FALSE
  /\ UNCHANGED handle

(* What a file says is what it said when it was opened, since every write  *)
(* is a rename; a file that is not there is known to be missing at once.   *)
Opened(file) == handle' = IF Exists(file) THEN "open" ELSE "closed"

SeeRecord ==
  /\ recon.at = "record"
  /\ recon' = [At("lock") EXCEPT !.q = Seen(queue)]
  /\ Opened(queue)
  /\ UNCHANGED <<owners, moved>>

SeeLock ==
  /\ recon.at = "lock" /\ handle = "closed"
  /\ recon' = [recon EXCEPT !.at = "laneRun", !.l = lock]
  /\ Opened(lock)
  /\ UNCHANGED <<owners, moved>>

(* A file that fails to be read, or to be parsed, is reported alone. *)
Malformed == [NoReport EXCEPT !.kinds = {"malformed-lane-state"}]

(* readJsonStateFile compares fstat and lstat of the open file. *)
Compare ==
  /\ handle # "closed" /\ handle' = "closed"
  /\ IF handle = "replaced"
     THEN recon' = [At("reported") EXCEPT !.report = Malformed] /\ owners' = {}
     ELSE UNCHANGED <<recon, owners>>
  /\ UNCHANGED moved

Report(v) ==
  LET kinds == IF v.file = "malformed" THEN {"malformed-lane-state"}
               ELSE {k \in Kind : IsMismatch(k, v)}
  IN [kinds |-> kinds,
      category |-> Leading({CategoryOf(k, Holds(v)) : k \in kinds}),
      run |-> v.run,
      shown |-> v.file # "malformed" /\ Shown(v),
      named |-> v.t # NoRun]

(* A lock has the context of its record, and a linked record the one of    *)
(* its predecessor; a record enqueued afresh may have any.                 *)
SameContext ==
  IF recon.l.seq \in {recon.q.seq, recon.q.prev} THEN {TRUE} ELSE BOOLEAN

(* readOptionalLaneRunState *)
FileOf(r) == IF r = NoRun THEN "absent" ELSE laneRun[r]

(* All that a report depends on. *)
Observed(read, r, o) ==
  [q |-> read.q, l |-> read.l, t |-> read.t, same |-> read.same, run |-> r, file |-> FileOf(r),
   missing |-> o.missing, facts |-> o.facts]

(* The third read, and the report. *)
SeeLaneRun ==
  /\ recon.at = "laneRun" /\ handle = "closed"
  /\ \E t \in RunOrNone, o \in Observations, same \in SameContext :
       LET read == [q |-> recon.q, l |-> recon.l, t |-> t, same |-> same]
       IN recon' = [At("reported") EXCEPT !.report = Report(Observed(read, Target(read), o))]
  /\ owners' = {}
  /\ UNCHANGED <<handle, moved>>

-----------------------------------------------------------------------------
ReconInit ==
  /\ Init
  /\ recon = At("idle") /\ handle = "closed"
  /\ owners = {}
  /\ moved = FALSE

(* The file that was read last is replaced. *)
Replaced == IF recon.at = "lock" THEN queue' # queue ELSE lock' # lock

StoreStep ==
  /\ Next
  /\ UNCHANGED recon
  /\ handle' = IF handle = "open" /\ Replaced THEN "replaced" ELSE handle
  /\ owners' = IF recon.at \in {"idle", "reported"} THEN {} ELSE owners \cup OwnersNow'
  /\ moved' = (recon.at # "idle" /\ (moved \/ <<queue, lock, laneRun>>' # <<queue, lock, laneRun>>))

ReconStep ==
  /\ Begin \/ SeeRecord \/ SeeLock \/ Compare \/ SeeLaneRun
  /\ UNCHANGED storeVars

ReconNext == StoreStep \/ ReconStep

ReconSpec == ReconInit /\ [][ReconNext]_<<storeVars, reconVars>>

-----------------------------------------------------------------------------
(* Properties.                                                             *)

(* The reconciliation's variables have the shapes above; a report without  *)
(* mismatches has the mildest category.                                    *)
ReconTypeOK ==
  /\ recon \in Recon
  /\ handle \in {"closed", "open", "replaced"}
  /\ recon.at \in {"idle", "record", "reported"} => handle = "closed"
  /\ owners \subseteq Run
  /\ moved \in BOOLEAN
  /\ recon.at = "reported" /\ recon.report.kinds = {} =>
       recon.report.category = "safe-to-requeue"

(* Whatever lane run the caller names and whenever the files are read,     *)
(* evidence is shown only of a lane run that held the lock or closed the   *)
(* record at a moment of the reading.                                      *)
EvidenceIsOwned ==
  [][recon.at # "reported" /\ recon'.at = "reported" /\ recon'.report.shown
       => recon'.report.run \in owners]_reconVars

(* The report describes the files as they are: nothing changed since the   *)
(* reading began.                                                          *)
Fresh == recon.at = "reported" /\ ~moved

(* Files that only the operations have written are never accused, not      *)
(* after a crash or a failed rollback either: a fresh report finds no lock *)
(* on another record and no lock without one, and doubts the ownership of  *)
(* a lane run only if the caller named it or its state is another's.  It   *)
(* calls a file malformed only if some lane run state is: a record or lock *)
(* that failed to be read was replaced during the reading.                 *)
NoFalseAlarm ==
  Fresh =>
    LET kinds == recon.report.kinds IN
    /\ "lock-queue-record-mismatch" \notin kinds
    /\ "missing-queue-record" \in kinds => ~HasLock
    /\ "malformed-lane-state" \in kinds => \E r \in Run : laneRun[r] = "malformed"
    /\ ~recon.report.named => kinds \cap {"lane-run-target-mismatch",
                                          "lane-run-ownership-unverified"} = {}

Refused(p) == task'[p].at = "leaving"

(* A fresh report can be acted on.  A lane run whose lock it calls stale   *)
(* can be stopped, which is what it advises.  If it finds the state        *)
(* consistent the work item can go on: the reported lane run can be        *)
(* completed or stopped while it is active, a queued record can be         *)
(* claimed, and the reported lane run of a closed one retried, or requeued *)
(* if it never was claimed.  A torn pair is the exception.                 *)
StaleCanBeStopped(p) ==
  "stale-lock" \in recon.report.kinds /\ Stop(p, recon.report.run) => ~Refused(p)

ConsistentCanGoOn(p) ==
  recon.report.kinds = {} /\ ~Torn =>
    LET r == recon.report.run IN
    /\ Active /\ (Stop(p, r) \/ \E s \in Terminal : Complete(p, r, s)) => ~Refused(p)
    /\ ~Active /\ queue.status = "queued" /\ (\E c \in Run : Claim(p, c)) => ~Refused(p)
    /\ queue.status \in Terminal
         /\ Link(p, r, IF HasLock THEN "retry" ELSE "requeue") => ~Refused(p)

AdviceCanBeFollowed ==
  [][\A p \in Proc :
       Fresh /\ task[p].at = "entered" => StaleCanBeStopped(p) /\ ConsistentCanGoOn(p)
    ]_<<storeVars, reconVars>>

(* A document's claim that mixed signals fail closed: a torn pair that is  *)
(* at rest is not reported as consistent.                                  *)
TornIsNotConsistent ==
  Fresh /\ Torn /\ (\A p \in Proc : task[p].at = "idle") => recon.report.kinds # {}
=============================================================================
