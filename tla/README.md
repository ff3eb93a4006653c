# Ensen-loop: a TLA+ model of its lane runs

Ensen-loop keeps the durable state of *lane runs* (bounded local executions of
one work item) in JSON files under a state root. Several processes (the CLI, an
operator, a supervisor) may use one state root at the same time; nothing but
the file system coordinates them. This project models the parts of the program
where that is hard: the queue record and the lane-run lock of a work item, the
operations on them, the directory lock that serialises the operations, the
readers that do without it (status, explain, loop mode, reconciliation), the
commands that prepare a lane's directories and keep its result, the way of
one request through plan, executor, lane run state and protocol outputs, and the
way of an issue from pickup to a reviewable artifact. All paths below are
relative to the repository; the code is in `src/lane/index.ts`,
`src/executor/index.ts`, `src/protocol/`, `src/work-item/`, `src/scm/`,
`src/agent/`, `src/artifact/` and `src/cli/index.ts`.

## Inventory

| Component | State | Operations | What is hard |
| --- | --- | --- | --- |
| Queue record and lane-run lock | `lane-run-queue/<item>.json`, `lane-run-locks/<item>.json` | enqueue, claim, complete, stop, retry, requeue | two files per decision, written one after the other; failed writes and rollback; a death in between; long sequences of legal operations |
| Mutation lock | a directory per work item, an owner file in it, its mtime | acquire, heartbeat, recover, release | every step is one file-system call; staleness, recovery by path, reuse of inode numbers, death at any step |
| Status, explain, loop mode | none | unlocked reads of all records and locks, and of the records again for a plan | the reads come from different moments, one item may hide or starve another |
| Reconciliation | none | unlocked reads of record, lock and lane run state, then a decision | mixed moments, a lane run named by the caller, many cases |
| Lane run state file | `lane-runs/<run>.json` | write in place, read | open, verify, truncate, write; no lock |
| Workspace and branch skeleton | workspace and state directories, a marker in each | prepare, record the queued state, roll back | look-then-make, partial failure, concurrent preparation, clean-up of what others may use |
| Executor boundary | evidence files, lane run state | gate, invoke, gate again, persist, clean up | exclusive creation, clean-up after failure, overlapping commands, retry after a death |
| Plan, executor result, projection, protocol outputs | none of their own; what was persisted | plan, invoke, persist, project, read back | five status vocabularies, validators of different strength, contradicting adapters, reasons that must survive every step, repeated requests |
| Pickup, readiness, skeleton's allowlist, Codex adapter, artifact | none but the lane run state; the caller keeps every result and makes up the rest | pick up, evaluate readiness, prepare, plan a dry run or an execution, create an artifact | nothing ties one stage to the next: old results, and those of other issues, may be combined; early returns and severities |
| CLI, text safety, type modules | none | argument parsing, printing, regular expressions, types | out of scope, but for the CLI's order of calls |

Components interact through the state root only. Every operation on the queue
record or the lock is the body of one `withLaneRunMutationLock` call. The
executor and the branch skeleton write lane run state without that lock; stop,
retry and requeue read it. Status, explain, loop mode and reconciliation read
everything and lock nothing.

What makes each component correct:

* store: an attempt (one enqueue sequence number) is claimed by at most one lane
  run and closed once; the two files agree about it; a linked attempt names the
  lane run that closed its predecessor; one failed write leaves no mixed state;
* mutation lock: at most one operation at a time, a live holder keeps its
  directory, a failed acquisition leaves none behind if it can help it, every call
  ends;
* readers: what is reported was true at some moment of the reading, no lasting
  obstacle is overlooked, and a quiet queue is served;
* reconciliation: evidence is shown only of a lane run that the files vouch for,
  files at rest are not accused, and what it advises can be done;
* executor and workspace: a command that reported success keeps its evidence, a
  recorded result stands beside its evidence, a failing command takes back what
  it made and nothing else, and a command nobody overlaps fails only for a reason;
* plan to projection: what is reported is what was executed, a success is backed
  by a ready plan and its own evidence, what blocked a lane is told, a recorded
  outcome is final;
* pickup to artifact: a readiness report hides nothing, a skeleton leads back to
  one allowlist record, and an artifact to one completed result of its issue and to
  a proof of what it executes.

## Modules

| Module | Models | Role |
| --- | --- | --- |
| `LaneRunAttempts` | what record and lock together promise | abstract specification |
| `LaneRunStore` | both files and all their writers | core |
| `LaneRunFiles` | the same two files as others see them: what one write can make of them | abstract specification, basis of `LaneRunStatus` |
| `LaneRunStoreProofs` | | theorems about `LaneRunStore` |
| `LaneMutationLock` | the directory lock | protocol at the level of file-system calls |
| `LaneMutationLockProofs` | | theorems about `LaneMutationLock` |
| `LaneRunSystem` | `LaneRunStore` behind `LaneMutationLock` | composition, refines `LaneRunStore` |
| `LaneRunSystemProofs` | | theorems about `LaneRunSystem`, from those of its parts |
| `LaneRunStatus` | status, explain, loop mode over several work items, whose files change as `LaneRunFiles` says | reader |
| `LaneRunStatusProofs` | | theorems about `LaneRunStatus` |
| `LaneRunReconciliation` | reconciliation over `LaneRunStore` | reader |
| `LaneRunReconciliationProofs` | | theorems about `LaneRunReconciliation` |
| `LocalLaneWorkspace` | a lane's directories, their markers, the gate that reads them | part of the next |
| `LocalLanePersistence` | smoke command, branch lane skeleton, lane run state writer | component |
| `LocalLanePersistenceProofs` | | theorems about `LocalLanePersistence` |
| `LaneRunOutcome` | request, plan, executor result, persisted state, protocol outputs | component |
| `LaneRunOutcomeProofs` | | theorems about `LaneRunOutcome` |
| `LaneHandoff` | pickup, readiness, skeleton's allowlist, invocation intent, artifact | component |
| `LaneHandoffProofs` | | theorems about `LaneHandoff` |
| `MC...` | | symmetry sets and views for TLC |

**`LaneRunStore`.** `queue` and `lock` are the two files; `laneRun` is what a
lane run's own state file would be to an operator action (missing, unreadable,
blocked, other, foreign); `task` is, per process, what is left of the operation
it is in. An operation is `Enter` (the mutation lock is acquired), one decision
(`Enqueue`, `Claim`, `Complete`, `Stop`, `Link`), its writes, and `Leave`.
A decision reads the files and either refuses (a thrown error or an
`{ ok: false }` result: no write) or plans its writes; `WriteLock` and
`WriteQueue` are the atomic renames, `FailWrite` a write that throws before its
rename, `Rollback` and `FailRollback` the handler of a failed second write,
`Crash` the death of the process. `Stop` has both branches of `stopLaneRun`
(an active claim; a blocked, unclaimed record), `Link` is
`createLinkedQueuedOperatorAttempt` for retry and requeue. A record is known by
its sequence number, which is all its id adds to the work item's name. Of the
metadata the model keeps what later decisions read: whether a blocker is set,
the lane run per terminal status, the lane run per linking action, the last
operator action and the previous record. Keys that the code writes itself are
assumed not to be supplied by the caller of enqueue.

**`LaneMutationLock`.** `dir` is the directory at the lock path: its inode
number, the owner files in it, and whether its mtime is within the staleness
limit. `pc` is each call's next file-system call, `seen` the inode it compares
with. Inode numbers come from a small set and are reused. `Age` lets the limit
pass; it may not do so while a running call that is not in `Slow` is between
its `mkdir` and the end of its release (the heartbeat refreshes every minute,
the limit is five), or in the middle of a recovery. `Slow` calls are processes
that are suspended for that long. Failing file-system calls: the open, the checks and
the write of the owner file fail with the file created or not (`WriteOwner`), which
leads to the clean-up `Cleanup`, `Unown`, `Uncreate`; `GiveUp` is an error before the
call has a directory of its own; `Break` one that leaves its directory there, namely at
the `lstat` right after `mkdir` (`acquiredStats` is still undefined, so nothing is taken
back), in the clean-up or in the release. `SoloRecovery` is an assumption about the
environment, that no two calls recover a stale lock at the same time; the code
does not ensure it.

**`LaneRunSystem`.** The operation's steps happen exactly between the write of
the owner file and the start of the release; nothing else keeps operations
apart. Its refinement to `LaneRunStore` maps every variable to itself: the
lock's steps become stutters and `Begin`, `End` become `Enter`, `Leave`.

**`LaneRunFiles`.** The record and the lock of one work item with what a reader
looks at (sequence numbers, statuses, the blocker), and `Successors`, the pairs
that one write of one operation can make of a pair. `LaneRunStore` is shown to
implement it (`ImplementsFiles`), so that the readers of many items need not
carry the tasks, lane runs and processes of every item.

**`LaneRunStatus`.** One reader and a set of work items, in whose files any
operation may write between any two reads (`Write`). What `getLaneRunStatus`,
`explainLaneRun` and `planLoopMode` share: the records are listed (`Start`) and read
one by one (`ReadRecord`), the locks are listed (`ListLocks`) and read one by one
(`AuditLock`), then the locks of the items to be shown are chosen (`ChooseLocks`) and
read all at once (`ReadLock`). Every one of these reads is two steps, as in
`readJsonStateFile`: the file is opened, which fixes its contents because writes are
renames, and then `Compare` checks that the path still names it; a file that was
replaced in between (`open`, `replaced`) makes the read throw. `Compare` also is
`assertLaneRunLocksAreReferencedByQueue`. The three readers count such an error as
malformed; the later reads of loop mode have no handler, so there it is thrown
("error"). `Status`, `Explain` and `Plan` end the reading in their own way; a continuous
plan goes on with `SeekCustomer`, the second listing of the records, and every plan that
is not refused with `ReadOwner`, the last reading of the selected one; `Decide` ends both.
`Shown` is `createLaneRunOperatorStatusItem`, `Selection` the choice of
`selectDefaultLaneRunExplanationItem`. The order within a group is that of the
queuedAt times, which callers choose, so it is a choice here. `held`, `moved` and
`moves` are histories of the reading: what was true of one watched item at any
moment of it, and which items' files changed, how often. Not kept: the wording,
the plan's constant safety gates, the repository's own name, and errors of a file
system call itself (say EIO), which are thrown to the caller and change nothing.

**`LaneRunReconciliation`.** One reconciliation at a time and one work item.
`SeeRecord`, `SeeLock` and `SeeLaneRun` are the reads of `reconcileLaneRunState`
in their order, with any number of store steps in between; a record or lock that was
opened is compared with its path a step later, and one that was replaced meanwhile
ends the reading with a malformed report (`Compare`, `handle`). The last read also
makes the report, since nothing is read after it; a state file that cannot be read at
that moment, for whatever reason, is one of `laneRun`'s values. The caller's arguments (a
lane run, what was observed of branch, worktree, journal, draft and
verification) matter only in the report, so they are chosen there. The decision
is a set of operators on what was read, named after the code's conditions:
which lane run is meant (`Target`), whether the files vouch for it (`Known`,
`Belongs`), which mismatches there are (`IsMismatch`) and which category leads
(`CategoryOf`, `Leading`). A record and a lock carry the lane, the source and the
repository classification that compatibility compares; they are equal for a
lock and its own record or that record's linked successor, and may or may not
be for a record that was enqueued afresh. `owners` and `moved` are histories of
the reading: who held the lock or closed the record, and whether a file changed.
Not kept: malformed arguments (refused before the first read), lane run
identifiers too long for the metadata (recovered by digest), the wording.

**`LocalLaneWorkspace` and `LocalLanePersistence`.** One lane (all commands for
the same lane run id), one file-system call per step. `dir` is, per directory,
the process that made it; `marker` the two marker files; `evidence` the
evidence metadata files and `laneState` the lane run state file, both with
their creator, which stands for the inode, and with what is in them. `pc` is a
process's next call and `my` its local variables: where it is in a series of
calls (`at`), what it made, what it opened, what the gate said. `Look`, `Make`,
`Confirm`, `OpenMarker`, `FillMarker`, `Unmake` are `prepareLocalLaneWorkspace`;
`Gate` and `Recheck` read directories and markers in the order of
`collectPreparedContextIssues`, before the executor and before persistence.
`NoteState`, `CreateEvidence`, `CompleteEvidence`, `Undo`, `UndoState` are
`persistLaneExecutorResult`, with `writtenEvidencePaths` (`wrote`) and
`statePathExistedBeforeAttempt` (`existed`); `OpenState`, `VerifyState`,
`TruncateState`, `WriteState` are `writeLaneRunState`, which the skeleton calls
too, with its own clean-up `Clear`, `ClearState`. `Fault` is any of these calls
throwing, `Die` the death of the process.

A process runs one command. Those in `Alone` are not overlapped by any other
(what a careful operator does, and what the tests do); the rest overlap freely.
The skeletons are among `Alone`: its clean-up removes a state directory
recursively and would need an order for every file in it. Abstractions:
path-safety, scope and allowlist refusals come before the first step; the
directories between the state directory and an evidence file are made with it;
a recursive removal is one step; clean-up does not fail a second time; an error
inside a gate is one of its issues; the adapter's outcome changes only the
content of what is kept.

**`LaneRunOutcome`.** What `LocalLanePersistence` leaves open: the content. One
lane; its commands run one after the other, because their overlap is that
module's matter. `step` and the command's local `plan`, `outcome`, `written`
follow `x-gate3-smoke`: `Begin` (validate, plan, prepare), `Invoke`
(`invokeLaneExecutor` with its refusals in their order, then the fake adapter or
another one), `Persist`, `FailPersist` or `FailState` (`persistLaneExecutorResult`),
`Project`. `sound` says whether the gates pass; `Spoil` makes them fail at any
time. `laneState` and `kept` are the files; `ReadBack` is anybody who reads the
state and projects it with a correlation and references of their own;
`QueueLane` is the branch skeleton. `said` is what the last step printed.
`AskStatus`, `AskResult` and `AskSample` are `run-request` and `x-gate2-smoke`,
which touch no state. Callers of the library may pass more than the CLI does:
fixtures whose reasons are missing, several, empty or too long; adapters that
throw, that contradict themselves, or that answer for another correlation; lists
of references that are not local or of a customer lane, and longer than a
result may hold. Abstractions: a text is the sequence of its reasons (whether
joined or not), a validator's verdict on strings is a choice, identifiers other
than the correlation are the right ones. The state file is written in place: a
write that fails (`FailState`) or is cut off (`DieInState`) leaves it `Unreadable`,
and what it recorded before is lost. Each state remembers, as history, the executor result that it records.

**`LaneHandoff`.** The pure stages between an issue of the owner and a
reviewable artifact: `pickupGithubIssueWorkItem` (`MayPickUp`, `PickedStatus`),
`evaluateIssueReadiness` (`Evaluate`), `planBranchLaneRunSkeleton` with its scope
and allowlist (`Prepare`), `createCodexAgentInvocationIntent` (`DryRun`, `Execute`)
and `createLaneArtifactOutput` (`CreateArtifact`). The only state of the program is
the lane run state (`lane`). What the program returned, `held` and `intent`, the
model's caller may hand to the next stage, of any issue and however old, because
nothing in the code stops it; a blocked intent is kept too. What the program never
returns the caller makes up: the proof of a dry run (a dry-run intent is none, and
`createCodexAgentInvocationIntent` compares the fields of whatever object it is
handed), the approval, scope, allowlist and capability evidence, and the metadata of
an evidence reference. `createLaneArtifactOutput` finds a reference in the lane run
state by its uri and judges by that metadata whether it is a customer's (`MayCite`),
so a uri may come back under another description. `RecordResult` is the executor's
result in the lane run state, whose own rules are `LaneRunOutcome`'s; it needs no
skeleton before it, as `x-gate3-smoke` only makes the directories. `finished`, and
`asked` and `shown` of an intent, are histories: the results that were recorded as
completed, what an execution was asked for and what its proof was of. A readiness
question is an item's status, whether its pickup found it owned, and its facts,
section by section; item and facts are loaded apart and need not agree. Abstractions:
a fact of a scope or an allowlist record is one of two values or blank; identity,
slug and URL of an owner go together, and so do purpose and approval note of a
customer; patterns over texts, paths and keys are refusals; a refused call changes
nothing. A caller that writes a lane run state or an intent of its own is left out.

## Runs

| Run | Bounds | Shows |
| --- | --- | --- |
| `store` | 2 processes, 2 lane runs, 3 attempts | all store properties and the refinement to `LaneRunAttempts` |
| `lock_open` | 3 calls, 2 inodes, 2 tries, 1 death, one slow holder, failing calls, 1 `Break`, concurrent recoveries | every call settles, even so |
| `system_solo` | 3 processes, 2 lane runs, 2 attempts, 2 inodes, 3 tries, 2 deaths, failing calls, 1 `Break`, recoveries one at a time | the lock's exclusion and clean-up, nobody removes a live lock; `LaneRunSystem` implements `LaneRunStore` |
| `system_two_recoverers` | as above, recoveries may overlap, starting from a queued record | violated: one attempt, two lane runs |
| `status_reads` | 2 work items with 2 and 1 attempts, 3 writes during one reading, the history of the first item | reports held at some moment, no lasting obstacle is overlooked, a quiet queue is served, what is shown can be acted on |
| `reconcile` | 1 process, 2 lane runs, 2 attempts, 2 observations | reports are owned, accuse no healthy file at rest, can be acted on |
| `reconcile_torn` | the same | violated: a torn pair is called consistent |
| `lane_persistence` | two overlapping smoke commands, one alone, one skeleton, 2 evidence references, 1 failing call, 1 death | kept results and clean-up |
| `lane_leftovers` | two smoke commands, 2 references, 1 failing call | violated: a half-written evidence file stays |
| `lane_overlap` | two overlapping smoke commands, 2 references | violated: the loser's clean-up removes the winner's state |
| `handoff` | 2 issues, 2 bindings, 2 evidence uris under 3 descriptions, 4 scopes, 8 allowlists, 3 capability sets, 2 recorded results | readiness reports hide nothing, skeletons and artifacts are traceable |
| `lane_outcome` | 2 commands, 2 correlations, 4 references in lists of up to 2, 1 bundle per result (50 in the code) | reports are true and backed, reasons survive, outcomes are final |

Why the bounds are enough. Store operations exclude each other, so a second
process adds only the death of one and the work of the next; two lane runs are
the least that can be confused with each other; three attempts let a lock be
two attempts behind and a linked attempt be linked again. In the lock, one dead
holder and two survivors give every pairing of holder, recoverer and newcomer;
two inode numbers let a number be reused or not; one acquisition turn more than
recovery needs lets a call recover and then acquire. The readers of
`status_reads` meet an item with two attempts, enough for the record of one and the
lock of the next, and another item, enough to hide it, to be listed before it, or
to come in while it is read; three writes let one be overtaken by a whole attempt,
which is enqueued, claimed and closed while its record is in the reader's hand; the
history (`Watched`) is that of the first item, which can do all that the second can.
Its VIEW forgets what no later read or report depends on (a
record whose lock has been read, the class of an item that is not queued, the
reading whose next step is to fail, the last call once it is answered). Reconciliation needs two
lane runs, one to be meant and one to be confused with it; its two observations
are that everything is in place and that nothing is; its VIEW keeps of a report
what the properties read, and only until a file changes, since they speak of
fresh reports; of a record and a lock that were read, what a report depends on; and
nothing of a reading that is to fail, or during which a file has changed and every
lane run was an owner. For one lane, two
overlapping commands give every pair of steps, and the lone ones meet whatever
those leave behind, in either order; two references put a failure between two
evidence files; with one failing call and one death each kind of step is hit
once, alone and together. `lane_persistence` uses a VIEW that forgets the local
variables of a process that has ended, except those a property reads. In
`lane_outcome` the second command repeats the first request with any change, the
two uris are the program's own and a caller's, and a list may be one longer than
a result may hold; its VIEW keeps of what a reader was told only that, with the
evidence files, since nothing follows from it. In `handoff` two issues and two bindings are the least that can
be mixed up, and the allowlists hold the record that matches, records that match
in parts only, records of the other class and incomplete ones; its VIEW keeps of a
verdict only the verdict, and a skeleton's answer only while nothing else is kept,
because neither depends on what is kept.

Bounds in the guards: `MaxAttempts` (the code's sequence numbers are unbounded),
`MaxTries` (the code has 25), `MaxCrashes`, `MaxBroken`, `MaxFaults`, `MaxDeaths`,
`MaxCommands`, `MaxMoves` and `Watched`, `MaxResults`. The lock, system, persistence and handoff
runs disable deadlock checking because their calls, commands and stages end; the
other runs check it.

Fairness. Only `LaneMutationLock` claims liveness. A process that has not died
takes its next step (weak fairness per call): each step awaits one file-system
call or a 20 ms delay. Nothing obliges a lock to become stale or a process to
die. `EveryCallSettles` needs no more, since a call gives up after `MaxTries`.
The readers and commands are sequences of awaited calls without a retry or a wait:
they end by construction, so nothing about their ending is claimed.

### What the violated runs say

* `system_two_recoverers`. A holder dies. Two calls find its directory stale
  twice and both go on to `rm`. The first removes it, makes its own, writes its
  owner file and runs; the second then removes this live lock by path and
  acquires it too. Both claims read the queued record and both succeed. Test
  `test/lane-run-queue.test.ts:99` promises that concurrent claims are
  serialised; the window is between the second `lstat` and `rm`.
* `reconcile_torn`. A process dies between the rename of the lock and that of the
  record (or the rollback fails). The record says queued, the lock is closed and
  names this record; claim, complete, stop, retry and requeue refuse the pair and
  only a fresh enqueue replaces it. Reconciliation compares the two files only
  while the lock is active, finds nothing, and answers ok, `safe-to-requeue`, "no
  action required". `docs/runbooks/x-gate4-readiness-report.md:56` wants
  mixed-snapshot signals to fail closed. `AdviceCanBeFollowed` shows that
  after such an answer every other pair can go on.
* `lane_leftovers`. `writeFile` with flag `wx` creates the evidence file and then
  writes it; if the write throws, the path is not yet in `writtenEvidencePaths`,
  the file stays, and every retry fails on it.
  `docs/architecture/local-lane-execution.md:223` rules out half-created artifacts.
* `lane_overlap`. Both commands read that no state exists. One keeps evidence and
  state and succeeds; the other fails on that evidence and, as no state existed
  when it looked, removes the file. `test/lane-run-persistence.test.ts:147` asks
  that such a failure preserve existing state. `RetryKeepsState` shows that the
  code does so when commands do not overlap.

`FailureRemovesDirectories` is about preparations that failed once the workspace
was returned to `prepareLocalLaneWorkspace`. If the check right after the
workspace's `mkdir` throws, `workspaceResult` is still undefined and the new
workspace stays; the next command goes on with it. `SuccessKeepsEvidence` and
`StateHasEvidence` say nothing of the state *file* of a successful command: as
`lane_overlap` shows, it may be gone.

Claiming ignores a blocker reason and completing keeps it, so an item that was
enqueued with a blocker is still reported as blocked after it completed, against
the table in `docs/runbooks/x-gate4-dogfood-readiness.md:95-105`. `LaneRunStore`
and `LaneRunStatus` have this; no run is spent on it, but `SteadyObstacleIsReported`
shows that such an item at least makes the status blocked and holds up continuous
loop mode openly instead of being passed over.

Status calls a lock without a record malformed, and so a file that was replaced between
its `open` and its `lstat`, and advises to repair or remove state. Both happen to files in
order: an item is enqueued and claimed after the records were read, or any operation
renames the very file that is being read. `ReportHeldOnce` says that these are the only
causes among the program's own operations, and that loop mode, which throws from its
second reading of the records, does so for the latter cause only; `QuietQueueIsServed`
that neither happens while nobody writes.

`NoFalseAlarm` holds for fresh reports only: with an operation between its reads,
reconciliation may find a lock on another record although no file ever was wrong.
Such a report is blocked and shows no evidence, so it errs on the safe side. A record
or lock replaced while it is being read makes the report malformed, but never a fresh
one: then some lane run state is unreadable.

`ReportHeldOnce` is as strong as the code allows. A report may still mix two
moments: a record read before it was replaced by a blocked one, with the active
lock of the latter, is shown as active; an old completed record with the new
attempt's lock has verification "succeeded" and lane state "active". Only a queued
item is shown as it was at one moment, since a lock is read after its record.

`AnswersAreTraceable` is as strong as the code allows. A completed result need not
follow an allowlisted preparation; a dry-run proof matches what is executed, but no
dry run need have been planned; the approval names neither the issue nor the dry run,
and its time is not compared with the dry run's, although the diagnostic asks for an
approval after it; the intent that an artifact shows may be of another issue; and a
draft shows no reference that says it is a customer's, whoever's it is. Of an intent
the artifact's second validation sees only that proof and approval were provided,
which a blocked intent says too: that the proof is of the same issue and binding
rests on the first one asking whether the intent is ok.

`OwnResultIsProjectable` and `BlockedSaysWhy` exclude two edges that the model
has. Reasons are joined without a limit, so a lane that was blocked for more
than 1000 characters of reasons is persisted but has no run result; and a single
empty reason is journalled but tells nothing. Neither comes from the CLI. An
adapter may also return a failed verification with a succeeded status: persistence
compares the statuses only, and the projection says "passed";
`docs/architecture/local-lane-execution.md:251` speaks of ambiguous outcomes
without saying which they are, so no property does. Nor does any document say
whether a skeleton may be prepared over a completed lane, whose state then reads
queued (`QueueLane`).

## Proofs

Eight modules hold theorems. Each module of a component is proved for every value
of its constants, from the named assumptions of that component's module only, unless
said otherwise.

`LaneRunStoreProofs`, from `StoreAssumption` (the null lane run is not a lane run,
the bound is a natural number):

* `TypeCorrect`: `TypeOK` is an invariant;
* `ClaimSafety`, `TerminalAgreement`, `PlansStayGood`, `TornTheorem`: the state
  invariants that the `store` run checks;
* `HandsTheorem`, `LineageTheorem`: the two action properties;
* `ClosedTheorem`: a closed record and its lock are final until the next number is
  queued, so no completion, stop or rollback that comes late can rewrite them;
* `Refinement`: `Spec => Attempts!Spec`; `FilesRefinement`: every write is one of
  `LaneRunFiles`.

None of the state invariants is inductive alone: a write installs what was
decided steps earlier, so its effect on the files is known only through what
was planned. `IInv` joins the types, mutual exclusion of tasks (at most one
process is not idle), the agreement of the two files, and `PlansFitTheFiles`,
which says per stage of a task what its planned writes are relative to the
files now. Each write is then good because its plan fits, and the others' plans
are idle because tasks exclude each other. The action properties and the
refinements follow from `IInv` and the lemma that only `WriteLock`, `WriteQueue`
and `Rollback` touch the files; a refinement has one lemma for each of them.
`TornTheorem` adds that a torn pair has either its closer still inside, or a death or
a failed rollback behind it.

`LaneMutationLockProofs`, from `LockAssumption`:

* `TypeCorrect`: types, whoever dies, is suspended or recovers at once;
* `CallsRunOut`: a call has at most `14 * MaxTries + 13` steps to its end, each of its
  steps uses one up, and nothing another call does gives it more. `Left` counts them:
  the places to the end of the turn, and a whole turn for each that is left. This is
  what `EveryCallSettles` says apart from fairness;
* under `Assumed` as well, `Exclusion`, `LeftWithCause`, `DirectoryStays`: mutual
  exclusion, what a directory that stays means, nobody removes a directory in use.

`Assumed` says that no holder is suspended beyond the staleness limit (`Slow = {}`)
and that either no two calls recover a stale lock at once (`SoloRecovery`) or no
directory is left behind: no process dies and no `Break` happens (`MaxCrashes = 0`,
`MaxBroken = 0`). Exclusion can therefore only be lost where a directory was left behind
*and* two recoveries overlap, or where a holder was suspended.

The inductive `IInv` says that at most one call is *busy*, that is, has made the
directory or has found it stale and is not over (`OneBusy`); what that call knows of
the directory at each of its steps, whether it is there, fresh, the one it compared
with, and whose owner files are in it (`Knows`); that a call that may go round again
has a turn left; and that an abandoned directory is that of a call that died or broke
off (`LeftBehind`). Inode numbers may be used again throughout. Where nobody may die or
break off nobody has (`AsManyLost`), so no directory is ever stale and no recovery
starts. Without
`Assumed` exclusion is false: `system_two_recoverers` has one death and two recoverers.

`LaneRunSystemProofs`, from `NoRace` (`SoloRecovery`, or nobody dies or breaks off;
its processes are never suspended that long), puts the two together. Its invariant couples them:
exactly the processes inside the lock are in an operation.

* `SystemLockTyped`, `SystemExclusion`, `SystemLeftWithCause`, `SystemDirectoryStays`:
  the lock's theorems with operations, and deaths inside operations, behind it;
* `SystemImplementsStore`: a step of the system is a step of `LaneRunStore` or leaves
  its files alone, because the lock's exclusion is the guard of `Enter`;
* `SystemKeepsAttempts`, `SystemFilesAgree`, `SystemServesReaders`: the store's
  theorems, carried over, and what the readers' model assumes of the files;
* `SystemImplementsAttempts`: the two refinements composed.

So the chain is closed from the file-system calls of the lock up to the abstract
`LaneRunAttempts`: an attempt is claimed by one lane run and closed once.
`SystemLockTyped` needs no assumption.

`LaneRunStatusProofs`, from `StatusAssumption`, for any number of items and writes:

* `TypeCorrect`, `AdviceTheorem`, `HeldOnceTheorem`, `ObstacleTheorem`,
  `QuietTheorem`: all five properties of `status_reads`.

The inductive `SInv` joins types; `Sound`, the coherence of each item's two files,
which every write of `LaneRunFiles` keeps (`WriteMoves`); what an idle reader has
(`Rested`); for an item that has not moved, what was read of it is what is there, its
open file was not replaced, and what a plan concluded from it is still so (`InStep`,
`Progress`, `Planned`, `Judged`); and for the watched item, `Followed`: of a record
that was read and of the lock that is there now, everything they would show together
has held, because only a lock can overtake a record, and one that does leaves what it
shows in the history. Reading the lock after the record then proves the report.

`LaneRunReconciliationProofs` rests on the store's `IInv` and two more facts about the
files (a lock names a lane run, a record closed without a lock was revoked):

* `ReconTypeCorrect`, `NoFalseAlarmTheorem`, `EvidenceTheorem`, `AdviceTheorem`: all
  four properties of `reconcile`.

`ReportVouched` is its heart, a lemma about the pure decision: for three reads of the
same moment, whatever else was observed and whoever was named, the report accuses
nobody and what it advises, or leaves open, has its operation's guard true. The
reader's invariant carries the reads to that moment while nothing moves, remembers
as owners whoever was read when something did, and knows that a file that was replaced
while it was open moved (`Renamed`).

`LocalLanePersistenceProofs`, for any set of processes and any number of evidence
references, failing calls and deaths, from `WorkspaceAssumption` and
`PersistenceAssumption`:

* `TypeCorrect`: `TypeOK` is an invariant;
* `SuccessTheorem`: a successful smoke command owns all evidence for ever;
* `StateTheorem`: a recorded result stands beside its complete evidence;
* `CleanUpTheorem`, `UndisturbedTheorem`, `RetryTheorem`: the other three properties
  of `lane_persistence`;
* `HalfCreatedTheorem`, `LossTheorem`: where the two violated claims do hold. A smoke
  command that fails leaves evidence only if a call of its own failed, and a
  recorded result goes only when a skeleton is prepared again or when an overlapping
  command that looked too early cleans up.

`SuccessTheorem` and `StateTheorem` need to know how far a process is and what it may remove. `KeptInv`
joins six parts: a lone process that runs runs by itself; a process sits on the
path of its kind of command; what a process noted as written is there, complete
and its own (all references before the current one, while it is writing); evidence
lies in a state directory that exists; a skeleton still on its way that made the
state directory finds no evidence in it; and the text of a state file is that
of a command that got as far as writing it. Evidence then can go only by the
clean-up of its writer, who has not succeeded nor recorded a state, or by a
skeleton's clean-up, whose directory holds none.

The others rest on what every process can account for. `Accounts` says that a process
with a failing call behind it is cleaning up or over; that evidence has an author who
got as far as writing it, and is complete only if its author noted it; that what a
process noted, opened and found agrees with the files (`Notes`); that a directory's
maker has it among those it created; and what clean-up has removed (`Unmade`). For
this `EvidenceMoves` lists the ways a piece of evidence can change and `Course` where
a step can lead. Two invariants about commands that nobody overlaps come on top.
`LoneInv` follows such a command call by call: every path up to its position is
there, the markers it filled are full, the gates have found no issue, what it opened
is still what the path names, and if it is on its way to failing, a piece of
evidence of an earlier command is in the way. `RetryInv` says that a retry that noted
no lane run state finds no recorded result later. `LossTheorem` then needs only that
two commands cannot both have made all of the evidence.

`LaneRunOutcomeProofs`, for any references, correlations and numbers of commands:

* `TypeCorrect`, `SuccessTheorem`, `ReportsTheorem`, `BlockedTheorem`, `OwnTheorem`,
  `EvidenceTheorem`, `FinalTheorem`: all seven properties of `lane_outcome`.

`OInv` says what an executor can have come back with for the present plan
(`Possibly`: whatever an adapter claims, its run result was made by the library and
succeeds only for a ready plan), that a recorded state is true to the result it was
made of (`Faithful`), that it stands beside evidence files of its own command and
outcome (`BackedBy`), and what a command that persisted remembers of it
(`Remembered`). A projection then succeeds only where all of them say so.

`BlockedTheorem` and `OwnTheorem` follow texts through the journal and back. `Faithful`
therefore keeps that the journal is the one made of the recorded result, and all
reasons are sequences over the reasons there are. `JournalText` computes what is read
out of a journal, whose entries but one have no text: all of the reasons or none.
`TextOf` takes the entries by their positions, which the prover can follow; it cannot
look into `SelectSeq`. `BlockedTheorem` has a part for lanes and one for requests,
which are answered from the plan alone. `OwnTheorem` needs that references of a
command's own are all at one place, of which the persistence admits one.

`LaneHandoffProofs`, for any issues, bindings, scopes, allowlists and capabilities:

* `TypeCorrect`, `Traceability`, `ReadinessTheorem`.

`HInv` says that every lane run state, in the file or kept by the caller, is
`Genuine` (if completed, of a recorded result), and that an intent to execute that is
ok is `Proved` (its proof is of what was asked). The readiness theorem is
about one question: the diagnostics are enumerated once (`EachDiagnostic`), and the
verdict and the repaired question follow from them.

Only model-checked: `EveryCallSettles`, because liveness under fairness and what is
enabled are beyond the prover; `CallsRunOut` is the part of it that is not. Every
other property of a passing run is a theorem. The violated runs are counterexamples
and need no proof; each has a theorem that says when the claim does hold:
`SystemKeepsAttempts` for `system_two_recoverers`, `TornTheorem` for `reconcile_torn`,
`HalfCreatedTheorem` for `lane_leftovers`, `LossTheorem` for `lane_overlap`.

## Not modelled, and the plan

Left out for good: text redaction, path safety checks and symbolic links,
parsing of malformed files (an unreadable file is a refused operation),
timestamps (a bad one refuses the call; a good one exists for every call the
other guards admit), field-by-field validation of requests, of the operational
evidence profile and of artifacts that were just constructed, and the CLI's argument
parsing and printing. Work items share no file but the directories they are listed in,
so several of them matter to the readers only.

Next, in this order:

1. The recovery of a truncated lane run identifier by its digest, which is the only
   way `reconcileLaneRunState` reports inconsistent terminal metadata, with the
   theorems of `LaneRunReconciliation` carried along.
2. The operations inside the lock counted like the lock's own steps, so that
   `CallsRunOut` covers a whole mutation of a work item.
