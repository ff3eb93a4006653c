--------------------------- MODULE LaneRunOutcome ---------------------------
(* What becomes of one run request: the plan, the executor's result, the    *)
(* lane run state with its evidence, and the protocol outputs made of them. *)
(*                                                                          *)
(* One lane.  Its commands run one after the other (LocalLanePersistence    *)
(* interleaves their file-system calls), each in the order of the CLI's     *)
(* x-gate3-smoke but with every fixture, adapter and evidence reference     *)
(* that a caller of the library may pass; a command may fail or die at any  *)
(* step, and others project what is on disk at any time.  A text is the     *)
(* sequence of the reasons in it: what else it says is left out, except     *)
(* whether it is too long ("long") or empty ("blank").                      *)
EXTENDS Naturals, Sequences, SequencesExt

CONSTANTS
  Corr,          \* correlation identifiers
  Ref,           \* evidence references that callers pass
  MaxBundles,    \* evidence bundles that a run result may name (50)
  MaxCommands    \* bound: commands for the lane

ASSUME OutcomeAssumption ==
  /\ MaxBundles \in Nat \ {0}
  /\ MaxCommands \in Nat

VARIABLES
  commands,   \* how many commands have begun
  step,       \* how far the present one is
  plan,       \* its execution plan
  outcome,    \* the executor's result, in its memory
  written,    \* the state and the references it persisted, in its memory
  sound,      \* the prepared directories and markers are as the gate wants them
  laneState,  \* the lane run state file
  kept,       \* per uri, the evidence metadata file
  said        \* what was printed last, by whom, about which state or request

outcomeVars == <<commands, step, plan, outcome, written, sound, laneState, kept, said>>

-----------------------------------------------------------------------------
(* Requests, plans and what the run-request commands print of them.        *)

(* Of an invalid request only its identifiers matter.                      *)
Request ==
  {r \in [valid : BOOLEAN, stable : BOOLEAN, target : BOOLEAN, policy : BOOLEAN, corr : Corr] :
     IF r.valid THEN r.stable ELSE r.target /\ r.policy}

PlanBlockers(r) ==
  (IF r.target THEN <<>> ELSE <<"no target">>) \o (IF r.policy THEN <<>> ELSE <<"no policy">>)

PlanOf(r) ==
  [status |-> IF PlanBlockers(r) = <<>> THEN "ready" ELSE "blocked",
   reasons |-> PlanBlockers(r), corr |-> r.corr]

(* What a call may come back with. *)
Empty(what) ==
  [what |-> what, status |-> "none", corr |-> "none", verification |-> "none",
   text |-> <<>>, reasons |-> <<>>, evidence |-> <<>>]
Nothing == Empty("nothing")
Thrown == Empty("thrown")
Issues == Empty("issues")
Snapshot(status, corr, text, reasons) ==
  [what |-> "snapshot", status |-> status, corr |-> corr, verification |-> "none",
   text |-> text, reasons |-> reasons, evidence |-> <<>>]
Result(status, corr, verification, reasons, evidence) ==
  [what |-> "result", status |-> status, corr |-> corr, verification |-> verification.status,
   text |-> verification.text, reasons |-> reasons, evidence |-> evidence]

Fits(text) == ~Contains(text, "long")
Blank(text) == text \in {<<>>, <<"blank">>}

MayReport(p, status) == (p.status = "blocked") <=> (status = "blocked")

PlanSnapshot(p, status) ==
  IF MayReport(p, status) THEN Snapshot(status, p.corr, p.reasons, p.reasons) ELSE Thrown

DryRunVerification(p, status) ==
  [status |-> IF status = "blocked" THEN "blocked" ELSE "not_run", text |-> p.reasons]

PlanResult(p, status, verification) ==
  IF MayReport(p, status) THEN Result(status, p.corr, verification, <<>>, <<>>) ELSE Thrown

InvalidSnapshot(r) ==
  IF r.stable THEN Snapshot("blocked", r.corr, <<"invalid">>, <<"invalid">>) ELSE Issues

InvalidResult(r) ==
  IF r.stable
  THEN Result("blocked", r.corr, [status |-> "blocked", text |-> <<"invalid">>],
              <<"invalid">>, <<>>)
  ELSE Issues

Possible(p, status) == IF p.status = "blocked" THEN "blocked" ELSE status

StatusAnswer(r, mode) ==
  IF r.valid THEN PlanSnapshot(PlanOf(r), Possible(PlanOf(r), mode)) ELSE InvalidSnapshot(r)

ResultAnswer(r, mode) ==
  LET p == PlanOf(r) IN
  IF r.valid
  THEN PlanResult(p, Possible(p, mode), DryRunVerification(p, Possible(p, mode)))
  ELSE InvalidResult(r)

Quiet == [by |-> "nobody", about |-> <<>>, snapshot |-> Nothing, result |-> Nothing]
Answer(r, snapshot, result) ==
  said' = [by |-> "request", about |-> <<r>>, snapshot |-> snapshot, result |-> result]

(* These commands touch no state, so it is enough that they run first.     *)
AskStatus(r) ==
  /\ commands = 0
  /\ \E mode \in {"accepted", "queued", "running", "blocked"} :
       Answer(r, StatusAnswer(r, mode), Nothing)
  /\ UNCHANGED <<commands, step, plan, outcome, written, sound, laneState, kept>>

AskResult(r) ==
  /\ commands = 0
  /\ \E mode \in {"succeeded", "failed", "blocked"} : Answer(r, Nothing, ResultAnswer(r, mode))
  /\ UNCHANGED <<commands, step, plan, outcome, written, sound, laneState, kept>>

AskSample(r) ==
  /\ commands = 0
  /\ Answer(r, StatusAnswer(r, "queued"), ResultAnswer(r, "succeeded"))
  /\ UNCHANGED <<commands, step, plan, outcome, written, sound, laneState, kept>>

-----------------------------------------------------------------------------
(* A command for the lane: prepare, invoke the executor, persist, project. *)

NoPlan == [status |-> "none", reasons |-> <<>>, corr |-> "none"]
NoOutcome == [status |-> "none", run |-> Nothing, reasons |-> <<>>]
BareState(status) ==
  [status |-> status, journal |-> <<>>, refs |-> <<>>, of |-> NoOutcome, by |-> 0, ready |-> FALSE]
NoState == BareState("absent")
Unreadable == BareState("unreadable")
NoFile == [by |-> 0, outcome |-> "none"]
NothingWritten == [state |-> NoState, refs |-> <<>>]
Uri == {x.uri : x \in Ref} \cup {"default"}

(* Between commands nothing of a command is left in memory.                *)
AtRest ==
  /\ step' = "idle"
  /\ plan' = NoPlan
  /\ outcome' = NoOutcome
  /\ written' = NothingWritten

Throw == said' = [by |-> "command", about |-> <<>>, snapshot |-> Thrown, result |-> Thrown]

Begin(r) ==
  /\ step = "idle"
  /\ commands < MaxCommands
  /\ commands' = commands + 1
  /\ \/ /\ ~r.valid
        /\ Answer(r, InvalidSnapshot(r), InvalidResult(r))
        /\ UNCHANGED <<step, plan, sound>>
     \/ /\ r.valid
        /\ step' = "prepared" /\ plan' = PlanOf(r) /\ sound' = TRUE
        /\ said' = Quiet
     \/ /\ r.valid
        /\ Throw
        /\ UNCHANGED <<step, plan, sound>>
  /\ UNCHANGED <<outcome, written, laneState, kept>>

Fixture ==
  {f \in [outcome : {"succeeded", "failed", "blocked"}, safe : BOOLEAN,
          reasons : {<<>>, <<"asked">>, <<"asked", "too">>, <<"blank">>, <<"long">>}] :
     f.outcome = "blocked" \/ f.reasons = <<>>}

BlockedOutcome(why) ==
  [status |-> "blocked",
   run |-> PlanResult([status |-> "blocked", reasons |-> why, corr |-> plan.corr], "blocked",
                      [status |-> "blocked", text |-> why]),
   reasons |-> why]

FixtureVerification(f) ==
  [status |-> IF f.outcome = "succeeded" THEN "passed" ELSE "failed", text |-> <<>>]

FakeOutcome(f) ==
  CASE plan.status = "blocked" -> BlockedOutcome(plan.reasons)
    [] plan.status # "blocked" /\ f.outcome = "blocked" ->
         BlockedOutcome(IF f.reasons # <<>> THEN f.reasons ELSE <<"asked">>)
    [] OTHER -> [status |-> f.outcome, run |-> PlanResult(plan, f.outcome, FixtureVerification(f)),
                 reasons |-> <<>>]

(* Why invokeLaneExecutor stops before the adapter, <<>> if it does not;   *)
(* "how" is what the caller got wrong apart from the fixture.              *)
Refusal(f, how) ==
  IF ~f.safe THEN <<"fixture">>
  ELSE IF how # "usual" THEN <<how>>
  ELSE IF ~sound THEN <<"gate">>
  ELSE <<>>

(* Another adapter under the same name: it makes its run result with the   *)
(* library from this plan or from one with another correlation, and may    *)
(* claim a status of its own, or it throws.                                *)
OtherOutcome(s, t, c) ==
  [status |-> s,
   run |-> PlanResult([status |-> plan.status, reasons |-> plan.reasons, corr |-> c], t,
                      [status |-> "not_run", text |-> <<>>]),
   reasons |-> <<>>]

Ended == {"succeeded", "failed", "blocked"}

OtherOutcomes == {OtherOutcome(s, t, c) : s \in Ended, t \in Ended, c \in Corr}

AdapterOutcomes(f) ==
  {FakeOutcome(f), BlockedOutcome(<<"adapter">>)} \cup {x \in OtherOutcomes : x.run # Thrown}

Invoke(f) ==
  /\ step = "prepared"
  /\ step' = "invoked"
  /\ \E how \in {"usual", "config", "context"} :
       \/ Refusal(f, how) # <<>> /\ outcome' = BlockedOutcome(Refusal(f, how))
       \/ Refusal(f, how) = <<>> /\ outcome' \in AdapterOutcomes(f)
  /\ said' = Quiet
  /\ UNCHANGED <<commands, plan, written, sound, laneState, kept>>

(* Somebody removes or replaces a prepared directory or a marker.          *)
Spoil ==
  /\ step # "idle"
  /\ sound
  /\ sound' = FALSE
  /\ said' = Quiet
  /\ UNCHANGED <<commands, step, plan, outcome, written, laneState, kept>>

-----------------------------------------------------------------------------
(* Evidence references and persisting the executor's result.               *)

(* What customer-lane-evidence.ts tells apart in a reference's metadata.   *)
Metadata ==
  [track : BOOLEAN, boundary : {"none", "customer-lane", "customer-regulated"},
   class : {"none", "unknown", "public", "controlled"},
   controlled : {"absent", "yes", "no", "malformed"},
   embedsPayload : BOOLEAN, bounded : BOOLEAN]

ASSUME ReferenceAssumption == \A x \in Ref : x.metadata \in Metadata

HasCustomerSignal(m) ==
  \/ m.track
  \/ m.boundary # "none"
  \/ m.class = "controlled"
  \/ m.controlled \in {"yes", "malformed"}

MustBeControlled(m) ==
  \/ m.class = "controlled"
  \/ m.boundary = "customer-regulated"
  \/ m.controlled \in {"yes", "malformed"}

ControlledMetadata(m) == m.controlled # "malformed" /\ ~m.embedsPayload /\ m.bounded

CustomerSafe(m) ==
  HasCustomerSignal(m) =>
    /\ m.class \in {"public", "controlled"}
    /\ m.boundary = "customer-regulated" => m.class = "controlled"
    /\ MustBeControlled(m) => ControlledMetadata(m)

(* A reference that validateEvidenceBundleRef accepts and that names a     *)
(* path under the state directory, the only kind the program keeps.        *)
LocalReference(x) == x.wellFormed /\ x.type = "local_path"

PlainMetadata ==
  [track |-> FALSE, boundary |-> "none", class |-> "none", controlled |-> "absent",
   embedsPayload |-> FALSE, bounded |-> TRUE]

DefaultRef ==
  [uri |-> "default", corr |-> plan.corr, type |-> "local_path", wellFormed |-> TRUE,
   metadata |-> PlainMetadata]

RefLists == SeqOf(Ref, MaxBundles + 1)

MatchesCorrelationOnly == outcome.run.corr = plan.corr

(* assertExecutorResultMatchesPersistenceInput: the run result is of this  *)
(* plan's request and says what the executor says.                         *)
Matches ==
  /\ outcome.run.corr = plan.corr
  /\ outcome.run.status = outcome.status

Persistable(refs) ==
  /\ Matches
  /\ sound
  /\ \A i \in DOMAIN refs : LocalReference(refs[i])

CanCreateOver(refs) == \A i, j \in DOMAIN refs : refs[i].uri = refs[j].uri => i = j

(* Each evidence file is created exclusively.                              *)
CanCreate(refs) ==
  /\ \A i \in DOMAIN refs : kept[refs[i].uri] = NoFile
  /\ \A i, j \in DOMAIN refs : refs[i].uri = refs[j].uri => i = j

JournalOfFailures(x) ==
  <<[kind |-> IF x.status = "failed" THEN "failure" ELSE "command", says |-> "outcome",
     text |-> x.reasons]>>

Journal(x) ==
  <<[kind |-> "change", says |-> "prepared", text |-> <<>>],
    [kind |-> IF x.status = "failed" THEN "failure" ELSE "command",
      says |-> "outcome", text |-> <<>>]>>
  \o (IF x.reasons = <<>> THEN <<>>
      ELSE <<[kind |-> "failure", says |-> "blocked reasons", text |-> x.reasons]>>)
  \o <<[kind |-> "next-action", says |-> "next action", text |-> <<>>]>>

ToLaneRunStatusAsIs(status) == status

ToLaneRunStatus(status) == IF status = "succeeded" THEN "completed" ELSE status

(* The lane run state; "of", "by" and "ready" are history: which executor  *)
(* result of which command it records, and whether its plan was ready.     *)
StateOf(refs) ==
  [status |-> ToLaneRunStatus(outcome.status), journal |-> Journal(outcome),
   refs |-> [i \in DOMAIN refs |-> refs[i].uri],
   of |-> outcome, by |-> commands, ready |-> plan.status = "ready"]

KeptWith(refs, n) ==
  [u \in Uri |-> IF \E i \in 1..n : refs[i].uri = u
                 THEN [by |-> commands, outcome |-> outcome.status] ELSE kept[u]]

Persist(refs) ==
  /\ step = "invoked"
  /\ Persistable(refs) /\ CanCreate(refs)
  /\ kept' = KeptWith(refs, Len(refs))
  /\ laneState' = StateOf(refs)
  /\ written' = [state |-> StateOf(refs), refs |-> refs]
  /\ step' = "persisted"
  /\ said' = Quiet
  /\ UNCHANGED <<commands, plan, outcome, sound>>

(* The result is refused, or a call fails before the state is touched:     *)
(* evidence already written is taken back, and the state is as it was.     *)
FailPersist(refs) ==
  /\ step = "invoked"
  /\ Throw
  /\ AtRest
  /\ \/ UNCHANGED kept
     \/ \E i \in DOMAIN refs :   \* the file whose writing failed stays (see lane_leftovers)
          /\ Persistable(refs) /\ CanCreate(SubSeq(refs, 1, i))
          /\ kept' = [kept EXCEPT ![refs[i].uri] = [by |-> commands, outcome |-> "half"]]
  /\ UNCHANGED <<commands, sound, laneState>>

(* The state is written in place: a write that fails leaves part of a text,*)
(* which nobody restores; a state file that was not there is removed again.*)
FailState(refs) ==
  /\ step = "invoked"
  /\ Persistable(refs) /\ CanCreate(refs)
  /\ laneState # NoState
  /\ laneState' = Unreadable
  /\ Throw
  /\ AtRest
  /\ UNCHANGED <<commands, sound, kept>>

(* The process dies before it persists, in the middle of its evidence      *)
(* files, in the middle of the state, or after it persisted.               *)
Die ==
  /\ step # "idle"
  /\ AtRest
  /\ UNCHANGED kept
  /\ said' = Quiet
  /\ UNCHANGED <<commands, sound, laneState>>

DieAmongEvidence(refs) ==
  /\ step = "invoked"
  /\ Persistable(refs)
  /\ \E n \in DOMAIN refs : CanCreate(SubSeq(refs, 1, n)) /\ kept' = KeptWith(refs, n)
  /\ AtRest
  /\ said' = Quiet
  /\ UNCHANGED <<commands, sound, laneState>>

DieInState(refs) ==
  /\ step = "invoked"
  /\ Persistable(refs) /\ CanCreate(refs)
  /\ kept' = KeptWith(refs, Len(refs))
  /\ laneState' = Unreadable
  /\ AtRest
  /\ said' = Quiet
  /\ UNCHANGED <<commands, sound>>

(* planBranchLaneRunSkeleton prepares the lane and records it as queued.   *)
QueueLane ==
  /\ laneState' = BareState("queued")
  /\ sound' = TRUE
  /\ said' = Quiet
  /\ UNCHANGED <<commands, step, plan, outcome, written, kept>>

-----------------------------------------------------------------------------
(* Projection to the protocol.                                             *)

(* Which entries of the journal are failures, and which of these tell what *)
(* blocked the lane.                                                       *)
Failures(state) == {i \in DOMAIN state.journal : state.journal[i].kind = "failure"}
BlockedTexts(state) ==
  {i \in Failures(state) :
     state.journal[i].says = "blocked reasons" /\ ~Blank(state.journal[i].text)}

(* The texts of some entries, joined in the order of the journal.          *)
TextOf(state, entries) ==
  FlattenSeq([i \in DOMAIN state.journal |->
                IF i \in entries THEN state.journal[i].text ELSE <<>>])

ToSnapshotStatus(status) ==
  IF status \in {"completed", "failed", "blocked", "queued"} THEN status ELSE "running"

ToResultStatusTwoWay(status) == IF status = "completed" THEN "succeeded" ELSE "failed"

ToResultStatus(status) ==
  CASE status = "completed" -> "succeeded"
    [] status = "failed" -> "failed"
    [] OTHER -> "blocked"

ProjectSnapshot(state, corr) ==
  Snapshot(ToSnapshotStatus(state.status), corr, <<>>, TextOf(state, BlockedTexts(state)))

Projected(state, status) ==
  CASE status = "succeeded" -> [status |-> "passed", text |-> <<>>]
    [] status = "failed" -> [status |-> "failed", text |-> TextOf(state, Failures(state))]
    [] OTHER -> [status |-> "blocked", text |-> TextOf(state, BlockedTexts(state))]

(* The offered reference for a recorded uri: the first that has it.        *)
Offer(offered, uri) == offered[SelectInSeq(offered, LAMBDA x : x.uri = uri)]

MayNameClassified(x, corr) ==
  LocalReference(x) /\ x.corr = corr /\ x.metadata.class \in {"public", "controlled"}

MayName(x, corr) == LocalReference(x) /\ x.corr = corr /\ CustomerSafe(x.metadata)

Backed(state, corr, offered) ==
  \A i \in DOMAIN state.refs :
    /\ \E j \in DOMAIN offered : offered[j].uri = state.refs[i]
    /\ MayName(Offer(offered, state.refs[i]), corr)

(* validateRunResult on what the projection builds.                        *)
ValidResult(result) == Fits(result.text) /\ Len(result.evidence) <= MaxBundles

ProjectResult(state, corr, offered) ==
  LET status == ToResultStatus(state.status)
      success == status = "succeeded"
      result == Result(status, corr, Projected(state, status),
                       TextOf(state, BlockedTexts(state)),
                       IF success THEN [i \in DOMAIN state.refs |-> Offer(offered, state.refs[i])]
                       ELSE <<>>)
  IN IF /\ state.status \in {"completed", "failed", "blocked"}
        /\ success => Backed(state, corr, offered)
        /\ ValidResult(result)
     THEN result ELSE Thrown

Project ==
  /\ step = "persisted"
  /\ said' = [by |-> "command", about |-> <<written>>,
              snapshot |-> ProjectSnapshot(written.state, plan.corr),
              result |-> ProjectResult(written.state, plan.corr, written.refs)]
  /\ AtRest
  /\ UNCHANGED <<commands, sound, laneState, kept>>

(* Somebody reads the state file and projects it, with references and a    *)
(* correlation of their own.  What is not the text of a state is refused.   *)
(* Between two commands is enough: a command may die before, in and after   *)
(* its write of the file.                                                   *)
ReadBack(corr, offered) ==
  /\ step = "idle"
  /\ laneState \notin {NoState, Unreadable}
  /\ said' = [by |-> "reader", about |-> <<[state |-> laneState, refs |-> offered]>>,
              snapshot |-> ProjectSnapshot(laneState, corr),
              result |-> ProjectResult(laneState, corr, offered)]
  /\ UNCHANGED <<commands, step, plan, outcome, written, sound, laneState, kept>>

-----------------------------------------------------------------------------
Init ==
  /\ commands = 0
  /\ step = "idle" /\ plan = NoPlan /\ outcome = NoOutcome /\ written = NothingWritten
  /\ sound = FALSE
  /\ laneState = NoState
  /\ kept = [u \in Uri |-> NoFile]
  /\ said = Quiet

References == RefLists \cup {<<DefaultRef>>}

Next ==
  \/ \E r \in Request : AskStatus(r) \/ AskResult(r) \/ AskSample(r) \/ Begin(r)
  \/ \E f \in Fixture : Invoke(f)
  \/ \E refs \in References : \/ Persist(refs) \/ FailPersist(refs) \/ FailState(refs)
                              \/ DieAmongEvidence(refs) \/ DieInState(refs)
  \/ \E corr \in Corr, offered \in RefLists : ReadBack(corr, offered)
  \/ Project \/ Spoil \/ Die \/ QueueLane

Spec == Init /\ [][Next]_outcomeVars

-----------------------------------------------------------------------------
(* Properties.                                                             *)

Outputs == {"nothing", "thrown", "issues", "snapshot", "result"}
Statuses == {"none", "succeeded", "failed", "blocked"}

(* Every variable has its type; in particular a lane run state file never   *)
(* holds an executor's status, which readLaneRunState would refuse.         *)
TypeOK ==
  /\ commands \in 0..MaxCommands
  /\ step \in {"idle", "prepared", "invoked", "persisted"}
  /\ plan.status \in {"none", "ready", "blocked"} /\ plan.corr \in Corr \cup {"none"}
  /\ outcome.status \in Statuses /\ outcome.run.what \in {"nothing", "result"}
  /\ laneState.status \in {"absent", "unreadable", "queued", "completed", "failed", "blocked"}
  /\ laneState.by \in 0..commands
  /\ \A i \in DOMAIN laneState.refs : laneState.refs[i] \in Uri
  /\ sound \in BOOLEAN
  /\ \A u \in Uri : kept[u].by \in 0..commands /\ kept[u].outcome \in Statuses \cup {"half"}
  /\ said.snapshot.what \in Outputs /\ said.result.what \in Outputs

(* A state was projected, and which.                                       *)
Projection == said.by \in {"command", "reader"} /\ said.about # <<>>
Shown == said.about[1].state

(* Whoever projects a lane run, with whatever references: a success was     *)
(* recorded for a ready plan by an executor whose own run result says so,   *)
(* and each piece of evidence it names was written by that very command, as *)
(* that of a success, and belongs to the correlation of the result.         *)
SuccessIsBacked ==
  (Projection /\ said.result.status = "succeeded") =>
    /\ Shown.ready
    /\ Shown.of.status = "succeeded" /\ Shown.of.run.status = "succeeded"
    /\ Len(said.result.evidence) = Len(Shown.refs)
    /\ \A i \in DOMAIN said.result.evidence :
         /\ said.result.evidence[i].corr = said.result.corr
         /\ kept[said.result.evidence[i].uri] = [by |-> Shown.by, outcome |-> "succeeded"]

(* Status snapshot and run result of one state agree with each other and    *)
(* with what the executor reported, through all three vocabularies.         *)
ReportsAgree ==
  (Projection /\ said.result.what = "result") =>
    /\ said.result.status = Shown.of.status
    /\ said.result.status = Shown.of.run.status
    /\ said.snapshot.status =
         (IF Shown.of.status = "succeeded" THEN "completed" ELSE Shown.of.status)

(* What blocked a lane, be it plan, gate, fixture or adapter, is told in    *)
(* the snapshot and in the run result, all of it and in its order, also     *)
(* when they are made of the state file alone.  And a request that is       *)
(* invalid or lacks its target or policy always gets an answer, if it can   *)
(* be addressed, which is blocked and says why.                             *)
BlockedLaneSaysWhy ==
  (Projection /\ Shown.status = "blocked" /\ ~Blank(Shown.of.reasons)) =>
    /\ said.snapshot.reasons = Shown.of.reasons
    /\ said.result.what = "result" =>
         said.result.text = Shown.of.reasons /\ said.result.reasons = Shown.of.reasons

BlockedRequestIsAnswered ==
  (said.by = "request" /\ said.about[1].stable
     /\ (~said.about[1].valid \/ PlanOf(said.about[1]).status = "blocked")) =>
    \A x \in {said.snapshot, said.result} \ {Nothing} :
      x.status = "blocked" /\ x.corr = said.about[1].corr /\ x.text # <<>>

BlockedSaysWhy == BlockedLaneSaysWhy /\ BlockedRequestIsAnswered

(* A command that keeps its evidence where the program puts it can report   *)
(* what it recorded, unless the reasons are longer than a result may hold.  *)
OwnResultIsProjectable ==
  (/\ said.by = "command" /\ said.about # <<>>
   /\ \A i \in DOMAIN said.about[1].refs :
        said.about[1].refs[i].uri = "default" /\ said.about[1].refs[i].metadata = PlainMetadata
        /\ said.about[1].refs[i].corr = Shown.of.run.corr
   /\ Fits(Shown.of.reasons))
  => said.result.what = "result"

(* The state file and the evidence it names tell of the same command and    *)
(* the same outcome, whatever other commands failed or died over it.        *)
EvidenceAgrees ==
  \A i \in DOMAIN laneState.refs :
    kept[laneState.refs[i]] = [by |-> laneState.by, outcome |-> laneState.of.status]

(* An outcome is recorded once: a later command never puts its own in its   *)
(* place while it names the same evidence.                                  *)
OutcomeIsFinal ==
  [][(laneState.by # 0 /\ laneState'.by # 0 /\ laneState' # laneState) =>
       /\ laneState.by < laneState'.by
       /\ \A i \in DOMAIN laneState.refs, j \in DOMAIN laneState'.refs :
            laneState.refs[i] # laneState'.refs[j]]_outcomeVars
=============================================================================
