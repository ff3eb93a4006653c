----------------------------- MODULE LaneHandoff -----------------------------
(***************************************************************************)
(* The way of an owner-controlled issue to a reviewable artifact: pickup,  *)
(* readiness, lane skeleton, Codex invocation intent, artifact output.     *)
(* Each stage is a function of what its caller hands it; nothing in the    *)
(* program ties one stage to the next.  So the caller is free here: what   *)
(* the program returned it keeps and may hand, of any issue and however    *)
(* old, to the next stage; and what the program never returns, the proof   *)
(* of a dry run, an approval, the metadata of an evidence reference, a     *)
(* scope, an allowlist, it makes up as it likes.                           *)
(*                                                                         *)
(* Names, paths, identifiers and texts are well formed: a malformed one is *)
(* refused, and a refused call returns its issues and changes nothing.     *)
(***************************************************************************)
EXTENDS Naturals, FiniteSets

CONSTANTS Issue,        (* issues of the owner's repositories               *)
          NoIssue,      (* no issue                                         *)
          Key,          (* idempotency bindings                             *)
          NoKey,        (* no binding                                       *)
          Ref,          (* uris of evidence references                      *)
          UnnamedRef,   (* those that a public artifact may not name        *)
          Evidence,     (* the sets of uris that a result is recorded with  *)
          MaxResults,   (* bound: results recorded for the lane             *)
          Scope,        (* authoritative repository scopes                  *)
          Allowlist,    (* repository allowlists handed to the skeleton     *)
          Capability    (* capability evidence: operation -> support level  *)

Fact == {"a", "b", "blank"}
Class == {"owner-controlled-dogfood", "customer-repository"}

(* who: owner identity, slug and URL, or owner and repository; why: purpose *)
(* and approval note of a customer repository.                             *)
Record == [class : Class, who : Fact, root : Fact, why : Fact]
Operation == {"submit", "idempotency", "evidenceReferences", "fetchEvidence"}
Level == {"supported", "partial", "unsupported"}

ASSUME HandoffAssumption ==
  /\ NoIssue \notin Issue /\ NoKey \notin Key
  /\ UnnamedRef \subseteq Ref
  /\ Evidence \subseteq SUBSET Ref /\ MaxResults \in Nat
  /\ Scope \subseteq Record /\ Allowlist \subseteq SUBSET Record
  /\ Capability \subseteq [Operation -> Level]

VARIABLES lane,     (* the lane run state file                              *)
          held,     (* a lane run state that the caller has read            *)
          intent,   (* an invocation intent that it has kept                *)
          finished, (* history: issue and evidence of all completed states  *)
          answer    (* what the last call returned                          *)

handoffVars == <<lane, held, intent, finished, answer>>

Nothing == [what |-> "nothing"]

-----------------------------------------------------------------------------
(* pickupGithubIssueWorkItem                                               *)

PickupEntry == [repository : {"own", "other"}, ownerControlled : BOOLEAN]

(* One entry that is not owner-controlled spoils the whole allowlist. *)
MayPickUp(repository, list) ==
  /\ \A e \in list : e.ownerControlled
  /\ \E e \in list : e.repository = repository

(* The work item's status is that of the issue when it was loaded. *)
PickedStatus(state) == IF state = "open" THEN "ready" ELSE "blocked"

-----------------------------------------------------------------------------
(* evaluateIssueReadiness                                                  *)

Section == {"acceptanceCriteria", "behaviorDeltas", "scopeItems"}

(* poor: blank, too many, or text that is not public.  sound: no unsafe    *)
(* input, no unsupported capability or protocol version.                   *)
IssueFacts == [text : [Section -> {"fine", "missing", "poor"}],
               terminalState : {"open", "closed"}, sound : BOOLEAN]
Question == [status : {"ready", "blocked"}, owned : BOOLEAN, facts : IssueFacts]

Diagnostic(path, severity) == [path |-> path, severity |-> severity]
Unless(ok, diagnostic) == {d \in {diagnostic} : ~ok}

Missing(s) == Diagnostic(s, "human")

(* A section that is missing says no more; one that is poor is a blocker. *)
SectionDiagnostics(facts) ==
  {Missing(s) : s \in {x \in Section : facts.text[x] = "missing"}}
  \cup {Diagnostic(s, "blocker") : s \in {x \in Section : facts.text[x] = "poor"}}

(* Wrong: what is missing is asked for only when nothing else is wrong. *)
DiagnosticsInTurn(q) ==
  LET blockers ==
        Unless(q.status = "ready", Diagnostic("status", "blocker"))
        \cup Unless(q.owned, Diagnostic("ownerControlled", "blocker"))
        \cup Unless(q.facts.terminalState = "open", Diagnostic("terminalState", "blocker"))
        \cup Unless(q.facts.sound, Diagnostic("sound", "blocker"))
  IN IF blockers = {} THEN SectionDiagnostics(q.facts) ELSE blockers

Diagnostics(q) ==
  Unless(q.status = "ready", Diagnostic("status", "blocker"))
  \cup Unless(q.owned, Diagnostic("ownerControlled", "blocker"))
  \cup SectionDiagnostics(q.facts)
  \cup Unless(q.facts.sound, Diagnostic("sound", "blocker"))
  \cup Unless(q.facts.terminalState = "open", Diagnostic("terminalState", "blocker"))

Readiness(q) ==
  LET severities == {d.severity : d \in Diagnostics(q)}
  IN CASE "blocker" \in severities -> "blocked"
       [] severities = {"human"} -> "needs-human-refinement"
       [] OTHER -> "runnable"

(* Any issue, with facts that are as old or as new as the caller likes. *)
Evaluate ==
  /\ {list \in SUBSET PickupEntry : MayPickUp("own", list)} # {}
  /\ \E state \in {"open", "closed"}, owned \in BOOLEAN, facts \in IssueFacts :
       LET q == [status |-> PickedStatus(state), owned |-> owned, facts |-> facts]
       IN answer' = [what |-> "verdict", question |-> q, status |-> Readiness(q),
                     report |-> {d.path : d \in Diagnostics(q)}]
  /\ UNCHANGED <<lane, held, intent, finished>>

-----------------------------------------------------------------------------
(* planBranchLaneRunSkeleton in prepare mode.  It asks for a ready work    *)
(* item, not for a verdict; a dry run returns the plan and changes nothing.*)

Customer(r) == r.class = "customer-repository"
WellFormed(r) == r.who # "blank" /\ r.root # "blank" /\ (Customer(r) => r.why # "blank")

(* One record binds a scope if they agree on every fact. *)
Binds(e, scope) ==
  /\ e.class = scope.class /\ e.who = scope.who /\ e.root = scope.root
  /\ Customer(scope) => e.why = scope.why

(* Wrong: one record for the repository and another for its directory. *)
AllowlistedInParts(scope, list) ==
  /\ \A e \in list : e.class = scope.class /\ WellFormed(e)
  /\ \E e \in list : e.who = scope.who
  /\ \E e \in list : e.root = scope.root /\ (Customer(scope) => e.why = scope.why)

(* assertDogfoodRepositoryAllowlisted, assertCustomerRepositoryAllowlisted *)
Allowlisted(scope, list) ==
  /\ \A e \in list : e.class = scope.class /\ WellFormed(e)
  /\ \E e \in list : Binds(e, scope)

(* Wrong: what the lane run state says of evidence is kept. *)
QueuedAgain(i) == [lane EXCEPT !.status = "queued", !.issue = i]

(* A new state of revision 1, whatever the lane run has recorded so far. *)
Queued(i) == [status |-> "queued", issue |-> i, refs |-> {}]

Prepare(i) ==
  /\ \E state \in {"open", "closed"}, scope \in Scope, list \in Allowlist :
       /\ PickedStatus(state) = "ready"
       /\ WellFormed(scope)
       /\ Allowlisted(scope, list)
       /\ lane' = Queued(i)
       /\ answer' = [what |-> "skeleton", scope |-> scope, list |-> list]
  /\ UNCHANGED <<held, intent, finished>>

(* The executor boundary records the result of a request (the modules      *)
(* LocalLanePersistence and LaneRunOutcome): its status, issue and         *)
(* evidence are those of the request, and it replaces whatever the lane    *)
(* run has recorded.  It needs the directories of the lane, not a skeleton:*)
(* the smoke command makes them without any scope or allowlist.  "failed"  *)
(* stands for failed and blocked.                                          *)
RecordResult ==
  /\ Cardinality(finished) < MaxResults
  /\ \E status \in {"completed", "failed"}, i \in Issue, refs \in Evidence :
       /\ lane' = [status |-> status, issue |-> i, refs |-> refs]
       /\ finished' = IF status = "completed" THEN finished \cup {[issue |-> i, refs |-> refs]}
                       ELSE finished
  /\ answer' = Nothing
  /\ UNCHANGED <<held, intent>>

ReadState ==
  /\ lane.status # "absent"
  /\ held' = lane
  /\ answer' = Nothing
  /\ UNCHANGED <<lane, intent, finished>>

-----------------------------------------------------------------------------
(* createCodexAgentInvocationIntent.  What it returns says whether it is   *)
(* ok, and of a proof and an approval only that they were provided; a      *)
(* blocked intent is returned all the same.                                *)

(* The scope and idempotency binding of a request or of a dry-run proof.   *)
Binding == [issue : Issue, key : Key]
NoBinding == [issue |-> NoIssue, key |-> NoKey]

(* asked and shown are history: what was to be executed, what was proved. *)
Intended(mode, ok, asked, proof, approved) ==
  [mode |-> mode, ok |-> ok, asked |-> asked, shown |-> proof,
   dryRunProof |-> IF proof = NoBinding THEN "missing" ELSE "provided",
   operatorApproval |-> IF approved THEN "provided" ELSE "missing"]

(* A dry run needs no scope, and whatever is provided is noted. *)
DryRun ==
  /\ \E proof \in Binding \cup {NoBinding}, approved \in BOOLEAN :
       intent' = Intended("dry-run", TRUE, NoBinding, proof, approved)
  /\ answer' = Nothing
  /\ UNCHANGED <<lane, held, finished>>

(* isSameScopeBinding and isSameIdempotencyBinding *)
Proves(proof, asked) == proof.issue = asked.issue /\ proof.key = asked.key

(* validateExecuteBoundary.  The proof is an object of the caller's; the   *)
(* approval names neither a scope nor a proof, and its time is not         *)
(* compared with that of the dry run.                                      *)
Execute(i, k) ==
  /\ \E proof \in Binding \cup {NoBinding}, approved \in BOOLEAN, enabled \in BOOLEAN,
        level \in Capability :
       LET asked == [issue |-> i, key |-> k]
           ok == /\ enabled /\ approved
                 /\ Proves(proof, asked)
                 /\ level["submit"] = "supported" /\ level["idempotency"] = "supported"
       IN intent' = Intended("execute", ok, asked, proof, approved)
  /\ answer' = Nothing
  /\ UNCHANGED <<lane, held, finished>>

-----------------------------------------------------------------------------
(* createLaneArtifactOutput                                                *)

(* A reference as the caller hands it over: its uri, and what the metadata *)
(* that the caller puts beside it says of a customer lane.                 *)
Citation == [uri : Ref, says : {"nothing", "customer", "unclassified"}]
Uris(refs) == {c.uri : c \in refs}

(* collectEvidenceRefIssues, and the refusal of references that cannot be  *)
(* fetched and of a customer lane's evidence in a draft.  The lane run     *)
(* state knows uris only: whose evidence it is, is up to the metadata.     *)
MayCite(kind, state, level, refs) ==
  /\ refs # {} => level["fetchEvidence"] # "unsupported"
  /\ state.refs # {} => refs # {}
  /\ Uris(refs) \subseteq state.refs \ UnnamedRef
  /\ \A c \in refs : c.says # "unclassified"
  /\ kind = "pr-draft-intent" => \A c \in refs : c.says = "nothing"

(* collectAgentProviderIssues: the second validation sees no more of an    *)
(* intent than the artifact shows, which is not whether it is ok.          *)
Presentable(shown) ==
  shown.mode = "execute" =>
    shown.dryRunProof = "provided" /\ shown.operatorApproval = "provided"

Artifact(kind, i, refs) ==
  [what |-> "artifact", kind |-> kind, issue |-> i, refs |-> refs, intent |-> intent]

(* Wrong: what an intent says is left to the second validation. *)
CreateArtifactOfAnyIntent(i) ==
  /\ held.status = "completed" /\ held.issue = i
  /\ intent.mode # "none" /\ Presentable(intent)
  /\ \E kind \in {"patch", "pr-draft-intent"}, level \in Capability, refs \in SUBSET Citation :
       /\ level["evidenceReferences"] = "supported"
       /\ MayCite(kind, held, level, refs)
       /\ answer' = Artifact(kind, i, refs)
  /\ UNCHANGED <<lane, held, intent, finished>>

(* Owner-controlled repository facts with support for change requests go   *)
(* with a draft; they are not compared with the lane's repository, nor the *)
(* invocation intent with its issue.                                       *)
CreateArtifact(i) ==
  /\ held.status = "completed" /\ held.issue = i
  /\ intent.ok /\ Presentable(intent)
  /\ \E kind \in {"patch", "pr-draft-intent"}, level \in Capability, refs \in SUBSET Citation :
       /\ level["evidenceReferences"] = "supported"
       /\ MayCite(kind, held, level, refs)
       /\ answer' = Artifact(kind, i, refs)
  /\ UNCHANGED <<lane, held, intent, finished>>

-----------------------------------------------------------------------------
NoLane == [status |-> "absent", issue |-> NoIssue, refs |-> {}]
NoIntent == Intended("none", FALSE, NoBinding, NoBinding, FALSE)

Init ==
  /\ lane = NoLane /\ held = NoLane
  /\ intent = NoIntent
  /\ finished = {}
  /\ answer = Nothing

Next ==
  \/ Evaluate \/ RecordResult \/ ReadState \/ DryRun
  \/ \E i \in Issue : Prepare(i) \/ CreateArtifact(i)
  \/ \E i \in Issue, k \in Key : Execute(i, k)

Spec == Init /\ [][Next]_handoffVars

-----------------------------------------------------------------------------
(* Properties.                                                             *)

(* Every variable has its type; a state that is queued names no evidence.  *)
TypeOK ==
  /\ lane.status \in {"absent", "queued", "completed", "failed"}
  /\ lane.issue \in Issue \cup {NoIssue} /\ lane.refs \subseteq Ref
  /\ lane.status = "queued" => lane.refs = {}
  /\ held.status \in {"absent", "queued", "completed", "failed"}
  /\ intent.mode \in {"none", "dry-run", "execute"}
  /\ intent.asked \in Binding \cup {NoBinding} /\ intent.shown \in Binding \cup {NoBinding}
  /\ intent.ok \in BOOLEAN
  /\ finished \subseteq [issue : Issue, refs : SUBSET Ref]
  /\ answer.what \in {"nothing", "verdict", "skeleton", "artifact"}
  /\ answer.what = "verdict" => answer.question \in Question

(* What docs/reference/issue-readiness.md says of the three verdicts.      *)
Runnable(q) ==
  /\ q.status = "ready" /\ q.owned
  /\ q.facts.terminalState = "open" /\ q.facts.sound
  /\ \A s \in Section : q.facts.text[s] = "fine"

(* The question again, after someone wrote what is missing ... *)
Written(q) ==
  [status |-> q.status, owned |-> q.owned,
   facts |-> [text |-> [s \in Section |-> IF q.facts.text[s] = "missing" THEN "fine"
                                          ELSE q.facts.text[s]],
              terminalState |-> q.facts.terminalState, sound |-> q.facts.sound]]

(* ... or after everything in a report was repaired, and nothing else. *)
Repaired(q, report) ==
  [status |-> IF "status" \in report THEN "ready" ELSE q.status,
   owned |-> q.owned \/ "ownerControlled" \in report,
   facts |-> [text |-> [s \in Section |-> IF s \in report THEN "fine" ELSE q.facts.text[s]],
              terminalState |-> IF "terminalState" \in report THEN "open"
                                ELSE q.facts.terminalState,
              sound |-> q.facts.sound \/ "sound" \in report]]

(* A readiness report hides nothing behind what it says: an issue whose    *)
(* every reported defect is repaired is runnable.  It is handed to a human *)
(* for refinement exactly if writing what is missing would be enough, and  *)
(* called runnable exactly if it is, although item and facts were loaded   *)
(* at different times and may disagree.                                    *)
ReportIsComplete ==
  answer.what = "verdict" =>
    LET q == answer.question IN
    /\ Runnable(Repaired(q, answer.report))
    /\ answer.status = "runnable" <=> Runnable(q)
    /\ answer.status = "needs-human-refinement" <=> ~Runnable(q) /\ Runnable(Written(q))

(* Two allowlist records that match a scope in parts never add up: what    *)
(* admits the preparation of a skeleton is one record, which would have    *)
(* admitted it alone.                                                      *)
OneRecordAdmits ==
  answer.what = "skeleton" => \E e \in answer.list : Allowlisted(answer.scope, {e})

(* An artifact cites evidence of one result that was recorded as completed *)
(* for its issue, and some if that result has any.                         *)
EvidenceIsOfOneResult ==
  answer.what = "artifact" =>
    \E f \in finished :
      /\ f.issue = answer.issue /\ Uris(answer.refs) \subseteq f.refs
      /\ f.refs # {} => answer.refs # {}

(* The artifact says of an execution that a dry-run proof and an approval  *)
(* were provided; then the proof was one of what was to be executed,       *)
(* although a blocked intent whose proof is of another issue or binding    *)
(* says the same.                                                          *)
ExecutionIsProved ==
  answer.what = "artifact" /\ answer.intent.mode = "execute" =>
    /\ answer.intent.dryRunProof = "provided" /\ answer.intent.operatorApproval = "provided"
    /\ answer.intent.shown = answer.intent.asked

(* What the caller is handed leads back to what stands behind it, whatever *)
(* earlier results it kept and mixed and whatever it made up: a skeleton   *)
(* to one allowlist record, an artifact to one completed result of its     *)
(* issue and to a proof of what it executes.                               *)
AnswersAreTraceable ==
  OneRecordAdmits /\ EvidenceIsOfOneResult /\ ExecutionIsProved
=============================================================================
