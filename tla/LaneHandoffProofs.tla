-------------------------- MODULE LaneHandoffProofs --------------------------
(***************************************************************************)
(* Theorems about LaneHandoff, for all issues, bindings, references,       *)
(* scopes and allowlists, and any number of recorded results.              *)
(***************************************************************************)
EXTENDS LaneHandoff, TLAPS

-----------------------------------------------------------------------------
(* The inductive invariant.                                                *)

LaneState == [status : {"absent", "queued", "completed", "failed"},
              issue : Issue \cup {NoIssue}, refs : SUBSET Ref]

Provided == {"provided", "missing"}
Intent == [mode : {"none", "dry-run", "execute"}, ok : BOOLEAN,
           asked : Binding \cup {NoBinding}, shown : Binding \cup {NoBinding},
           dryRunProof : Provided, operatorApproval : Provided]

Result(state) == [issue |-> state.issue, refs |-> state.refs]

(* A lane run state, in its file or in the caller's hand: if it says       *)
(* completed there was a result of that issue with that evidence.          *)
Genuine(state) ==
  /\ state \in LaneState
  /\ state.status = "queued" => state.refs = {}
  /\ state.status = "completed" => Result(state) \in finished

(* An intent to execute that is ok was proved by a dry run of the same     *)
(* issue and binding.                                                      *)
Proved ==
  /\ intent \in Intent
  /\ intent.mode = "execute" /\ intent.ok => intent.shown = intent.asked

HInv ==
  /\ Genuine(lane) /\ Genuine(held) /\ Proved
  /\ finished \subseteq [issue : Issue, refs : SUBSET Ref]

AnswerTyped ==
  /\ answer.what \in {"nothing", "verdict", "skeleton", "artifact"}
  /\ answer.what = "verdict" => answer.question \in Question

(* What an intent says has its type, and asked and shown are what it was   *)
(* made from.                                                              *)
LEMMA IntentFields ==
  ASSUME NEW mode \in {"none", "dry-run", "execute"}, NEW ok \in BOOLEAN,
         NEW asked \in Binding \cup {NoBinding}, NEW proof \in Binding \cup {NoBinding},
         NEW approved \in BOOLEAN
  PROVE  /\ Intended(mode, ok, asked, proof, approved) \in Intent
         /\ Intended(mode, ok, asked, proof, approved).mode = mode
         /\ Intended(mode, ok, asked, proof, approved).ok = ok
         /\ Intended(mode, ok, asked, proof, approved).asked = asked
         /\ Intended(mode, ok, asked, proof, approved).shown = proof
BY DEF Intended, Intent, Provided

(* Nothing is kept at first.                                               *)
LEMMA InitHolds == Init => HInv
<1> SUFFICES ASSUME Init PROVE HInv
  OBVIOUS
<1>1. NoIntent \in Intent /\ NoIntent.mode = "none"
  BY DEF NoIntent, Intended, Intent, Provided
<1> QED
  BY <1>1 DEF Init, HInv, Genuine, Proved, NoLane, LaneState

(* Every step keeps the invariant ...                                      *)
LEMMA StepKeeps == HInv /\ [Next]_handoffVars => HInv'
<1> SUFFICES ASSUME HInv, [Next]_handoffVars PROVE HInv'
  OBVIOUS
<1> USE DEF HInv
<1>1. ASSUME Evaluate PROVE HInv'
  BY <1>1 DEF Evaluate, Genuine, Proved, Result
<1>2. ASSUME RecordResult PROVE HInv'
  <2>1. PICK status \in {"completed", "failed"}, i \in Issue, refs \in Evidence :
          /\ lane' = [status |-> status, issue |-> i, refs |-> refs]
          /\ finished' = IF status = "completed" THEN finished \cup {[issue |-> i, refs |-> refs]}
                         ELSE finished
    BY <1>2 DEF RecordResult
  <2>2. /\ refs \in SUBSET Ref /\ finished \subseteq finished'
        /\ finished' \subseteq [issue : Issue, refs : SUBSET Ref]
    BY <2>1, HandoffAssumption
  <2>3. Genuine(lane)'
    BY <1>2, <2>1, <2>2 DEF RecordResult, Genuine, LaneState, Result
  <2>4. Genuine(held)'
    BY <1>2, <2>2 DEF RecordResult, Genuine, Result
  <2> QED
    BY <1>2, <2>2, <2>3, <2>4 DEF RecordResult, Proved
<1>3. ASSUME ReadState PROVE HInv'
  BY <1>3 DEF ReadState, Genuine, Proved, Result
<1>4. ASSUME NEW i \in Issue, Prepare(i) PROVE HInv'
  <2>1. lane' = [status |-> "queued", issue |-> i, refs |-> {}]
    BY <1>4 DEF Prepare, Queued
  <2>2. Genuine(lane)'
    BY <2>1 DEF Genuine, LaneState
  <2> QED
    BY <1>4, <2>2 DEF Prepare, Genuine, Proved, Result
<1>5. ASSUME NEW i \in Issue, CreateArtifact(i) PROVE HInv'
  BY <1>5 DEF CreateArtifact, Genuine, Proved, Result
<1>6. ASSUME DryRun PROVE HInv'
  <2>1. PICK proof \in Binding \cup {NoBinding}, approved \in BOOLEAN :
          intent' = Intended("dry-run", TRUE, NoBinding, proof, approved)
    BY <1>6 DEF DryRun
  <2>2. intent' \in Intent /\ intent'.mode = "dry-run"
    BY <2>1 DEF Intended, Intent, Provided
  <2> QED
    BY <1>6, <2>2 DEF DryRun, Genuine, Proved, Result
<1>7. ASSUME NEW i \in Issue, NEW k \in Key, Execute(i, k) PROVE HInv'
  <2> DEFINE asked == [issue |-> i, key |-> k]
  <2>1. PICK proof \in Binding \cup {NoBinding}, approved \in BOOLEAN, ok \in BOOLEAN :
          /\ ok => Proves(proof, asked)
          /\ intent' = Intended("execute", ok, asked, proof, approved)
    BY <1>7 DEF Execute
  <2>2. /\ asked \in Binding /\ proof.issue \in Issue \cup {NoIssue}
        /\ Proves(proof, asked) => proof = asked
    BY HandoffAssumption DEF Binding, NoBinding, Proves
  <2> HIDE DEF asked
  <2>3. intent' \in Intent /\ intent'.ok = ok /\ intent'.asked = asked /\ intent'.shown = proof
    BY <2>1, <2>2, IntentFields
  <2> QED
    BY <1>7, <2>1, <2>2, <2>3 DEF Execute, Genuine, Proved, Result
<1>8. CASE UNCHANGED handoffVars
  BY <1>8 DEF handoffVars, Genuine, Proved, Result
<1> QED
  BY <1>1, <1>2, <1>3, <1>4, <1>5, <1>6, <1>7, <1>8 DEF Next

(* ... which holds of every behaviour.                                     *)
LEMMA Invariant == Spec => []HInv
BY InitHolds, StepKeeps, PTL DEF Spec

-----------------------------------------------------------------------------
(* What is asked for readiness is a question.                              *)
LEMMA StepAnswers == AnswerTyped /\ [Next]_handoffVars => AnswerTyped'
<1> SUFFICES ASSUME AnswerTyped, [Next]_handoffVars PROVE AnswerTyped'
  OBVIOUS
<1>1. ASSUME Evaluate PROVE AnswerTyped'
  BY <1>1 DEF Evaluate, AnswerTyped, Question, PickedStatus
<1>2. ASSUME NEW i \in Issue, CreateArtifact(i) PROVE AnswerTyped'
  BY <1>2 DEF CreateArtifact, Artifact, AnswerTyped
<1>3. ASSUME NEW i \in Issue, Prepare(i) PROVE AnswerTyped'
  BY <1>3 DEF Prepare, AnswerTyped
<1>4. CASE UNCHANGED handoffVars
  BY <1>4 DEF handoffVars, AnswerTyped
<1>5. ASSUME answer' = Nothing PROVE AnswerTyped'
  BY <1>5 DEF Nothing, AnswerTyped
<1> QED
  BY <1>1, <1>2, <1>3, <1>4, <1>5 DEF Next, RecordResult, ReadState, DryRun, Execute

(* Every variable has its type, and a queued state names no evidence.      *)
THEOREM TypeCorrect == Spec => []TypeOK
<1>1. Init => AnswerTyped
  BY DEF Init, Nothing, AnswerTyped
<1>2. HInv /\ AnswerTyped => TypeOK
  BY DEF HInv, AnswerTyped, TypeOK, Genuine, Proved, LaneState, Intent
<1> QED
  BY <1>1, <1>2, StepAnswers, Invariant, PTL DEF Spec

-----------------------------------------------------------------------------
(* A list that admits a scope has one record that admits it alone.         *)
LEMMA OneOfTheList ==
  ASSUME NEW scope, NEW list, Allowlisted(scope, list)
  PROVE  \E e \in list : Allowlisted(scope, {e})
BY DEF Allowlisted

(* What an answer tells is traceable when it is given, whatever results of *)
(* earlier calls the caller kept, and as long as it keeps it.              *)
LEMMA StepIsTraceable ==
  ASSUME HInv, AnswersAreTraceable, [Next]_handoffVars
  PROVE  AnswersAreTraceable'
<1> USE DEF AnswersAreTraceable, OneRecordAdmits, EvidenceIsOfOneResult, ExecutionIsProved
<1>1. ASSUME NEW i \in Issue, CreateArtifact(i) PROVE AnswersAreTraceable'
  <2>1. PICK kind \in {"patch", "pr-draft-intent"}, level \in Capability,
             refs \in SUBSET Citation :
          MayCite(kind, held, level, refs) /\ answer' = Artifact(kind, i, refs)
    BY <1>1 DEF CreateArtifact
  <2>2. /\ held.status = "completed" /\ held.issue = i
        /\ finished' = finished /\ intent.ok /\ Presentable(intent)
    BY <1>1 DEF CreateArtifact
  <2>3. /\ answer'.what = "artifact" /\ answer'.issue = i
        /\ answer'.refs = refs /\ answer'.intent = intent
    BY <2>1 DEF Artifact
  <2>4. Result(held) \in finished
    BY <2>2 DEF HInv, Genuine
  <2>5. /\ Result(held).issue = i /\ Uris(refs) \subseteq Result(held).refs
        /\ Result(held).refs # {} => refs # {}
    BY <2>1, <2>2 DEF Result, MayCite
  <2>6. EvidenceIsOfOneResult'
    BY <2>2, <2>3, <2>4, <2>5
  <2>7. ExecutionIsProved'
    BY <2>2, <2>3 DEF HInv, Proved, Presentable
  <2> QED
    BY <2>3, <2>6, <2>7
<1>2. ASSUME NEW i \in Issue, Prepare(i) PROVE AnswersAreTraceable'
  <2>1. PICK scope \in Scope, list \in Allowlist :
          Allowlisted(scope, list) /\ answer' = [what |-> "skeleton", scope |-> scope, list |-> list]
    BY <1>2 DEF Prepare
  <2> QED
    BY <2>1, OneOfTheList
<1>3. ASSUME Evaluate PROVE AnswersAreTraceable'
  BY <1>3 DEF Evaluate
<1>4. ASSUME answer' = Nothing PROVE AnswersAreTraceable'
  BY <1>4 DEF Nothing
<1>5. CASE UNCHANGED handoffVars
  BY <1>5 DEF handoffVars
<1> QED
  BY <1>1, <1>2, <1>3, <1>4, <1>5 DEF Next, RecordResult, ReadState, DryRun, Execute

(* Every skeleton leads back to one allowlist record, every artifact to    *)
(* one completed result of its issue and to a proof of what it executes.   *)
THEOREM Traceability == Spec => []AnswersAreTraceable
<1>1. Init => AnswersAreTraceable
  BY DEF Init, Nothing, AnswersAreTraceable, OneRecordAdmits, EvidenceIsOfOneResult,
         ExecutionIsProved
<1> QED
  BY <1>1, StepIsTraceable, Invariant, PTL DEF Spec

-----------------------------------------------------------------------------
(* What the readiness of one question comes to.                            *)

Sound(q) == q.facts.sound
Text(q, s) == q.facts.text[s]

(* The diagnostics, one by one. *)
LEMMA EachDiagnostic ==
  ASSUME NEW q \in Question, NEW d
  PROVE  d \in Diagnostics(q) <=>
           \/ q.status # "ready" /\ d = Diagnostic("status", "blocker")
           \/ ~q.owned /\ d = Diagnostic("ownerControlled", "blocker")
           \/ q.facts.terminalState # "open" /\ d = Diagnostic("terminalState", "blocker")
           \/ ~Sound(q) /\ d = Diagnostic("sound", "blocker")
           \/ \E s \in Section : Text(q, s) = "missing" /\ d = Diagnostic(s, "human")
           \/ \E s \in Section : Text(q, s) = "poor" /\ d = Diagnostic(s, "blocker")
<1>1. d \in SectionDiagnostics(q.facts) <=>
           \/ \E s \in Section : Text(q, s) = "missing" /\ d = Diagnostic(s, "human")
           \/ \E s \in Section : Text(q, s) = "poor" /\ d = Diagnostic(s, "blocker")
  BY DEF SectionDiagnostics, Missing, Text
<1>2. \A ok, x : d \in Unless(ok, x) <=> ~ok /\ d = x
  BY DEF Unless
<1> QED
  BY <1>1, <1>2 DEF Diagnostics, Sound

(* Their paths name exactly what is wrong, *)
LEMMA ReportNames ==
  ASSUME NEW q \in Question
  PROVE  LET report == {d.path : d \in Diagnostics(q)} IN
         /\ "status" \in report <=> q.status # "ready"
         /\ "ownerControlled" \in report <=> ~q.owned
         /\ "terminalState" \in report <=> q.facts.terminalState # "open"
         /\ "sound" \in report <=> ~Sound(q)
         /\ \A s \in Section : s \in report <=> Text(q, s) \in {"missing", "poor"}
<1> DEFINE report == {d.path : d \in Diagnostics(q)}
<1>1. \A p, v : Diagnostic(p, v).path = p
  BY DEF Diagnostic
<1>2. \A x : x \in report <=> \E d \in Diagnostics(q) : x = d.path
  OBVIOUS
<1> HIDE DEF report
<1>3. \A x : x \in report <=>
           \/ q.status # "ready" /\ x = "status"
           \/ ~q.owned /\ x = "ownerControlled"
           \/ q.facts.terminalState # "open" /\ x = "terminalState"
           \/ ~Sound(q) /\ x = "sound"
           \/ \E s \in Section : Text(q, s) \in {"missing", "poor"} /\ x = s
  BY <1>1, <1>2, EachDiagnostic
<1>4. \A s \in Section : s \notin {"status", "ownerControlled", "terminalState", "sound"}
  BY DEF Section
<1> USE DEF report
<1> QED
  BY <1>3, <1>4

(* and their severities what kind of thing. *)
LEMMA SeveritiesTell ==
  ASSUME NEW q \in Question
  PROVE  LET severities == {d.severity : d \in Diagnostics(q)} IN
         /\ severities \subseteq {"blocker", "human"}
         /\ "human" \in severities <=> \E s \in Section : Text(q, s) = "missing"
         /\ "blocker" \in severities <=>
              \/ q.status # "ready" \/ ~q.owned \/ q.facts.terminalState # "open" \/ ~Sound(q)
              \/ \E s \in Section : Text(q, s) = "poor"
<1> DEFINE severities == {d.severity : d \in Diagnostics(q)}
<1>1. \A p, v : Diagnostic(p, v).severity = v
  BY DEF Diagnostic
<1>2. \A x : x \in severities <=> \E d \in Diagnostics(q) : x = d.severity
  OBVIOUS
<1> HIDE DEF severities
<1>3. \A x : x \in severities <=>
           \/ x = "blocker" /\ \/ q.status # "ready" \/ ~q.owned
                               \/ q.facts.terminalState # "open" \/ ~Sound(q)
                               \/ \E s \in Section : Text(q, s) = "poor"
           \/ x = "human" /\ \E s \in Section : Text(q, s) = "missing"
  BY <1>1, <1>2, EachDiagnostic
<1> USE DEF severities
<1> QED
  BY <1>3

(* Nothing in a readiness report hides anything else.                      *)
LEMMA ReadinessIsComplete ==
  ASSUME NEW q \in Question
  PROVE  /\ Runnable(Repaired(q, {d.path : d \in Diagnostics(q)}))
         /\ Readiness(q) = "runnable" <=> Runnable(q)
         /\ Readiness(q) = "needs-human-refinement" <=> ~Runnable(q) /\ Runnable(Written(q))
<1> DEFINE report == {d.path : d \in Diagnostics(q)}
           severities == {d.severity : d \in Diagnostics(q)}
<1>1. \A s \in Section : Text(q, s) \in {"fine", "missing", "poor"}
  BY DEF Question, IssueFacts, Text
<1>2. Runnable(q) <=> /\ q.status = "ready" /\ q.owned /\ q.facts.terminalState = "open"
                      /\ Sound(q) /\ \A s \in Section : Text(q, s) = "fine"
  BY DEF Runnable, Sound, Text
<1>3. Runnable(Repaired(q, report))
  BY ReportNames, <1>1 DEF Runnable, Repaired, Sound, Text
<1>4. Runnable(Written(q)) <=> /\ q.status = "ready" /\ q.owned /\ q.facts.terminalState = "open"
                               /\ Sound(q) /\ \A s \in Section : Text(q, s) # "poor"
  BY <1>1 DEF Runnable, Written, Sound, Text
<1>5. "blocker" \in severities <=> ~Runnable(Written(q))
  BY <1>4, SeveritiesTell
<1>6. "human" \in severities <=> \E s \in Section : Text(q, s) = "missing"
  BY SeveritiesTell
<1>7. severities \subseteq {"blocker", "human"}
  BY SeveritiesTell
<1>8. Runnable(q) <=> Runnable(Written(q)) /\ "human" \notin severities
  BY <1>1, <1>2, <1>4, <1>6
<1> HIDE DEF severities
<1>9. Readiness(q) = CASE "blocker" \in severities -> "blocked"
                       [] severities = {"human"} -> "needs-human-refinement"
                       [] OTHER -> "runnable"
  BY DEF Readiness, severities
<1>10. severities = {"human"} <=> "human" \in severities /\ "blocker" \notin severities
  BY <1>7
<1>11. CASE "blocker" \in severities
  BY <1>3, <1>5, <1>8, <1>9, <1>11
<1>12. CASE "blocker" \notin severities /\ "human" \in severities
  BY <1>3, <1>5, <1>8, <1>9, <1>10, <1>12
<1>13. CASE "blocker" \notin severities /\ "human" \notin severities
  BY <1>3, <1>5, <1>8, <1>9, <1>10, <1>13
<1> QED
  BY <1>11, <1>12, <1>13

(* A readiness report is complete: repairing what it names makes the issue *)
(* runnable, and the verdict says who has to repair it.                    *)
THEOREM ReadinessTheorem == Spec => []ReportIsComplete
<1>1. Init => ReportIsComplete
  BY DEF Init, Nothing, ReportIsComplete
<1>2. ASSUME ReportIsComplete, [Next]_handoffVars PROVE ReportIsComplete'
  <2>1. ASSUME Evaluate PROVE ReportIsComplete'
    <3>1. PICK state \in {"open", "closed"}, owned \in BOOLEAN, facts \in IssueFacts :
            LET q == [status |-> PickedStatus(state), owned |-> owned, facts |-> facts]
            IN answer' = [what |-> "verdict", question |-> q, status |-> Readiness(q),
                          report |-> {d.path : d \in Diagnostics(q)}]
      BY <2>1 DEF Evaluate
    <3> DEFINE q == [status |-> PickedStatus(state), owned |-> owned, facts |-> facts]
    <3>2. q \in Question
      BY DEF Question, PickedStatus
    <3> HIDE DEF q
    <3>3. /\ answer'.question = q /\ answer'.status = Readiness(q)
          /\ answer'.report = {d.path : d \in Diagnostics(q)}
      BY <3>1 DEF q
    <3> QED
      BY <3>2, <3>3, ReadinessIsComplete DEF ReportIsComplete
  <2>2. ASSUME NEW i \in Issue, CreateArtifact(i) PROVE ReportIsComplete'
    BY <2>2 DEF CreateArtifact, Artifact, ReportIsComplete
  <2>3. ASSUME NEW i \in Issue, Prepare(i) PROVE ReportIsComplete'
    BY <2>3 DEF Prepare, ReportIsComplete
  <2>4. ASSUME answer' = Nothing PROVE ReportIsComplete'
    BY <2>4 DEF Nothing, ReportIsComplete
  <2>5. CASE UNCHANGED handoffVars
    BY <1>2, <2>5 DEF handoffVars, ReportIsComplete
  <2> QED
    BY <1>2, <2>1, <2>2, <2>3, <2>4, <2>5 DEF Next, RecordResult, ReadState, DryRun, Execute
<1> QED
  BY <1>1, <1>2, PTL DEF Spec
=============================================================================
