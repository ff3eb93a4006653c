------------------------ MODULE LaneRunOutcomeProofs -------------------------
(***************************************************************************)
(* Theorems about LaneRunOutcome, for all correlations, references that    *)
(* callers pass, bounds on evidence and numbers of commands.               *)
(***************************************************************************)
EXTENDS LaneRunOutcome, WellFoundedInduction, TLAPS

-----------------------------------------------------------------------------
(* The inductive invariant.                                                *)

(* A text is the sequence of the reasons in it. *)
Reason == {"no target", "no policy", "asked", "too", "blank", "long", "adapter",
           "fixture", "config", "context", "gate"}
Text == Seq(Reason)

IsList(refs) == Len(refs) \in Nat /\ DOMAIN refs = 1..Len(refs)

(* What an executor came back with, for a plan: a success of its run       *)
(* result can only come of a plan that was not blocked.                    *)
Possibly(x) ==
  /\ x.status \in Ended /\ x.run.what = "result" /\ x.reasons \in Text
  /\ x.run.status = "succeeded" => plan.status = "ready"

(* What a recorded state says of the result it was made of. *)
Faithful(s, n) ==
  /\ s.of.status \in Ended /\ s.of.run.status = s.of.status
  /\ s.status = ToLaneRunStatus(s.of.status)
  /\ s.of.status = "succeeded" => s.ready = TRUE
  /\ s.by \in 1..n
  /\ s.journal = Journal(s.of) /\ s.of.reasons \in Text

(* A lane run state stands beside evidence files of its own command and    *)
(* outcome, among the files k after n commands.                            *)
BackedBy(s, k, n) ==
  /\ s.refs \in Seq(Uri)
  /\ s.status \in {"absent", "unreadable", "queued", "completed", "failed", "blocked"}
  /\ s.by \in 0..n
  /\ s.status \in {"completed", "failed", "blocked"} => Faithful(s, n)
  /\ s.status \in {"absent", "unreadable", "queued"} => s.by = 0 /\ s.refs = <<>>
  /\ \A i \in DOMAIN s.refs : k[s.refs[i]] = [by |-> s.by, outcome |-> s.of.status]

KeptTyped ==
  /\ kept \in [Uri -> [by : 0..commands, outcome : Statuses \cup {"half"}]]
  /\ commands \in 0..MaxCommands

(* What a command that persisted remembers of it: whose result the state   *)
(* records, and references of its own, one for each file.                  *)
Remembered ==
  /\ written.state.status \in {"completed", "failed", "blocked"}
  /\ written.state.of.run.corr = plan.corr
  /\ written.state.refs = [i \in DOMAIN written.refs |-> written.refs[i].uri]
  /\ \A i \in DOMAIN written.refs : LocalReference(written.refs[i])
  /\ \A i, j \in DOMAIN written.refs : written.refs[i].uri = written.refs[j].uri => i = j

OInv ==
  /\ KeptTyped
  /\ sound \in BOOLEAN
  /\ step \in {"idle", "prepared", "invoked", "persisted"}
  /\ plan.corr \in Corr \cup {"none"}
  /\ step = "idle" => plan.status = "none" /\ outcome = NoOutcome
  /\ step # "idle" => plan.status \in {"ready", "blocked"} /\ commands # 0
  /\ step # "idle" => plan.reasons \in Text
  /\ step = "prepared" => outcome = NoOutcome
  /\ step \in {"invoked", "persisted"} => Possibly(outcome)
  /\ step \in {"prepared", "invoked"} => laneState.by < commands
  /\ step = "persisted" =>
       BackedBy(written.state, kept, commands) /\ IsList(written.refs) /\ Remembered
  /\ BackedBy(laneState, kept, commands)

-----------------------------------------------------------------------------
(* Texts in the journal of a lane run.                                     *)

(* Empty texts and those of one or two reasons are texts,                  *)
LEMMA ShortTexts ==
  /\ <<>> \in Text
  /\ \A a \in Reason : <<a>> \in Text
  /\ \A a, b \in Reason : <<a, b>> \in Text
BY DEF Text

(* an empty text adds nothing,                                             *)
LEMMA Joined == \A t \in Text : t \o <<>> = t /\ <<>> \o t = t /\ <<>> \o <<>> = <<>>
BY DEF Text

(* and journal texts of which only the third is not empty join to that     *)
(* one.                                                                    *)
LEMMA Flattened ==
  ASSUME NEW s, NEW n \in {3, 4}, Len(s) = n, NEW t \in Text,
         s[1] = <<>>, s[2] = <<>>, s[3] = t, n = 4 => s[4] = <<>>
  PROVE  FlattenSeq(s) = t
<1> DEFINE IsFlat(f) == f = [i \in 1..n |-> IF i = 1 THEN s[i] ELSE f[i - 1] \o s[i]]
           g == [i \in 1..n |-> IF i \in {1, 2} THEN <<>> ELSE t]
           flatten == CHOOSE f : IsFlat(f)
<1>1. n # 0 /\ n \in Nat /\ (\A i \in 1..n : i = 1 \/ i = 2 \/ i = 3 \/ (i = 4 /\ n = 4))
      /\ 1 \in 1..n /\ 2 \in 1..n /\ 3 \in 1..n /\ (n = 4 => 4 \in 1..n)
  OBVIOUS
<1>2. FlattenSeq(s) = flatten[n]
  BY <1>1 DEF FlattenSeq
<1>3. IsFlat(g)
  <2>1. g[1] = <<>> /\ g[2] = <<>> /\ g[3] = t /\ (n = 4 => g[4] = t)
    BY <1>1
  <2> HIDE DEF g
  <2>2. ASSUME NEW i \in 1..n
        PROVE  g[i] = IF i = 1 THEN s[i] ELSE g[i - 1] \o s[i]
    <3>1. CASE i = 1
      BY <2>1, <3>1
    <3>2. CASE i = 2
      <4>1. g[i - 1] = <<>> /\ s[i] = <<>> /\ g[i] = <<>>
        BY <2>1, <3>2
      <4> QED
        BY <3>2, <4>1, Joined
    <3>3. CASE i = 3
      <4>1. g[i - 1] = <<>> /\ s[i] = t /\ g[i] = t
        BY <2>1, <3>3
      <4> QED
        BY <3>3, <4>1, Joined
    <3>4. CASE i = 4 /\ n = 4
      <4>1. g[i - 1] = t /\ s[i] = <<>> /\ g[i] = t
        BY <2>1, <3>4
      <4> QED
        BY <3>4, <4>1, Joined
    <3> QED
      BY <1>1, <3>1, <3>2, <3>3, <3>4
  <2> QED
    BY <2>2 DEF g
<1>4. IsFlat(flatten)
  BY <1>3
<1> HIDE DEF flatten
<1>5. ASSUME NEW i \in 1..n
      PROVE  flatten[i] = IF i = 1 THEN s[i] ELSE flatten[i - 1] \o s[i]
  BY <1>4
<1>6. flatten[1] = <<>>
  BY <1>1, <1>5
<1>7. flatten[2] = <<>>
  <2>1. flatten[2] = flatten[1] \o s[2]
    <3>1. 2 - 1 = 1 /\ 2 # 1
      OBVIOUS
    <3>2. flatten[2] = IF 2 = 1 THEN s[2] ELSE flatten[2 - 1] \o s[2]
      BY <1>1, <1>5, Zenon
    <3> QED
      BY <3>1, <3>2, Zenon
  <2>2. s[2] = <<>>
    OBVIOUS
  <2> QED
    BY <1>6, <2>1, <2>2, Joined, Zenon
<1>8. flatten[3] = t
  <2>1. flatten[3] = flatten[2] \o s[3]
    <3>1. 3 - 1 = 2 /\ 3 # 1
      OBVIOUS
    <3>2. flatten[3] = IF 3 = 1 THEN s[3] ELSE flatten[3 - 1] \o s[3]
      BY <1>1, <1>5, Zenon
    <3> QED
      BY <3>1, <3>2, Zenon
  <2>2. s[3] = t
    OBVIOUS
  <2> QED
    BY <1>7, <2>1, <2>2, Joined, Zenon
<1>9. n = 4 => flatten[4] = t
  <2>1. n = 4 => flatten[4] = flatten[3] \o s[4]
    <3>1. 4 - 1 = 3 /\ 4 # 1
      OBVIOUS
    <3>2. n = 4 => flatten[4] = IF 4 = 1 THEN s[4] ELSE flatten[4 - 1] \o s[4]
      BY <1>1, <1>5, Zenon
    <3> QED
      BY <3>1, <3>2, Zenon
  <2>2. s[4] = <<>> \/ n # 4
    OBVIOUS
  <2> QED
    BY <1>8, <2>1, <2>2, Joined, Zenon
<1> QED
  BY <1>2, <1>8, <1>9

(* The journal of an outcome: its reasons are in the third entry, if there *)
(* are any, and nowhere else.                                              *)
LEMMA JournalShape ==
  ASSUME NEW x, NEW j, j = Journal(x)
  PROVE  /\ DOMAIN j = 1..Len(j)
         /\ x.reasons = <<>> => Len(j) = 3
         /\ x.reasons # <<>> => Len(j) = 4
         /\ j[1].text = <<>> /\ j[2].text = <<>>
         /\ j[3].text = x.reasons
         /\ Len(j) = 4 => j[4].text = <<>>
         /\ x.reasons # <<>> => j[3].kind = "failure" /\ j[3].says = "blocked reasons"
<1> DEFINE e1 == [kind |-> "change", says |-> "prepared", text |-> <<>>]
           e2 == [kind |-> IF x.status = "failed" THEN "failure" ELSE "command",
                  says |-> "outcome", text |-> <<>>]
           e3 == [kind |-> "failure", says |-> "blocked reasons", text |-> x.reasons]
           e4 == [kind |-> "next-action", says |-> "next action", text |-> <<>>]
<1>1. e1.text = <<>> /\ e2.text = <<>> /\ e4.text = <<>> /\ e3.text = x.reasons
      /\ e3.kind = "failure" /\ e3.says = "blocked reasons"
  OBVIOUS
<1>2. j = <<e1, e2>> \o (IF x.reasons = <<>> THEN <<>> ELSE <<e3>>) \o <<e4>>
  BY DEF Journal
<1> DEFINE S == {e1, e2, e3, e4}
<1> HIDE DEF e1, e2, e3, e4
<1>3. \A a, b \in Seq(S) :
        /\ a \o b \in Seq(S) /\ Len(a \o b) = Len(a) + Len(b)
        /\ \A i \in 1..(Len(a) + Len(b)) :
             (a \o b)[i] = IF i <= Len(a) THEN a[i] ELSE b[i - Len(a)]
  OBVIOUS
<1>4. /\ <<e1, e2>> \in Seq(S) /\ <<e3>> \in Seq(S) /\ <<e4>> \in Seq(S) /\ <<>> \in Seq(S)
      /\ Len(<<e1, e2>>) = 2 /\ Len(<<e3>>) = 1 /\ Len(<<e4>>) = 1 /\ Len(<<>>) = 0
  OBVIOUS
<1>5. CASE x.reasons = <<>>
  <2>1. j = (<<e1, e2>> \o <<>>) \o <<e4>>
    BY <1>2, <1>5
  <2>2. /\ j \in Seq(S) /\ Len(j) = 3
        /\ j[1] = e1 /\ j[2] = e2 /\ j[3] = e4
    BY <1>3, <1>4, <2>1
  <2>3. DOMAIN j = 1..Len(j)
    BY <2>2
  <2> QED
    BY <1>1, <1>5, <2>2, <2>3, Zenon
<1>6. CASE x.reasons # <<>>
  <2> DEFINE k == <<e1, e2>> \o <<e3>>
             l == <<e4>>
  <2>1. j = k \o l
    BY <1>2, <1>6
  <2>2. /\ k \in Seq(S) /\ Len(k) = 3 /\ k[1] = e1 /\ k[2] = e2 /\ k[3] = e3
        /\ l \in Seq(S) /\ Len(l) = 1 /\ l[1] = e4
    BY <1>3, <1>4
  <2> HIDE DEF k, l, S
  <2>3. /\ j \in Seq(S) /\ Len(j) = 4
        /\ j[1] = e1 /\ j[2] = e2 /\ j[3] = e3 /\ j[4] = e4
    <3>1. /\ j \in Seq(S) /\ Len(j) = Len(k) + Len(l)
          /\ \A i \in 1..(Len(k) + Len(l)) : j[i] = IF i <= Len(k) THEN k[i] ELSE l[i - Len(k)]
      <4>1. k \in Seq(S) /\ l \in Seq(S)
        BY <2>2
      <4>2. /\ k \o l \in Seq(S) /\ Len(k \o l) = Len(k) + Len(l)
            /\ \A i \in 1..(Len(k) + Len(l)) :
                 (k \o l)[i] = IF i <= Len(k) THEN k[i] ELSE l[i - Len(k)]
        BY <1>3, <4>1
      <4> QED
        BY <2>1, <4>2, Zenon
    <3>2. \A i \in 1..4 : j[i] = IF i <= 3 THEN k[i] ELSE l[i - 3]
      BY <2>2, <3>1
    <3>3. 4 - 3 = 1
      OBVIOUS
    <3>4. j[4] = l[4 - 3]
      BY <3>2
    <3> QED
      BY <2>2, <3>1, <3>2, <3>3, <3>4
  <2>4. DOMAIN j = 1..Len(j)
    BY <2>3
  <2> QED
    BY <1>1, <1>6, <2>3, <2>4, Zenon
<1> QED
  BY <1>5, <1>6, Zenon

(* What is read out of it are the reasons, all of them or none.            *)
LEMMA JournalText ==
  ASSUME NEW x, x.reasons \in Text, NEW s, s.journal = Journal(x), NEW entries
  PROVE  TextOf(s, entries) = IF 3 \in entries THEN x.reasons ELSE <<>>
<1> DEFINE j == s.journal
           ts == [i \in DOMAIN j |-> IF i \in entries THEN j[i].text ELSE <<>>]
           t == IF 3 \in entries THEN x.reasons ELSE <<>>
<1>1. /\ DOMAIN j = 1..Len(j) /\ Len(j) \in {3, 4}
      /\ j[1].text = <<>> /\ j[2].text = <<>> /\ j[3].text = x.reasons
      /\ Len(j) = 4 => j[4].text = <<>>
  <2>1. j = Journal(x)
    OBVIOUS
  <2> HIDE DEF j
  <2> QED
    BY <2>1, JournalShape
<1>2. TextOf(s, entries) = FlattenSeq(ts)
  BY DEF TextOf
<1> HIDE DEF j
<1>3. Len(ts) = Len(j) /\ ts[1] = <<>> /\ ts[2] = <<>> /\ ts[3] = t /\ (Len(j) = 4 => ts[4] = <<>>)
  BY <1>1
<1>4. t \in Text
  <2>1. <<>> \in Text
    BY DEF Text
  <2> QED
    BY <2>1
<1> HIDE DEF ts, t
<1>5. FlattenSeq(ts) = t
  BY <1>1, <1>3, <1>4, Flattened
<1> QED
  BY <1>2, <1>5 DEF t

(* The blocked entries of a journal, and its failures, give all of the     *)
(* reasons or none.                                                        *)
LEMMA BlockedText ==
  ASSUME NEW x, x.reasons \in Text, NEW s, s.journal = Journal(x)
  PROVE  /\ ~Blank(x.reasons) => TextOf(s, BlockedTexts(s)) = x.reasons
         /\ TextOf(s, BlockedTexts(s)) \in {x.reasons, <<>>}
         /\ TextOf(s, Failures(s)) \in {x.reasons, <<>>}
<1>1. ~Blank(x.reasons) => 3 \in BlockedTexts(s)
  <2>1. SUFFICES ASSUME ~Blank(x.reasons) PROVE 3 \in BlockedTexts(s)
    OBVIOUS
  <2>2. x.reasons # <<>>
    BY <2>1 DEF Blank
  <2>3. /\ 3 \in DOMAIN s.journal /\ s.journal[3].text = x.reasons
        /\ s.journal[3].kind = "failure" /\ s.journal[3].says = "blocked reasons"
    <3> DEFINE j == s.journal
    <3>1. j = Journal(x)
      OBVIOUS
    <3> HIDE DEF j
    <3>2. /\ 3 \in DOMAIN j /\ j[3].text = x.reasons
          /\ j[3].kind = "failure" /\ j[3].says = "blocked reasons"
      <4>1. DOMAIN j = 1..4
        BY <2>2, <3>1, JournalShape
      <4>2. 3 \in 1..4
        OBVIOUS
      <4> QED
        BY <2>2, <3>1, <4>1, <4>2, JournalShape, Zenon
    <3> QED
      BY <3>2 DEF j
  <2> QED
    BY <2>1, <2>3 DEF BlockedTexts, Failures
<1>2. TextOf(s, BlockedTexts(s)) = IF 3 \in BlockedTexts(s) THEN x.reasons ELSE <<>>
  BY JournalText
<1>3. TextOf(s, Failures(s)) = IF 3 \in Failures(s) THEN x.reasons ELSE <<>>
  BY JournalText
<1> QED
  BY <1>1, <1>2, <1>3

-----------------------------------------------------------------------------
(* Executor results.                                                       *)

(* What becomes of a result made of a plan.                                *)
LEMMA ResultFields ==
  ASSUME NEW p, NEW status, NEW v
  PROVE  LET r == PlanResult(p, status, v) IN
         \/ r = Thrown
         \/ /\ MayReport(p, status) /\ r.what = "result" /\ r.status = status /\ r.corr = p.corr
BY DEF PlanResult, Result

(* An error that was thrown has no status.                                 *)
LEMMA ThrownFields == Thrown.what = "thrown" /\ Thrown.status = "none"
BY DEF Thrown, Empty

(* The boundary's own refusals are possible outcomes,                      *)
LEMMA BlockedIsPossible ==
  ASSUME NEW why \in Text PROVE Possibly(BlockedOutcome(why))
<1>1. MayReport([status |-> "blocked", reasons |-> why, corr |-> plan.corr], "blocked")
  BY DEF MayReport
<1> QED
  BY <1>1 DEF BlockedOutcome, Possibly, PlanResult, Result, Ended

(* and so is whatever an adapter returns.                                  *)
LEMMA OutcomesArePossible ==
  ASSUME plan.status \in {"ready", "blocked"}, plan.reasons \in Text, NEW f \in Fixture, NEW x \in AdapterOutcomes(f)
  PROVE  Possibly(x)
<1>1. CASE x = FakeOutcome(f)
  <2>1. CASE plan.status = "blocked" \/ f.outcome = "blocked"
    <3>1. f.reasons \in Text /\ <<"asked">> \in Text
      BY ShortTexts DEF Fixture, Reason
    <3> QED
      BY <1>1, <2>1, <3>1, BlockedIsPossible DEF FakeOutcome
  <2>2. CASE plan.status = "ready" /\ f.outcome # "blocked"
    <3>1. x = [status |-> f.outcome, run |-> PlanResult(plan, f.outcome, FixtureVerification(f)),
                 reasons |-> <<>>]
      BY <1>1, <2>2 DEF FakeOutcome
    <3>2. f.outcome \in Ended
      BY DEF Fixture, Ended
    <3>3. MayReport(plan, f.outcome)
      BY <2>2 DEF MayReport
    <3> QED
      BY <2>2, <3>1, <3>2, <3>3 DEF Possibly, PlanResult, Result, Text
  <2> QED
    BY <2>1, <2>2
<1>2. CASE x = BlockedOutcome(<<"adapter">>)
  BY <1>2, ShortTexts, BlockedIsPossible DEF Reason
<1>3. CASE x \in OtherOutcomes /\ x.run # Thrown
  <2>1. PICK s \in Ended, t \in Ended, c \in Corr : x = OtherOutcome(s, t, c)
    BY <1>3 DEF OtherOutcomes
  <2>2. /\ MayReport([status |-> plan.status, reasons |-> plan.reasons, corr |-> c], t)
        /\ x.run.what = "result" /\ x.run.status = t /\ x.status = s
    BY <1>3, <2>1, ResultFields DEF OtherOutcome
  <2> QED
    BY <2>1, <2>2 DEF Possibly, MayReport, Ended, OtherOutcome, Text
<1> QED
  BY <1>1, <1>2, <1>3 DEF AdapterOutcomes

-----------------------------------------------------------------------------
(* Evidence.                                                               *)

(* The references of a command: well-formed sequences over the known uris. *)
LEMMA ReferencesTyped ==
  ASSUME NEW refs \in References
  PROVE  /\ IsList(refs)
         /\ \A i \in DOMAIN refs : refs[i].uri \in Uri
         /\ [i \in DOMAIN refs |-> refs[i].uri] \in Seq(Uri)
<1>1. CASE refs \in RefLists
  <2>1. PICK m \in 0..(MaxBundles + 1) : refs \in [1..m -> Ref]
    BY <1>1 DEF RefLists, SeqOf
  <2>2. m \in Nat
    BY <2>1, OutcomeAssumption
  <2>3. refs \in Seq(Ref) /\ Len(refs) = m
    BY <2>1, <2>2
  <2> QED
    BY <2>1, <2>2, <2>3 DEF Uri, IsList
<1>2. CASE refs = <<DefaultRef>>
  <2>1. DefaultRef.uri = "default"
    BY DEF DefaultRef
  <2> QED
    BY <1>2, <2>1 DEF Uri, IsList
<1> QED
  BY <1>1, <1>2 DEF References

(* The files that a command may create are not there yet.                  *)
LEMMA FreshUris ==
  ASSUME NEW refs \in References, NEW n \in DOMAIN refs, CanCreate(SubSeq(refs, 1, n))
  PROVE  \A i \in 1..n : i \in DOMAIN refs /\ kept[refs[i].uri] = NoFile
<1>1. /\ Len(refs) \in Nat /\ n \in 1..Len(refs) /\ DOMAIN refs = 1..Len(refs)
  BY ReferencesTyped DEF IsList
<1>2. \A i \in 1..n : i \in DOMAIN SubSeq(refs, 1, n) /\ SubSeq(refs, 1, n)[i] = refs[i]
  BY <1>1
<1> QED
  BY <1>1, <1>2 DEF CanCreate

(* The evidence of a recorded state stays when more files are created.     *)
LEMMA BackedStays ==
  ASSUME NEW s, NEW k, NEW n \in Nat, NEW l, NEW m \in Nat, BackedBy(s, k, n), n <= m,
         \A u \in Uri : k[u] # NoFile => l[u] = k[u]
  PROVE  BackedBy(s, l, m)
<1>1. CASE s.status \in {"absent", "unreadable", "queued"}
  BY <1>1 DEF BackedBy
<1>2. CASE s.status \in {"completed", "failed", "blocked"}
  <2>1. \A i \in DOMAIN s.refs : s.refs[i] \in Uri
    BY DEF BackedBy
  <2>2. Faithful(s, n)
    BY <1>2 DEF BackedBy
  <2>3. \A i \in DOMAIN s.refs : k[s.refs[i]] # NoFile
    BY <2>2 DEF BackedBy, Faithful, NoFile
  <2>4. Faithful(s, m)
    BY <2>2 DEF Faithful
  <2> QED
    BY <1>2, <2>1, <2>3, <2>4 DEF BackedBy
<1> QED
  BY <1>1, <1>2 DEF BackedBy

(* A state that records no outcome claims nothing.                         *)
LEMMA BareIsBacked ==
  ASSUME NEW k, NEW n \in Nat, NEW status \in {"absent", "unreadable", "queued"}
  PROVE  BackedBy(BareState(status), k, n)
<1>1. <<>> \in Seq(Uri) /\ DOMAIN <<>> = {}
  OBVIOUS
<1> QED
  BY <1>1 DEF BackedBy, BareState

-----------------------------------------------------------------------------
(* The invariant is inductive.                                             *)

(* The invariant holds at first.                                           *)
LEMMA InitHolds == Init => OInv
<1> SUFFICES ASSUME Init PROVE OInv
  OBVIOUS
<1>1. BackedBy(laneState, kept, commands)
  BY BareIsBacked DEF Init, NoState
<1>2. NoFile \in [by : 0..0, outcome : Statuses \cup {"half"}]
  BY DEF NoFile, Statuses
<1>3. KeptTyped
  BY <1>2, OutcomeAssumption DEF Init, KeptTyped
<1> QED
  BY <1>1, <1>3 DEF Init, OInv, NoPlan

(* Questions about a request touch nothing. *)
LEMMA AskKeeps ==
  ASSUME OInv, UNCHANGED <<commands, step, plan, outcome, written, sound, laneState, kept>>
  PROVE  OInv'
BY DEF OInv, KeptTyped, Possibly, Remembered

(* What blocks a plan is a text.                                           *)
LEMMA PlanTexts == \A r : PlanBlockers(r) \in Text
<1>1. \A r : \/ PlanBlockers(r) = <<>> \o <<>>
             \/ PlanBlockers(r) = <<"no target">> \o <<>>
             \/ PlanBlockers(r) = <<>> \o <<"no policy">>
             \/ PlanBlockers(r) = <<"no target">> \o <<"no policy">>
  BY DEF PlanBlockers
<1>2. \A s, t \in Text : s \o t \in Text
  BY DEF Text
<1> QED
  <2>1. <<>> \in Text /\ <<"no target">> \in Text /\ <<"no policy">> \in Text
    BY ShortTexts DEF Reason
  <2> QED
    BY <1>1, <1>2, <2>1, Zenon

(* Validation, plan and preparation touch no file.                         *)
LEMMA BeginKeeps ==
  ASSUME OInv, NEW r \in Request, Begin(r)
  PROVE  OInv'
<1>1. /\ step = "idle" /\ commands' = commands + 1 /\ commands \in Nat
      /\ UNCHANGED <<outcome, written, laneState, kept>>
  BY OutcomeAssumption DEF Begin, OInv, KeptTyped
<1>2. KeptTyped'
  BY <1>1, OutcomeAssumption DEF Begin, OInv, KeptTyped
<1>3. BackedBy(laneState, kept, commands)'
  BY <1>1, BackedStays DEF OInv
<1>4. CASE UNCHANGED <<step, plan, sound>>
  BY <1>1, <1>2, <1>3, <1>4 DEF OInv
<1>5. CASE step' = "prepared" /\ plan' = PlanOf(r) /\ sound' = TRUE
  <2>1. PlanOf(r).status \in {"ready", "blocked"} /\ PlanOf(r).corr \in Corr
    BY DEF PlanOf, Request
  <2>3. PlanOf(r).reasons \in Text
    BY PlanTexts DEF PlanOf
  <2>2. laneState'.by < commands'
    BY <1>1 DEF OInv, BackedBy
  <2> QED
    BY <1>1, <1>2, <1>3, <1>5, <2>1, <2>2, <2>3 DEF OInv
<1> QED
  BY <1>4, <1>5 DEF Begin

(* The executor's outcome is kept with the plan it was invoked for.        *)
LEMMA InvokeKeeps ==
  ASSUME OInv, NEW f \in Fixture, Invoke(f)
  PROVE  OInv'
<1>1. /\ step = "prepared" /\ step' = "invoked"
      /\ UNCHANGED <<commands, plan, written, sound, laneState, kept>>
  BY DEF Invoke
<1>2. plan.status \in {"ready", "blocked"}
  BY <1>1 DEF OInv
<1>3. Possibly(outcome')
  <2>3. \A how \in {"usual", "config", "context"} : Refusal(f, how) \in Text
    BY ShortTexts DEF Refusal, Reason
  <2>1. PICK how \in {"usual", "config", "context"} :
          outcome' = BlockedOutcome(Refusal(f, how)) \/ outcome' \in AdapterOutcomes(f)
    BY DEF Invoke
  <2> QED
    BY <1>1, <1>2, <2>1, <2>3, BlockedIsPossible, OutcomesArePossible DEF OInv
<1> QED
  BY <1>1, <1>3 DEF OInv, KeptTyped, Possibly, Remembered

(* A spoiled preparation touches no file,                                  *)
LEMMA SpoilKeeps == ASSUME OInv, Spoil PROVE OInv'
BY DEF OInv, Spoil, KeptTyped, Possibly, Remembered

(* and the branch skeleton records no outcome.                             *)
LEMMA QueueKeeps == ASSUME OInv, QueueLane PROVE OInv'
<1>1. commands \in Nat
  BY OutcomeAssumption DEF OInv, KeptTyped
<1>2. BackedBy(laneState, kept, commands)'
  BY <1>1, BareIsBacked DEF QueueLane
<1>3. laneState'.by = 0
  BY DEF QueueLane, BareState
<1> QED
  BY <1>1, <1>2, <1>3 DEF OInv, QueueLane, KeptTyped, Possibly, Remembered

(* A command is over, and left at most more files behind. *)
LEMMA RestKeeps ==
  ASSUME OInv, AtRest, UNCHANGED <<commands, sound, laneState>>, KeptTyped',
         \A u \in Uri : kept[u] # NoFile => kept'[u] = kept[u]
  PROVE  OInv'
<1>1. commands \in Nat
  BY OutcomeAssumption DEF OInv, KeptTyped
<1>2. BackedBy(laneState, kept, commands)'
  BY <1>1, BackedStays DEF OInv
<1> QED
  BY <1>2 DEF OInv, AtRest, NoPlan

(* A command is over, and what it had written of the state is no state.    *)
LEMMA TornKeeps ==
  ASSUME OInv, AtRest, UNCHANGED <<commands, sound>>, KeptTyped', laneState' = Unreadable
  PROVE  OInv'
<1>1. commands \in Nat
  BY OutcomeAssumption DEF OInv, KeptTyped
<1>2. BackedBy(laneState, kept, commands)'
  BY <1>1, BareIsBacked DEF Unreadable
<1> QED
  BY <1>2 DEF OInv, AtRest, NoPlan

(* The files that n references of a command add. *)
LEMMA KeptGrows ==
  ASSUME OInv, step = "invoked", NEW refs \in References, NEW n \in DOMAIN refs,
         CanCreate(SubSeq(refs, 1, n))
  PROVE  /\ KeptWith(refs, n) \in [Uri -> [by : 0..commands, outcome : Statuses \cup {"half"}]]
         /\ \A u \in Uri : kept[u] # NoFile => KeptWith(refs, n)[u] = kept[u]
<1>1. outcome.status \in Statuses /\ commands \in 0..commands
  BY OutcomeAssumption DEF OInv, Possibly, Ended, Statuses, KeptTyped
<1>2. \A i \in 1..n : kept[refs[i].uri] = NoFile
  BY FreshUris
<1> QED
  BY <1>1, <1>2 DEF KeptWith, OInv, KeptTyped

(* A process that dies before it persists leaves nothing,                  *)
LEMMA DieKeeps == ASSUME OInv, Die PROVE OInv'
BY RestKeeps DEF Die, OInv, KeptTyped

(* and one that dies among its evidence leaves files of its own.           *)
LEMMA DieAmongKeeps ==
  ASSUME OInv, NEW refs \in References, DieAmongEvidence(refs)
  PROVE  OInv'
<1>1. PICK n \in DOMAIN refs : CanCreate(SubSeq(refs, 1, n)) /\ kept' = KeptWith(refs, n)
  BY DEF DieAmongEvidence
<1>2. KeptTyped' /\ \A u \in Uri : kept[u] # NoFile => kept'[u] = kept[u]
  BY <1>1, KeptGrows DEF DieAmongEvidence, OInv, KeptTyped
<1> QED
  BY <1>2, RestKeeps DEF DieAmongEvidence

(* One that dies in the state leaves all its evidence,                     *)
LEMMA DieInStateKeeps ==
  ASSUME OInv, NEW refs \in References, DieInState(refs)
  PROVE  OInv'
<1>1. outcome.status \in Statuses /\ commands \in 0..commands
  BY OutcomeAssumption DEF DieInState, OInv, Possibly, Ended, Statuses, KeptTyped
<1>2. KeptTyped'
  BY <1>1 DEF DieInState, KeptWith, OInv, KeptTyped
<1> QED
  BY <1>2, TornKeeps DEF DieInState

(* and one that fails there has taken it back.                             *)
LEMMA FailStateKeeps == ASSUME OInv, NEW refs \in References, FailState(refs) PROVE OInv'
BY TornKeeps DEF FailState, OInv, KeptTyped

(* A failed persistence takes its files back.                              *)
LEMMA FailKeeps ==
  ASSUME OInv, NEW refs \in References, FailPersist(refs)
  PROVE  OInv'
<1>1. CASE UNCHANGED kept
  BY <1>1, RestKeeps DEF FailPersist, OInv, KeptTyped
<1>2. CASE ~UNCHANGED kept
  <2>1. PICK i \in DOMAIN refs :
          /\ CanCreate(SubSeq(refs, 1, i))
          /\ kept' = [kept EXCEPT ![refs[i].uri] = [by |-> commands, outcome |-> "half"]]
    BY <1>2 DEF FailPersist
  <2>2. Len(refs) \in Nat /\ DOMAIN refs = 1..Len(refs) /\ refs[i].uri \in Uri
    BY ReferencesTyped DEF IsList
  <2>3. kept[refs[i].uri] = NoFile
    BY <2>1, <2>2, FreshUris
  <2>4. [by |-> commands, outcome |-> "half"]
          \in [by : 0..commands, outcome : Statuses \cup {"half"}]
    BY OutcomeAssumption DEF OInv, KeptTyped
  <2>5. KeptTyped' /\ \A u \in Uri : kept[u] # NoFile => kept'[u] = kept[u]
    BY <2>1, <2>2, <2>3, <2>4 DEF FailPersist, OInv, KeptTyped
  <2> QED
    BY <2>5, RestKeeps DEF FailPersist
<1> QED
  BY <1>1, <1>2

(* What a command records is faithful to its executor result and backed by *)
(* the files it has just created.                                          *)
LEMMA RecordedIsBacked ==
  ASSUME OInv, NEW refs \in References, Persist(refs)
  PROVE  /\ KeptTyped' /\ \A u \in Uri : kept[u] # NoFile => kept'[u] = kept[u]
         /\ BackedBy(StateOf(refs), kept', commands)
<1>1. /\ step = "invoked" /\ Matches /\ CanCreate(refs) /\ kept' = KeptWith(refs, Len(refs))
      /\ UNCHANGED commands
  BY DEF Persist, Persistable
<1>2. /\ Len(refs) \in Nat /\ DOMAIN refs = 1..Len(refs)
      /\ \A i \in DOMAIN refs : refs[i].uri \in Uri /\ kept[refs[i].uri] = NoFile
      /\ [i \in DOMAIN refs |-> refs[i].uri] \in Seq(Uri)
  BY <1>1, ReferencesTyped DEF CanCreate, IsList
<1>3. outcome.status \in Ended /\ Ended \subseteq Statuses /\ commands \in 0..commands
      /\ commands \in 1..commands
  BY <1>1, OutcomeAssumption DEF OInv, Possibly, Ended, Statuses, KeptTyped
<1>4. KeptTyped' /\ \A u \in Uri : kept[u] # NoFile => kept'[u] = kept[u]
  BY <1>1, <1>2, <1>3 DEF KeptWith, OInv, KeptTyped
<1>5. Faithful(StateOf(refs), commands)
  <2>1. outcome.status = "succeeded" => plan.status = "ready"
    BY <1>1 DEF OInv, Possibly, Matches
  <2> QED
    BY <1>1, <1>3, <2>1 DEF Faithful, StateOf, Matches, OInv, Possibly
<1>6. \A i \in DOMAIN refs : kept'[refs[i].uri] = [by |-> commands, outcome |-> outcome.status]
  BY <1>1, <1>2 DEF KeptWith
<1>7. ToLaneRunStatus(outcome.status) \in {"completed", "failed", "blocked"}
  BY <1>3 DEF Ended, ToLaneRunStatus
<1> DEFINE uris == [i \in DOMAIN refs |-> refs[i].uri]
<1>8. /\ StateOf(refs).refs = uris /\ StateOf(refs).by = commands /\ StateOf(refs).of = outcome
      /\ StateOf(refs).status = ToLaneRunStatus(outcome.status)
  BY DEF StateOf
<1>9. \A i \in DOMAIN uris : kept'[uris[i]] = [by |-> commands, outcome |-> outcome.status]
  BY <1>6
<1>10. uris \in Seq(Uri)
  BY <1>2
<1> HIDE DEF uris
<1>11. BackedBy(StateOf(refs), kept', commands)
  BY <1>3, <1>5, <1>7, <1>8, <1>9, <1>10 DEF BackedBy
<1> QED
  BY <1>4, <1>11

(* Persistence records a state that its files back.                        *)
LEMMA PersistKeeps ==
  ASSUME OInv, NEW refs \in References, Persist(refs)
  PROVE  OInv'
<1>1. /\ step = "invoked" /\ step' = "persisted" /\ laneState' = StateOf(refs)
      /\ written' = [state |-> StateOf(refs), refs |-> refs]
      /\ UNCHANGED <<commands, plan, outcome, sound>>
  BY DEF Persist
<1>2. written'.state = StateOf(refs) /\ written'.refs = refs
  BY <1>1
<1>3. Remembered'
  <2>1. /\ outcome.run.corr = plan.corr /\ outcome.status \in Ended
        /\ \A i \in DOMAIN refs : LocalReference(refs[i])
        /\ \A i, j \in DOMAIN refs : refs[i].uri = refs[j].uri => i = j
    BY <1>1 DEF Persist, Persistable, Matches, CanCreate, OInv, Possibly
  <2>2. StateOf(refs).status \in {"completed", "failed", "blocked"}
    BY <2>1 DEF StateOf, Ended, ToLaneRunStatus
  <2>3. /\ StateOf(refs).of = outcome
        /\ StateOf(refs).refs = [i \in DOMAIN refs |-> refs[i].uri]
    BY DEF StateOf
  <2> QED
    BY <1>1, <1>2, <2>1, <2>2, <2>3 DEF Remembered, LocalReference
<1> QED
  BY <1>1, <1>2, <1>3, RecordedIsBacked, ReferencesTyped DEF OInv, Possibly

(* Every step keeps the invariant ...                                      *)
LEMMA StepKeeps == OInv /\ [Next]_outcomeVars => OInv'
<1> SUFFICES ASSUME OInv, [Next]_outcomeVars PROVE OInv'
  OBVIOUS
<1>1. ASSUME NEW r \in Request, AskStatus(r) \/ AskResult(r) \/ AskSample(r) PROVE OInv'
  BY <1>1, AskKeeps DEF AskStatus, AskResult, AskSample
<1>2. ASSUME NEW corr \in Corr, NEW offered \in RefLists, ReadBack(corr, offered) PROVE OInv'
  BY <1>2, AskKeeps DEF ReadBack
<1>3. ASSUME Project PROVE OInv'
  BY <1>3, RestKeeps DEF Project, OInv, KeptTyped
<1>4. CASE UNCHANGED outcomeVars
  BY <1>4, AskKeeps DEF outcomeVars
<1> QED
  BY <1>1, <1>2, <1>3, <1>4, BeginKeeps, InvokeKeeps, PersistKeeps, FailKeeps, FailStateKeeps,
     DieAmongKeeps, DieInStateKeeps, SpoilKeeps, DieKeeps, QueueKeeps DEF Next

(* ... which holds of every behaviour.                                     *)
LEMMA Invariant == Spec => []OInv
BY InitHolds, StepKeeps, PTL DEF Spec

-----------------------------------------------------------------------------
(* Min of a set of numbers is its least member.                            *)
LEMMA Least ==
  ASSUME NEW I, I \subseteq Nat, I # {}
  PROVE  Min(I) \in I /\ \A k \in I : Min(I) <= k
<1>1. \E x \in I : \A y \in I : <<y, x>> \notin OpToRel(<, Nat)
  BY WFMin, NatLessThanWellFounded
<1>2. PICK x \in I : \A y \in I : ~(y < x)
  BY <1>1 DEF OpToRel
<1>3. \A y \in I : x <= y
  BY <1>2
<1> QED
  BY <1>2, <1>3 DEF Min

(* The reference chosen for a uri has that uri.                            *)
LEMMA OfferHasUri ==
  ASSUME NEW offered, IsList(offered), NEW uri, \E j \in DOMAIN offered : offered[j].uri = uri
  PROVE  /\ Offer(offered, uri).uri = uri
         /\ \E k \in DOMAIN offered : Offer(offered, uri) = offered[k]
<1> DEFINE I == {i \in 1..Len(offered) : offered[i].uri = uri}
<1>1. I \subseteq Nat /\ I # {}
  BY DEF IsList
<1>2. SelectInSeq(offered, LAMBDA x : x.uri = uri) = Min(I)
  BY <1>1 DEF SelectInSeq
<1>3. Min(I) \in I
  BY <1>1, Least
<1> QED
  BY <1>2, <1>3 DEF Offer, IsList

-----------------------------------------------------------------------------
(* What the projection of a recorded state says, whatever references are   *)
(* offered for it.                                                         *)

(* What a projected result says,                                           *)
LEMMA ProjectionFields ==
  ASSUME NEW s, NEW corr, NEW offered, NEW r, r = ProjectResult(s, corr, offered), r # Thrown
  PROVE  /\ s.status \in {"completed", "failed", "blocked"}
         /\ r.status = ToResultStatus(s.status) /\ r.corr = corr
BY DEF ProjectResult, Result

(* and which references a successful one names.                            *)
LEMMA ProjectionEvidence ==
  ASSUME NEW s, NEW corr, NEW offered, NEW r, r = ProjectResult(s, corr, offered),
         r.status = "succeeded"
  PROVE  /\ Backed(s, corr, offered)
         /\ r.evidence = [i \in DOMAIN s.refs |-> Offer(offered, s.refs[i])]
BY ThrownFields DEF ProjectResult, Result

(* The statuses of a backed state translate into each other.               *)
LEMMA StatusesMatch ==
  ASSUME NEW s, NEW k, NEW n, BackedBy(s, k, n), s.status \in {"completed", "failed", "blocked"}
  PROVE  /\ ToResultStatus(s.status) = s.of.status /\ s.of.run.status = s.of.status
         /\ ToSnapshotStatus(s.status) = IF s.of.status = "succeeded" THEN "completed"
                                         ELSE s.of.status
<1>1. Faithful(s, n)
  BY DEF BackedBy
<1> QED
  BY <1>1 DEF Faithful, Ended, ToLaneRunStatus, ToResultStatus, ToSnapshotStatus

(* A projection that says so is backed by the state and its evidence.      *)
LEMMA ProjectionIsBacked ==
  ASSUME NEW s, NEW k, NEW n, BackedBy(s, k, n), NEW corr, NEW offered, IsList(offered),
         NEW r, r = ProjectResult(s, corr, offered), r.status = "succeeded"
  PROVE  /\ s.ready /\ s.of.status = "succeeded" /\ s.of.run.status = "succeeded"
         /\ Len(r.evidence) = Len(s.refs)
         /\ \A i \in DOMAIN r.evidence :
              /\ r.evidence[i].corr = r.corr
              /\ k[r.evidence[i].uri] = [by |-> s.by, outcome |-> "succeeded"]
<1>1. /\ r.corr = corr /\ r.status = ToResultStatus(s.status) /\ Backed(s, corr, offered)
      /\ s.status \in {"completed", "failed", "blocked"}
      /\ r.evidence = [i \in DOMAIN s.refs |-> Offer(offered, s.refs[i])]
  BY ProjectionFields, ProjectionEvidence, ThrownFields
<1>2. s.of.status = "succeeded" /\ s.of.run.status = "succeeded"
  BY <1>1, StatusesMatch
<1>3. s.ready
  BY <1>1, <1>2 DEF BackedBy, Faithful
<1>4. s.refs \in Seq(Uri)
  BY DEF BackedBy
<1>5. Len(r.evidence) = Len(s.refs)
  BY <1>1, <1>4
<1>6. ASSUME NEW i \in DOMAIN r.evidence
      PROVE  /\ r.evidence[i].corr = corr
             /\ k[r.evidence[i].uri] = [by |-> s.by, outcome |-> "succeeded"]
  <2>1. i \in DOMAIN s.refs /\ r.evidence[i] = Offer(offered, s.refs[i])
    BY <1>1
  <2>2. /\ \E j \in DOMAIN offered : offered[j].uri = s.refs[i]
        /\ Offer(offered, s.refs[i]).corr = corr
    BY <1>1, <2>1 DEF Backed, MayName
  <2>3. r.evidence[i].uri = s.refs[i]
    BY <2>1, <2>2, OfferHasUri
  <2> QED
    BY <1>2, <2>1, <2>2, <2>3 DEF BackedBy
<1> QED
  BY <1>1, <1>2, <1>3, <1>5, <1>6

(* Who projects has a state backed by the files as they are.               *)
LEMMA ProjectingStep ==
  ASSUME OInv, [Next]_outcomeVars, Projection'
  PROVE  \/ UNCHANGED <<said, kept>>
         \/ \E s, corr, offered :
              /\ BackedBy(s, kept, commands) /\ IsList(offered) /\ UNCHANGED kept
              /\ said'.about[1].state = s
              /\ said'.snapshot = ProjectSnapshot(s, corr)
              /\ said'.result = ProjectResult(s, corr, offered)
<1>1. ASSUME NEW corr \in Corr, NEW offered \in RefLists, ReadBack(corr, offered)
      PROVE  /\ BackedBy(laneState, kept, commands) /\ IsList(offered) /\ UNCHANGED kept
             /\ said'.about[1].state = laneState
             /\ said'.snapshot = ProjectSnapshot(laneState, corr)
             /\ said'.result = ProjectResult(laneState, corr, offered)
  BY <1>1, ReferencesTyped DEF ReadBack, OInv, References
<1>2. ASSUME Project
      PROVE  /\ BackedBy(written.state, kept, commands) /\ IsList(written.refs) /\ UNCHANGED kept
             /\ said'.about[1].state = written.state
             /\ said'.snapshot = ProjectSnapshot(written.state, plan.corr)
             /\ said'.result = ProjectResult(written.state, plan.corr, written.refs)
  BY <1>2 DEF Project, OInv
<1>3. ~Quiet.by \in {"command", "reader"}
  BY DEF Quiet
<1>4. ASSUME Throw \/ said' = Quiet \/ \E r, x, y : Answer(r, x, y) PROVE FALSE
  BY <1>3, <1>4 DEF Throw, Answer, Projection
<1>5. ASSUME NEW r \in Request, AskStatus(r) \/ AskResult(r) \/ AskSample(r) \/ Begin(r)
      PROVE  FALSE
  BY <1>4, <1>5 DEF AskStatus, AskResult, AskSample, Begin
<1>6. ASSUME NEW refs \in References,
             \/ Persist(refs) \/ FailPersist(refs) \/ FailState(refs)
             \/ DieAmongEvidence(refs) \/ DieInState(refs)
      PROVE  FALSE
  BY <1>4, <1>6 DEF Persist, FailPersist, FailState, DieAmongEvidence, DieInState
<1>7. ASSUME Spoil \/ Die \/ QueueLane \/ \E f \in Fixture : Invoke(f) PROVE FALSE
  BY <1>4, <1>7 DEF Spoil, Die, QueueLane, Invoke
<1>8. CASE UNCHANGED outcomeVars
  BY <1>8 DEF outcomeVars
<1> QED
  BY <1>1, <1>2, <1>5, <1>6, <1>7, <1>8 DEF Next

-----------------------------------------------------------------------------
(* A success that is projected, from whatever references, was recorded for *)
(* a ready plan by an executor whose run result says so too, and each      *)
(* piece of evidence it names was written by that very command.            *)
THEOREM SuccessTheorem == Spec => []SuccessIsBacked
<1>1. Init => SuccessIsBacked
  BY DEF Init, Quiet, SuccessIsBacked, Projection
<1>2. ASSUME OInv, SuccessIsBacked, [Next]_outcomeVars PROVE SuccessIsBacked'
  <2> SUFFICES ASSUME Projection', said'.result.status = "succeeded"
               PROVE  SuccessIsBacked'
    BY DEF SuccessIsBacked
  <2>1. CASE UNCHANGED <<said, kept>>
    BY <1>2, <2>1 DEF SuccessIsBacked, Projection, Shown
  <2>2. CASE ~UNCHANGED <<said, kept>>
    <3>1. PICK s, corr, offered :
            /\ BackedBy(s, kept, commands) /\ IsList(offered) /\ UNCHANGED kept
            /\ said'.about[1].state = s
            /\ said'.result = ProjectResult(s, corr, offered)
      BY <1>2, <2>2, ProjectingStep
    <3>2. /\ s.ready /\ s.of.status = "succeeded" /\ s.of.run.status = "succeeded"
          /\ Len(said'.result.evidence) = Len(s.refs)
          /\ \A i \in DOMAIN said'.result.evidence :
               /\ said'.result.evidence[i].corr = said'.result.corr
               /\ kept[said'.result.evidence[i].uri] = [by |-> s.by, outcome |-> "succeeded"]
      BY <3>1, ProjectionIsBacked
    <3> QED
      BY <3>1, <3>2 DEF SuccessIsBacked, Shown
  <2> QED
    BY <2>1, <2>2
<1> QED
  BY <1>1, <1>2, Invariant, PTL DEF Spec

(* Snapshot, run result and the executor agree on how a lane run ended.    *)
THEOREM ReportsTheorem == Spec => []ReportsAgree
<1>1. Init => ReportsAgree
  BY DEF Init, Quiet, ReportsAgree, Projection
<1>2. ASSUME OInv, ReportsAgree, [Next]_outcomeVars PROVE ReportsAgree'
  <2> SUFFICES ASSUME Projection', said'.result.what = "result"
               PROVE  ReportsAgree'
    BY DEF ReportsAgree
  <2>1. CASE UNCHANGED <<said, kept>>
    BY <1>2, <2>1 DEF ReportsAgree, Projection, Shown
  <2>2. CASE ~UNCHANGED <<said, kept>>
    <3>1. PICK s, corr, offered :
            /\ BackedBy(s, kept, commands)
            /\ said'.about[1].state = s
            /\ said'.snapshot = ProjectSnapshot(s, corr)
            /\ said'.result = ProjectResult(s, corr, offered)
      BY <1>2, <2>2, ProjectingStep
    <3>2. /\ s.status \in {"completed", "failed", "blocked"}
          /\ said'.result.status = ToResultStatus(s.status)
      <4>1. said'.result # Thrown
        BY ThrownFields
      <4> QED
        BY <3>1, <4>1, ProjectionFields
    <3>3. said'.snapshot.status = ToSnapshotStatus(s.status)
      BY <3>1 DEF ProjectSnapshot, Snapshot
    <3> QED
      BY <3>1, <3>2, <3>3, StatusesMatch DEF ReportsAgree, Shown
  <2> QED
    BY <2>1, <2>2
<1> QED
  BY <1>1, <1>2, Invariant, PTL DEF Spec

(* The state file and the evidence it names tell of the same command and   *)
(* the same outcome.                                                       *)
THEOREM EvidenceTheorem == Spec => []EvidenceAgrees
<1>1. OInv => EvidenceAgrees
  BY DEF OInv, BackedBy, EvidenceAgrees
<1> QED
  BY <1>1, Invariant, PTL

(* Once an outcome is recorded, only a later command with other evidence   *)
(* ever puts another in its place.                                         *)
LEMMA FinalStep ==
  ASSUME OInv, [Next]_outcomeVars, laneState.by # 0, laneState'.by # 0, laneState' # laneState
  PROVE  /\ laneState.by < laneState'.by
         /\ \A i \in DOMAIN laneState.refs, j \in DOMAIN laneState'.refs :
              laneState.refs[i] # laneState'.refs[j]
<1>1. ~QueueLane /\ \A refs \in References : ~FailState(refs) /\ ~DieInState(refs)
  BY DEF QueueLane, FailState, DieInState, Unreadable, BareState
<1>2. PICK refs \in References : Persist(refs)
  BY <1>1 DEF Next, AskStatus, AskResult, AskSample, Begin, Invoke, FailPersist,
     DieAmongEvidence, ReadBack, Project, Spoil, Die, outcomeVars
<1>3. /\ laneState.by < commands /\ laneState' = StateOf(refs) /\ CanCreate(refs)
  BY <1>2 DEF Persist, Persistable, OInv
<1>4. laneState'.by = commands /\ laneState'.refs = [i \in DOMAIN refs |-> refs[i].uri]
  BY <1>3 DEF StateOf
<1>5. \A j \in DOMAIN laneState'.refs : kept[laneState'.refs[j]] = NoFile
  BY <1>3, <1>4 DEF CanCreate
<1>6. \A i \in DOMAIN laneState.refs : kept[laneState.refs[i]] # NoFile
  BY DEF OInv, BackedBy, NoFile
<1> QED
  BY <1>3, <1>4, <1>5, <1>6

(* Once recorded, an executor's outcome is never replaced by another.      *)
THEOREM FinalTheorem == Spec => OutcomeIsFinal
<1>1. OInv /\ [Next]_outcomeVars =>
        [(laneState.by # 0 /\ laneState'.by # 0 /\ laneState' # laneState) =>
           /\ laneState.by < laneState'.by
           /\ \A i \in DOMAIN laneState.refs, j \in DOMAIN laneState'.refs :
                laneState.refs[i] # laneState'.refs[j]]_outcomeVars
  BY FinalStep
<1> QED
  BY <1>1, Invariant, PTL DEF Spec, OutcomeIsFinal

-----------------------------------------------------------------------------
(* Blocked lanes and requests say why.                                     *)

(* What is projected of a lane that was blocked for reasons.               *)
LEMMA BlockedProjection ==
  ASSUME NEW s, NEW k, NEW n, BackedBy(s, k, n), s.status = "blocked", ~Blank(s.of.reasons),
         NEW corr, NEW offered, NEW r, r = ProjectResult(s, corr, offered)
  PROVE  /\ ProjectSnapshot(s, corr).reasons = s.of.reasons
         /\ r.what = "result" => r.text = s.of.reasons /\ r.reasons = s.of.reasons
<1>1. s.journal = Journal(s.of) /\ s.of.reasons \in Text
  BY DEF BackedBy, Faithful
<1>2. TextOf(s, BlockedTexts(s)) = s.of.reasons
  BY <1>1, BlockedText
<1>3. ProjectSnapshot(s, corr).reasons = s.of.reasons
  BY <1>2 DEF ProjectSnapshot, Snapshot
<1>4. ToResultStatus(s.status) = "blocked"
  BY DEF ToResultStatus
<1>5. Projected(s, "blocked").text = s.of.reasons
  BY <1>2 DEF Projected
<1>6. ASSUME r # Thrown PROVE r.text = s.of.reasons /\ r.reasons = s.of.reasons
  BY <1>2, <1>4, <1>5, <1>6 DEF ProjectResult, Result
<1> QED
  BY <1>3, <1>6, ThrownFields

(* A step that projects a blocked lane gives its reasons.                  *)
LEMMA BlockedLaneStep ==
  ASSUME OInv, BlockedLaneSaysWhy, [Next]_outcomeVars PROVE BlockedLaneSaysWhy'
<1> SUFFICES ASSUME Projection', Shown'.status = "blocked", ~Blank(Shown'.of.reasons)
             PROVE  BlockedLaneSaysWhy'
  BY DEF BlockedLaneSaysWhy, Blank
<1>1. CASE UNCHANGED <<said, kept>>
  BY <1>1 DEF BlockedLaneSaysWhy, Projection, Shown
<1>2. CASE ~UNCHANGED <<said, kept>>
  <2>1. PICK s, corr, offered :
          /\ BackedBy(s, kept, commands)
          /\ said'.about[1].state = s
          /\ said'.snapshot = ProjectSnapshot(s, corr)
          /\ said'.result = ProjectResult(s, corr, offered)
    BY <1>2, ProjectingStep
  <2>2. Shown' = s
    BY <2>1 DEF Shown
  <2>3. /\ said'.snapshot.reasons = s.of.reasons
        /\ said'.result.what = "result" =>
             said'.result.text = s.of.reasons /\ said'.result.reasons = s.of.reasons
    BY <2>1, <2>2, BlockedProjection
  <2> QED
    BY <2>2, <2>3 DEF BlockedLaneSaysWhy
<1> QED
  BY <1>1, <1>2

(* What is answered to a request that cannot be carried out.               *)
Refused(r) == r.stable /\ (~r.valid \/ PlanOf(r).status = "blocked")
SaysWhy(r, x) == x.status = "blocked" /\ x.corr = r.corr /\ x.text # <<>>

(* A request that is not valid is answered with its own errors,            *)
LEMMA InvalidAnswer ==
  ASSUME NEW r \in Request, r.stable
  PROVE  SaysWhy(r, InvalidSnapshot(r)) /\ SaysWhy(r, InvalidResult(r))
BY DEF SaysWhy, InvalidSnapshot, InvalidResult, Snapshot, Result

(* one that is refused with the reason of the refusal,                     *)
LEMMA RefusedAnswer ==
  ASSUME NEW r \in Request, Refused(r), NEW mode
  PROVE  SaysWhy(r, StatusAnswer(r, mode)) /\ SaysWhy(r, ResultAnswer(r, mode))
<1>1. CASE ~r.valid
  BY <1>1, InvalidAnswer DEF Refused, StatusAnswer, ResultAnswer
<1>2. CASE r.valid
  <2> DEFINE p == PlanOf(r)
  <2>1. p.status = "blocked" /\ p.reasons # <<>> /\ p.corr = r.corr
    BY <1>2 DEF Refused, PlanOf
  <2> HIDE DEF p
  <2>2. MayReport(p, "blocked") /\ Possible(p, mode) = "blocked"
    BY <2>1 DEF MayReport, Possible
  <2>3. /\ StatusAnswer(r, mode) = PlanSnapshot(p, "blocked")
        /\ ResultAnswer(r, mode) = PlanResult(p, "blocked", DryRunVerification(p, "blocked"))
    BY <1>2, <2>2 DEF StatusAnswer, ResultAnswer, p
  <2>4. PlanSnapshot(p, "blocked") = Snapshot("blocked", p.corr, p.reasons, p.reasons)
    BY <2>2 DEF PlanSnapshot
  <2>5. PlanResult(p, "blocked", DryRunVerification(p, "blocked"))
          = Result("blocked", p.corr, DryRunVerification(p, "blocked"), <<>>, <<>>)
    BY <2>2 DEF PlanResult
  <2> QED
    BY <2>1, <2>3, <2>4, <2>5 DEF SaysWhy, Snapshot, Result, DryRunVerification
<1> QED
  BY <1>1, <1>2

(* so whoever asks learns why.                                             *)
LEMMA RequestStep ==
  ASSUME BlockedRequestIsAnswered, [Next]_outcomeVars PROVE BlockedRequestIsAnswered'
<1>1. ASSUME NEW r \in Request, NEW x, NEW y, Answer(r, x, y),
             Refused(r) => \A z \in {x, y} \ {Nothing} : SaysWhy(r, z)
      PROVE  BlockedRequestIsAnswered'
  BY <1>1 DEF Answer, BlockedRequestIsAnswered, Refused, SaysWhy, PlanOf, PlanBlockers
<1>2. ASSUME NEW r \in Request, AskStatus(r) \/ AskResult(r) \/ AskSample(r)
      PROVE  BlockedRequestIsAnswered'
  BY <1>1, <1>2, RefusedAnswer DEF AskStatus, AskResult, AskSample
<1>3. ASSUME said'.by # "request" PROVE BlockedRequestIsAnswered'
  BY <1>3 DEF BlockedRequestIsAnswered
<1>4. ASSUME Throw \/ said' = Quiet PROVE BlockedRequestIsAnswered'
  BY <1>3, <1>4 DEF Throw, Quiet
<1>5. ASSUME NEW r \in Request, Begin(r) PROVE BlockedRequestIsAnswered'
  <2>1. Refused(r) => r.stable
    BY DEF Refused
  <2> QED
    BY <1>1, <1>4, <1>5, <2>1, InvalidAnswer DEF Begin
<1>6. ASSUME Project \/ \E corr \in Corr, offered \in RefLists : ReadBack(corr, offered)
      PROVE  BlockedRequestIsAnswered'
  BY <1>3, <1>6 DEF Project, ReadBack
<1>7. CASE UNCHANGED outcomeVars
  BY <1>7 DEF outcomeVars, BlockedRequestIsAnswered
<1> QED
  BY <1>2, <1>4, <1>5, <1>6, <1>7
     DEF Next, Invoke, Persist, FailPersist, FailState, DieAmongEvidence, DieInState, Spoil, Die,
         QueueLane

(* What blocked a lane, or keeps a request from being carried out, is told *)
(* in full.                                                                *)
THEOREM BlockedTheorem == Spec => []BlockedSaysWhy
<1>1. Init => BlockedLaneSaysWhy /\ BlockedRequestIsAnswered
  BY DEF Init, Quiet, BlockedLaneSaysWhy, BlockedRequestIsAnswered, Projection
<1> QED
  BY <1>1, BlockedLaneStep, RequestStep, Invariant, PTL DEF Spec, BlockedSaysWhy

-----------------------------------------------------------------------------
(* A command can report what it has recorded.                              *)

(* References of the program's own are all one.                            *)
LEMMA OneDefault ==
  ASSUME NEW refs, IsList(refs), \A i \in DOMAIN refs : refs[i].uri = "default",
         \A i, j \in DOMAIN refs : refs[i].uri = refs[j].uri => i = j
  PROVE  Len(refs) \in {0, 1}
<1>1. SUFFICES ASSUME Len(refs) \notin {0, 1} PROVE FALSE
  OBVIOUS
<1>2. 1 \in DOMAIN refs /\ 2 \in DOMAIN refs
  BY <1>1 DEF IsList
<1> QED
  BY <1>2

(* The metadata that the program gives its own references are safe to      *)
(* show.                                                                   *)
LEMMA PlainIsSafe == CustomerSafe(PlainMetadata)
BY DEF CustomerSafe, HasCustomerSignal, PlainMetadata

(* What is said of a recorded outcome fits, if its reasons do.             *)
LEMMA ProjectedFits ==
  ASSUME NEW s, s.journal = Journal(s.of), s.of.reasons \in Text, Fits(s.of.reasons),
         NEW status
  PROVE  Fits(Projected(s, status).text)
<1>1. Fits(<<>>)
  BY DEF Fits, Contains
<1>2. /\ TextOf(s, BlockedTexts(s)) \in {s.of.reasons, <<>>}
      /\ TextOf(s, Failures(s)) \in {s.of.reasons, <<>>}
  BY BlockedText
<1>3. Projected(s, status).text \in {<<>>, TextOf(s, Failures(s)), TextOf(s, BlockedTexts(s))}
  BY DEF Projected
<1> QED
  BY <1>1, <1>2, <1>3

(* A recorded outcome with references of the program's own is projected as *)
(* a result.                                                               *)
LEMMA OwnProjection ==
  ASSUME NEW s, NEW k, NEW n, BackedBy(s, k, n), s.status \in {"completed", "failed", "blocked"},
         NEW refs, IsList(refs), NEW corr,
         s.refs = [i \in DOMAIN refs |-> refs[i].uri],
         \A i, j \in DOMAIN refs : refs[i].uri = refs[j].uri => i = j,
         \A i \in DOMAIN refs : /\ LocalReference(refs[i]) /\ refs[i].corr = corr
                                /\ refs[i].uri = "default" /\ refs[i].metadata = PlainMetadata,
         Fits(s.of.reasons)
  PROVE  ProjectResult(s, corr, refs).what = "result"
<1> DEFINE status == ToResultStatus(s.status)
           named == IF status = "succeeded" THEN [i \in DOMAIN s.refs |-> Offer(refs, s.refs[i])]
                    ELSE <<>>
           result == Result(status, corr, Projected(s, status), TextOf(s, BlockedTexts(s)), named)
<1>1. Backed(s, corr, refs)
  <2> SUFFICES ASSUME NEW i \in DOMAIN s.refs
               PROVE  /\ \E j \in DOMAIN refs : refs[j].uri = s.refs[i]
                      /\ MayName(Offer(refs, s.refs[i]), corr)
    BY DEF Backed
  <2>1. i \in DOMAIN refs /\ refs[i].uri = s.refs[i]
    OBVIOUS
  <2>2. PICK j \in DOMAIN refs : Offer(refs, s.refs[i]) = refs[j]
    BY <2>1, OfferHasUri
  <2> QED
    BY <2>1, <2>2, PlainIsSafe DEF MayName
<1>2. Len(named) <= MaxBundles
  <2>1. Len(refs) \in {0, 1} /\ DOMAIN s.refs = 1..Len(refs)
    BY OneDefault DEF IsList
  <2>2. Len([i \in DOMAIN s.refs |-> Offer(refs, s.refs[i])]) = Len(refs)
    BY <2>1
  <2>3. Len(<<>>) = 0
    OBVIOUS
  <2>4. Len(named) \in {0, 1}
    BY <2>1, <2>2, <2>3
  <2>5. MaxBundles \in Nat /\ 0 <= MaxBundles /\ 1 <= MaxBundles
    BY OutcomeAssumption
  <2>6. ASSUME NEW m \in {0, 1} PROVE m <= MaxBundles
    BY <2>5, <2>6
  <2> HIDE DEF named
  <2> QED
    BY <2>4, <2>6
<1>3. Fits(Projected(s, status).text)
  BY ProjectedFits DEF BackedBy, Faithful
<1>4. /\ result.text = Projected(s, status).text /\ result.evidence = named
      /\ result.what = "result"
  BY DEF Result
<1>5. ValidResult(result)
  BY <1>2, <1>3, <1>4 DEF ValidResult
<1>6. ProjectResult(s, corr, refs) = result
  BY <1>1, <1>5 DEF ProjectResult
<1> QED
  BY <1>4, <1>6

(* A command says something only when it projects its outcome.             *)
LEMMA CommandStep ==
  ASSUME [Next]_outcomeVars, said'.by = "command", said'.about # <<>>
  PROVE  UNCHANGED said \/ Project
<1>1. ~Throw /\ said' # Quiet /\ ~(\E r, x, y : Answer(r, x, y))
  BY DEF Throw, Quiet, Answer
<1>2. ASSUME NEW corr \in Corr, NEW offered \in RefLists, ReadBack(corr, offered) PROVE FALSE
  BY <1>2 DEF ReadBack
<1>3. CASE UNCHANGED outcomeVars
  BY <1>3 DEF outcomeVars
<1>4. ASSUME NEW r \in Request, AskStatus(r) \/ AskResult(r) \/ AskSample(r) \/ Begin(r)
      PROVE  FALSE
  BY <1>1, <1>4 DEF AskStatus, AskResult, AskSample, Begin
<1>5. ASSUME NEW refs \in References,
             \/ Persist(refs) \/ FailPersist(refs) \/ FailState(refs)
             \/ DieAmongEvidence(refs) \/ DieInState(refs)
      PROVE  FALSE
  BY <1>1, <1>5 DEF Persist, FailPersist, FailState, DieAmongEvidence, DieInState
<1>6. ASSUME Spoil \/ Die \/ QueueLane \/ \E f \in Fixture : Invoke(f) PROVE FALSE
  BY <1>1, <1>6 DEF Spoil, Die, QueueLane, Invoke
<1> QED
  BY <1>2, <1>3, <1>4, <1>5, <1>6 DEF Next

(* A command whose evidence is where the program puts it can report its    *)
(* outcome, unless its reasons are too long.                               *)
THEOREM OwnTheorem == Spec => []OwnResultIsProjectable
<1>1. Init => OwnResultIsProjectable
  BY DEF Init, Quiet, OwnResultIsProjectable
<1>2. ASSUME OInv, OwnResultIsProjectable, [Next]_outcomeVars PROVE OwnResultIsProjectable'
  <2> SUFFICES ASSUME said'.by = "command", said'.about # <<>>,
                      \A i \in DOMAIN said'.about[1].refs :
                        /\ said'.about[1].refs[i].uri = "default"
                        /\ said'.about[1].refs[i].metadata = PlainMetadata
                        /\ said'.about[1].refs[i].corr = Shown'.of.run.corr,
                      Fits(Shown'.of.reasons)
               PROVE  OwnResultIsProjectable'
    BY DEF OwnResultIsProjectable, Fits, PlainMetadata
  <2>1. CASE UNCHANGED said
    BY <1>2, <2>1 DEF OwnResultIsProjectable, Shown
  <2>2. CASE Project
    <3> DEFINE s == written.state
               refs == written.refs
    <3>1. /\ said'.about[1].state = s /\ said'.about[1].refs = refs /\ Shown' = s
          /\ said'.result = ProjectResult(s, plan.corr, refs)
      BY <2>2 DEF Project, Shown
    <3>2. BackedBy(s, kept, commands) /\ IsList(refs) /\ Remembered
      BY <1>2, <2>2 DEF Project, OInv
    <3>3. said'.result.what = "result"
      BY <3>1, <3>2, OwnProjection DEF Remembered
    <3> QED
      BY <3>3 DEF OwnResultIsProjectable
  <2> QED
    BY <1>2, <2>1, <2>2, CommandStep
<1> QED
  BY <1>1, <1>2, Invariant, PTL DEF Spec

-----------------------------------------------------------------------------
(* What a call comes back with. *)
SaidTyped == said.snapshot.what \in Outputs /\ said.result.what \in Outputs

(* Every projection is an output,                                          *)
LEMMA OutputsTyped ==
  /\ Nothing.what \in Outputs /\ Thrown.what \in Outputs /\ Issues.what \in Outputs
  /\ \A st, c, t, r : Snapshot(st, c, t, r).what \in Outputs
  /\ \A st, c, v, r, e : Result(st, c, v, r, e).what \in Outputs
BY DEF Nothing, Thrown, Issues, Empty, Snapshot, Result, Outputs

(* so is every answer to a request,                                        *)
LEMMA AnswersTyped ==
  ASSUME NEW r, NEW mode
  PROVE  StatusAnswer(r, mode).what \in Outputs /\ ResultAnswer(r, mode).what \in Outputs
<1>1. InvalidSnapshot(r).what \in Outputs /\ InvalidResult(r).what \in Outputs
  BY OutputsTyped DEF InvalidSnapshot, InvalidResult
<1>2. \A p, st, v : PlanSnapshot(p, st).what \in Outputs /\ PlanResult(p, st, v).what \in Outputs
  BY OutputsTyped DEF PlanSnapshot, PlanResult
<1> QED
  BY <1>1, <1>2 DEF StatusAnswer, ResultAnswer

(* and so is whatever a step says.                                         *)
LEMMA StepSays == SaidTyped /\ [Next]_outcomeVars => SaidTyped'
<1> SUFFICES ASSUME SaidTyped, [Next]_outcomeVars PROVE SaidTyped'
  OBVIOUS
<1>1. ASSUME NEW r, NEW x, NEW y, x.what \in Outputs, y.what \in Outputs, Answer(r, x, y)
      PROVE  SaidTyped'
  BY <1>1 DEF Answer, SaidTyped
<1>2. ASSUME NEW r \in Request, AskStatus(r) \/ AskResult(r) \/ AskSample(r) PROVE SaidTyped'
  BY <1>1, <1>2, AnswersTyped, OutputsTyped DEF AskStatus, AskResult, AskSample
<1>3. ASSUME Throw \/ said' = Quiet PROVE SaidTyped'
  BY <1>3, OutputsTyped DEF Throw, Quiet, SaidTyped
<1>4. ASSUME NEW r \in Request, Begin(r) PROVE SaidTyped'
  <2>1. InvalidSnapshot(r).what \in Outputs /\ InvalidResult(r).what \in Outputs
    BY OutputsTyped DEF InvalidSnapshot, InvalidResult
  <2> QED
    BY <1>1, <1>3, <1>4, <2>1 DEF Begin
<1>5. ASSUME Project \/ \E corr \in Corr, offered \in RefLists : ReadBack(corr, offered)
      PROVE  SaidTyped'
  <2>1. \A s, c, o :
          ProjectSnapshot(s, c).what \in Outputs /\ ProjectResult(s, c, o).what \in Outputs
    BY OutputsTyped DEF ProjectSnapshot, ProjectResult
  <2> QED
    BY <1>5, <2>1 DEF Project, ReadBack, SaidTyped
<1>6. CASE UNCHANGED outcomeVars
  BY <1>6 DEF outcomeVars, SaidTyped
<1> QED
  BY <1>2, <1>3, <1>4, <1>5, <1>6
     DEF Next, Invoke, Persist, FailPersist, FailState, DieAmongEvidence, DieInState, Spoil, Die,
         QueueLane

(* Every variable has its type.                                            *)
THEOREM TypeCorrect == Spec => []TypeOK
<1>1. Init => SaidTyped
  BY OutputsTyped DEF Init, Quiet, SaidTyped
<1>2. OInv /\ SaidTyped => TypeOK
  <2> SUFFICES ASSUME OInv, SaidTyped PROVE TypeOK
    OBVIOUS
  <2>1. plan.status \in {"none", "ready", "blocked"}
    BY DEF OInv
  <2>2. outcome.status \in Statuses /\ outcome.run.what \in {"nothing", "result"}
    BY DEF OInv, Possibly, NoOutcome, Nothing, Empty, Statuses, Ended
  <2>3. \A i \in DOMAIN laneState.refs : laneState.refs[i] \in Uri
    BY DEF OInv, BackedBy
  <2>4. laneState.status \in {"absent", "unreadable", "queued", "completed", "failed", "blocked"}
        /\ laneState.by \in 0..commands
    BY DEF OInv, BackedBy
  <2> QED
    BY <2>1, <2>2, <2>3, <2>4 DEF OInv, KeptTyped, SaidTyped, TypeOK
<1> QED
  BY <1>1, <1>2, StepSays, Invariant, PTL DEF Spec
=============================================================================
