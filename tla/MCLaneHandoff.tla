---------------------------- MODULE MCLaneHandoff ----------------------------
(* TLC instance of LaneHandoff. *)
EXTENDS LaneHandoff, TLC

CONSTANTS i1, i2, k1, k2

Rec(class, who, root, why) == [class |-> class, who |-> who, root |-> root, why |-> why]
Own(who, root) == Rec("owner-controlled-dogfood", who, root, "blank")
Theirs(who, root, why) == Rec("customer-repository", who, root, why)

Scopes == {Own("a", "a"), Own("blank", "a"), Theirs("a", "a", "a"), Theirs("a", "a", "blank")}

(* The matching record, records that match in parts, spoiled lists. *)
Allowlists ==
  {{Own("a", "a")}, {Own("a", "b"), Own("b", "a")}, {Own("a", "a"), Own("b", "b")},
   {Own("a", "a"), Own("blank", "b")}, {Own("a", "a"), Theirs("a", "a", "a")},
   {Theirs("a", "a", "a")}, {Theirs("a", "a", "b"), Theirs("a", "b", "a")},
   {Theirs("b", "a", "a"), Theirs("a", "a", "blank")}}

Level3(submit, refs, fetch) ==
  [submit |-> submit, idempotency |-> "supported",
   evidenceReferences |-> refs, fetchEvidence |-> fetch]
Capabilities ==
  {Level3("supported", "supported", "partial"), Level3("supported", "supported", "unsupported"),
   Level3("partial", "partial", "supported")}

EvidenceSets == {{}, {"evidence", "unnamed"}}

(* A verdict and a skeleton are answers to one question, whatever is kept:  *)
(* of a verdict nothing else is remembered, and a skeleton only if nothing  *)
(* is kept.                                                                 *)
Kept == <<lane, held, intent, finished>>
Memory ==
  IF answer.what = "verdict" THEN <<answer>>
  ELSE IF answer.what = "skeleton" /\ (held # NoLane \/ intent # NoIntent \/ finished # {})
  THEN <<Kept, Nothing>>
  ELSE <<Kept, answer>>

Symmetry == Permutations({i1, i2}) \cup Permutations({k1, k2})
=============================================================================
