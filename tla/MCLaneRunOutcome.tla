-------------------------- MODULE MCLaneRunOutcome ---------------------------
(* TLC instance of LaneRunOutcome: references a caller may pass, of one     *)
(* kind each, under the program's own uri and under another.                *)
EXTENDS LaneRunOutcome

Of(uri, corr, metadata) ==
  [uri |-> uri, corr |-> corr, type |-> "local_path", wellFormed |-> TRUE, metadata |-> metadata]

Controlled == [PlainMetadata EXCEPT !.boundary = "customer-regulated", !.class = "controlled"]
Unclassified == [PlainMetadata EXCEPT !.track = TRUE]

MCRef ==
  {Of("default", "c1", PlainMetadata), Of("mine", "c1", Controlled), Of("mine", "c2", Unclassified),
   [Of("mine", "c1", PlainMetadata) EXCEPT !.type = "file_uri"]}

(* What a reader was told depends on the state it read, and no step depends *)
(* on it; what else there is, is met without it.  A refusal says nothing.   *)
Memory ==
  IF said.by = "reader" THEN <<said, kept>>
  ELSE <<commands, step, plan, outcome, written, sound, laneState, kept,
         IF said.about = <<>> THEN Quiet ELSE said>>
=============================================================================
