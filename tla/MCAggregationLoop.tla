------------------------- MODULE MCAggregationLoop -------------------------
(* Instance of AggregationLoop: the two places of the merge, one place in  *)
(* every other stage, and more updates than the cycle has places, so that  *)
(* the cycle can become as full as the merge lets it.                      *)
EXTENDS AggregationLoop

MCCapacity ==
  [s \in LoopStage |-> IF s = "merging" THEN 2 ELSE 1]

(* Every pair of types and aggregations, against the derivators' tables.   *)
ASSUME FollowUpTables == FollowedUpOnce

=============================================================================
