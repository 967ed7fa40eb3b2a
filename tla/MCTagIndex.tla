------------------------------ MODULE MCTagIndex ------------------------------
(***************************************************************************)
(* Instance of TagIndex: a message in the last minute of a month, all the  *)
(* periods of which end in the next month, a message that spreads over     *)
(* this minute and the next month, and one of a type that is not           *)
(* supported. The series of the first one has a tag, that of the others    *)
(* has none.                                                               *)
(***************************************************************************)
EXTENDS TagIndex, TLC

CONSTANTS lastMinute, spread, text, tagged, untagged, quality,
          month, next, squeezed,
          Distinct   \* the shards whose text has no character twice

MCSeriesOf == [m \in Message |-> IF m = lastMinute THEN tagged ELSE untagged]
MCNames == tagged :> {quality} @@ untagged :> {}
MCObsShards ==
  [m \in Message |-> IF m = spread THEN {month, next} ELSE {month}]
MCAggShards == [m \in Message |-> {next}]
MCSqueezed == [s \in Shard |-> IF s \in Distinct THEN s ELSE squeezed]
=============================================================================
