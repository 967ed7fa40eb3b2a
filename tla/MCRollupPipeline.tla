-------------------------- MODULE MCRollupPipeline --------------------------
(* Instances of RollupPipeline: periods of 2, 4, ... ticks.  The messages   *)
(* m1 and m2 meet in the first period of the first level, m2 and m3 in the  *)
(* second one, and all of them in one period of the second level.  Values   *)
(* have both signs, and the latest is neither the least nor the greatest.   *)
EXTENDS Derivators, TLC

CONSTANTS m1, m2, m3

MCStamps ==
  [m \in Message |-> CASE m = m1 -> {1} [] m = m2 -> {2, 3} [] m = m3 -> {4}]

MCMoment == 1 .. 2 ^ Levels

MCValue == [t \in Moment |-> ((3 * t) % 5) - 2]

Ceil(t, period) == ((t + period - 1) \div period) * period
MCShunk == [l \in Level |-> [t \in Moment |-> Ceil(t, 2 ^ l)]]

=============================================================================
