------------------------------ MODULE Calendar ------------------------------
(***************************************************************************)
(* The arithmetic of periods and shards: which period (shunk) of each time *)
(* aggregator a timestamp belongs to, which range of timestamps is queried *)
(* for computing the aggregates of a period, and which shards (partitions) *)
(* of Cassandra are queried for that range.                                *)
(*                                                                         *)
(* An instant is a number of ticks since the start of the first month; a   *)
(* tick is the resolution of a LocalDateTime.  Cassandra keeps timestamps  *)
(* in milliseconds, of TicksPerMs ticks.                                   *)
(***************************************************************************)
EXTENDS Integers, Sequences, FiniteSets

CONSTANTS
  TicksPerMs,    \* resolution of the timestamps of messages
  UnitLength,    \* UnitLength[u]: ticks in a minute, an hour and a day
  MonthDays,     \* MonthDays[i]: number of days of the i-th month
  Aggregators,   \* the configured sequence of time aggregators
  Horizon        \* the timestamps that clients may give to observations

ASSUME TicksAssumption == TicksPerMs \in Nat \ {0}
(* Each unit is a whole number of the previous one, from a millisecond on. *)
ASSUME UnitAssumption ==
  /\ UnitLength \in [{"1m", "1h", "1d"} -> Nat \ {0}]
  /\ UnitLength["1m"] % TicksPerMs = 0
  /\ UnitLength["1h"] % UnitLength["1m"] = 0
  /\ UnitLength["1d"] % UnitLength["1h"] = 0
ASSUME MonthAssumption == MonthDays \in Seq(28 .. 31)
ASSUME AggregatorsAssumption == Aggregators \in Seq({"1m", "1h", "1d", "1mo"})

VARIABLES
  sharder,   \* the configured sharder
  dt,        \* the timestamp that the client gave to an observation
  level,     \* how many time aggregators have been applied
  moment,    \* the datetime of the last update: dt, then the ends of periods
  row        \* the stored timestamp of the row that made this update happen

vars == <<sharder, dt, level, moment, row>>

-----------------------------------------------------------------------------
(* Dates.                                                                  *)

Day == UnitLength["1d"]

(* The first instant of each month, and of the one after the last.         *)
MonthStart[i \in 1 .. Len(MonthDays) + 1] ==
  IF i = 1 THEN 0 ELSE MonthStart[i - 1] + MonthDays[i - 1] * Day

(* LocalDateTime has months before and after any timestamp: a period and   *)
(* its shards may start a month before one, and end in the month after it. *)
ASSUME HorizonAssumption ==
  /\ Len(MonthDays) >= 3
  /\ Horizon \subseteq MonthStart[2] .. MonthStart[Len(MonthDays) - 1] - 1

MonthOf(t) ==
  CHOOSE i \in 1 .. Len(MonthDays) : MonthStart[i] <= t /\ t < MonthStart[i + 1]

DayOfMonth(t) == (t - MonthStart[MonthOf(t)]) \div Day + 1

StartOfMonth(t) == MonthStart[MonthOf(t)]

(* plusMonths, minus(1, MONTHS): the day of the month is kept, or replaced *)
(* by the last one when the month that is reached is too short.            *)
PlusMonths(t, n) ==
  LET m == MonthOf(t) + n
      d == IF DayOfMonth(t) <= MonthDays[m] THEN DayOfMonth(t) ELSE MonthDays[m]
  IN MonthStart[m] + (d - 1) * Day + (t % Day)

(* The timestamp of a row, in a column of type timestamp.                  *)
Stored(t) == (t \div TicksPerMs) * TicksPerMs

-----------------------------------------------------------------------------
(* Time aggregators.                                                       *)

TruncatedTo(unit, t) == (t \div UnitLength[unit]) * UnitLength[unit]

IsBorder(a, t) ==
  IF a = "1mo" THEN t = StartOfMonth(t) ELSE t % UnitLength[a] = 0

(* The end of the period that starts at t or after the last border.        *)
ShunkAfter(a, t) ==
  IF a = "1mo" THEN StartOfMonth(PlusMonths(t, 1))
  ELSE TruncatedTo(a, t) + UnitLength[a]

(* The end of the period of t: a border ends the period before it.         *)
Shunk(a, t) == IF IsBorder(a, t) THEN t ELSE ShunkAfter(a, t)

(* The period that ends at s: ]range[1], range[2]].                        *)
RangeOf(a, s) == <<IF a = "1mo" THEN PlusMonths(s, -1) ELSE s - UnitLength[a], s>>

(* The query of a period: bounds have the type of the column.              *)
InQuery(r, a, s) ==
  Stored(RangeOf(a, s)[1]) < r /\ r <= Stored(RangeOf(a, s)[2])

-----------------------------------------------------------------------------
(* Shards, named by the index of their month or day.                       *)

Shard(t) == IF sharder = "month" THEN MonthOf(t) ELSE t \div Day

(* The first and the last instant of a shard.                              *)
ShardRange(s) ==
  IF sharder = "month"
  THEN LET start == MonthStart[s]
           after == start + 31 * Day
       IN <<start, StartOfMonth(after) - 1>>
  ELSE <<s * Day, (s + 1) * Day - 1>>

(* A month shard is found anew every day.                                  *)
NextDay(t) == t + Day

(* A month is never longer than 31 days.                                   *)
NextByDays(t) == t + (IF sharder = "month" THEN 31 ELSE 1) * Day

(* From an instant of a shard to an instant of the next shard.             *)
NextHop(t) == IF sharder = "month" THEN PlusMonths(t, 1) ELSE t + Day

(* The search of shards goes from the start of the period, hop after hop,  *)
(* to the first instant whose shard starts after the end of the period. No *)
(* calendar has more hops than days.                                       *)
Shards(start, end) ==
  LET hop[k \in Nat] == IF k = 0 THEN start ELSE NextHop(hop[k - 1])
      Past(k) == ShardRange(Shard(hop[k]))[1] > end
      found == CHOOSE k \in 0 .. MonthStart[Len(MonthDays) + 1] \div Day :
                 Past(k) /\ \A j \in 0 .. k - 1 : ~Past(j)
  IN [k \in 1 .. found |-> Shard(hop[k - 1])]

-----------------------------------------------------------------------------
(* An observation is stored; its timestamp gives the period to aggregate   *)
(* at the first level, whose end gives the period of the next level, and   *)
(* so on. The update of a period is computed from rows, one of them being  *)
(* the row just written.                                                   *)

Init ==
  /\ sharder \in {"month", "day"}
  /\ dt \in Horizon
  /\ level = 0
  /\ moment = dt
  /\ row = Stored(dt)

(* The last aggregator follows itself.                                     *)
AggregateAgain ==
  /\ level <= Len(Aggregators)
  /\ level' = level + 1
  /\ moment' = Shunk(Aggregators[(level % Len(Aggregators)) + 1], moment)
  /\ row' = Stored(moment)
  /\ UNCHANGED <<sharder, dt>>

Aggregate ==
  /\ level < Len(Aggregators)
  /\ level' = level + 1
  /\ moment' = Shunk(Aggregators[level + 1], moment)
  /\ row' = Stored(moment)
  /\ UNCHANGED <<sharder, dt>>

Next == Aggregate

Spec == Init /\ [][Next]_vars

-----------------------------------------------------------------------------
Aggregator == Aggregators[level]
Queried == Shards(RangeOf(Aggregator, moment)[1], RangeOf(Aggregator, moment)[2])

(* Types: the cascade stops after the last configured aggregator.          *)
TypeOK ==
  /\ sharder \in {"month", "day"}
  /\ dt \in Horizon
  /\ level \in 0 .. Len(Aggregators)
  /\ moment \in Nat
  /\ row \in Nat

(* The row that makes a period be aggregated again is within the range     *)
(* that is queried, so that the history of the period is not empty.        *)
RowInRange == level > 0 => InQuery(row, Aggregator, moment)

(* The row is in one of the shards that are queried.                       *)
RowInShards ==
  level > 0 =>
    LET queried == Queried
    IN \E i \in DOMAIN queried : queried[i] = Shard(row)

(* The queried shards are a minimal cover: no shard twice, none that lies  *)
(* out of the queried range.                                               *)
MinimalShards ==
  level > 0 =>
    LET queried == Queried
        range == RangeOf(Aggregator, moment)
    IN /\ Cardinality({queried[i] : i \in DOMAIN queried}) = Len(queried)
       /\ \A i \in DOMAIN queried :
            /\ ShardRange(queried[i])[1] <= range[2]
            /\ ShardRange(queried[i])[2] >= range[1]

(* Aggregating through the finer levels leads to the period of the         *)
(* timestamp itself: no observation changes period on its way.             *)
SamePeriod ==
  level > 0 => moment = Shunk(Aggregator, dt)

=============================================================================
