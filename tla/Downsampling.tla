----------------------------- MODULE Downsampling -----------------------------
(***************************************************************************)
(* How the hub reduces the data points of a metric before it answers       *)
(* Grafana: a first pass averages the points of an interval, a second one  *)
(* averages them again when there are more than a maximum.  Each pass goes *)
(* once over the points, fills a temporary list, and closes it into one    *)
(* point.                                                                  *)
(*                                                                         *)
(* A data point is its timestamp; values are averaged likewise.  The list  *)
(* is known by the index of its first point and the sum of its timestamps. *)
(***************************************************************************)
EXTENDS Integers, Sequences

CONSTANT Absent   \* an optional field that the request does not have

ASSUME AbsentAssumption == Absent \notin Int

VARIABLES
  phase,      \* how far the query is
  interval,   \* intervalMs of the request
  most,       \* maxDataPoints of the request
  roundedUp,  \* the double nearest to the ratio of the points is above it
  points,     \* the data points, in the order in which a pass sees them
  next,       \* the index of the point that the pass is about to see
  first,      \* the index of the first point of the temporary list
  total,      \* the sum of the timestamps of the temporary list
  size,       \* intervalSize: time since the last list was closed
  groups      \* the lists that the pass has closed: bounds and average

passVars == <<next, first, total, size, groups>>
reductionVars == <<phase, interval, most, roundedUp, points, passVars>>

-----------------------------------------------------------------------------
(* The list has room for one interval from the last point of the previous  *)
(* list, or from the epoch, where previousTimestamp starts.                *)
SizeWith(p) == size + (points[p] - IF p = 1 THEN 0 ELSE points[p - 1])

IntervalFull(p) == SizeWith(p) > interval

(* i % ratio < 1, where i = p - 1 and ratio is the number of points divided*)
(* by the maximum, as a double.  When that is above the quotient, a whole  *)
(* number of ratios is just above i, and the list is closed one point late.*)
ShareFull(p) ==
  LET rest == ((p - 1) * most) % Len(points) IN
  IF roundedUp /\ (p - 1) * most >= Len(points)
  THEN 0 < rest /\ rest <= most
  ELSE rest < most

(* The last points stay in the list.                                       *)
TakeUntilFull(full) ==
  /\ next <= Len(points)
  /\ next' = next + 1
  /\ IF full
     THEN /\ groups' = Append(groups,
                 [first |-> first, last |-> next,
                  time |-> (total + points[next]) \div (next - first + 1)])
          /\ first' = next + 1
          /\ total' = 0
          /\ size' = 0
     ELSE /\ total' = total + points[next]
          /\ size' = SizeWith(next)
          /\ UNCHANGED <<first, groups>>

(* A point enters the list.  A full list, or that of the last point, is    *)
(* closed: its average is truncated to a whole number.                     *)
Take(full) ==
  /\ next <= Len(points)
  /\ next' = next + 1
  /\ IF full \/ next = Len(points)
     THEN /\ groups' = Append(groups,
                 [first |-> first, last |-> next,
                  time |-> (total + points[next]) \div (next - first + 1)])
          /\ first' = next + 1
          /\ total' = 0
          /\ size' = 0
     ELSE /\ total' = total + points[next]
          /\ size' = SizeWith(next)
          /\ UNCHANGED <<first, groups>>

(* The closed lists are the data points of what follows.                   *)
Replace(following) ==
  /\ next > Len(points)
  /\ phase' = following
  /\ points' = [k \in DOMAIN groups |-> groups[k].time]
  /\ next' = 1 /\ first' = 1 /\ total' = 0 /\ size' = 0
  /\ groups' = <<>>
  /\ UNCHANGED <<interval, most, roundedUp>>

SkipTo(following) ==
  /\ phase' = following
  /\ UNCHANGED <<interval, most, roundedUp, points, passVars>>

-----------------------------------------------------------------------------
(* handleInterval, if the request has an interval.                         *)

SkipInterval == phase = "interval" /\ interval = Absent /\ SkipTo("max")

TakeForInterval ==
  /\ phase = "interval" /\ interval # Absent
  /\ next <= Len(points) /\ Take(IntervalFull(next))
  /\ UNCHANGED <<phase, interval, most, roundedUp, points>>

EndInterval == phase = "interval" /\ interval # Absent /\ Replace("max")

(* handleMaxDataPoints, if there are more points than the maximum.         *)

Few == most # Absent => Len(points) <= most

SkipMax == phase = "max" /\ Few /\ SkipTo("answered")

TakeForMax ==
  /\ phase = "max" /\ ~Few
  /\ next <= Len(points) /\ Take(ShareFull(next))
  /\ UNCHANGED <<phase, interval, most, roundedUp, points>>

EndMax == phase = "max" /\ ~Few /\ Replace("answered")

Reduce ==
  \/ SkipInterval \/ TakeForInterval \/ EndInterval
  \/ SkipMax \/ TakeForMax \/ EndMax

Ascending(s) == \A i, j \in DOMAIN s : i <= j => s[i] <= s[j]

(* From any data points in ascending order, and any accepted request.      *)
ReduceInit ==
  /\ phase = "interval"
  /\ interval \in (Nat \ {0}) \cup {Absent}
  /\ most \in (Nat \ {0}) \cup {Absent}
  /\ roundedUp \in BOOLEAN
  /\ points \in Seq(Nat) /\ Ascending(points)
  /\ next = 1 /\ first = 1 /\ total = 0 /\ size = 0
  /\ groups = <<>>

ReduceSpec == ReduceInit /\ [][Reduce]_reductionVars

-----------------------------------------------------------------------------
Group == [first : Nat \ {0}, last : Nat \ {0}, time : Nat]

ReductionTypeOK ==
  /\ interval \in (Nat \ {0}) \cup {Absent}
  /\ most \in (Nat \ {0}) \cup {Absent}
  /\ roundedUp \in BOOLEAN
  /\ points \in Seq(Nat)
  /\ next \in 1 .. Len(points) + 1
  /\ first \in 1 .. next
  /\ total \in Nat
  /\ size \in Nat
  /\ groups \in Seq(Group)

(* The end of the last list that was closed, or 0.                         *)
Closed(k) == IF k = 0 THEN 0 ELSE groups[k].last

(* The lists closed so far are consecutive, the temporary list follows     *)
(* them, and nothing is left in it at the end: each data point is averaged *)
(* once, and the averages stay within their points, in ascending order     *)
(* (GrafanaBackend.scala:105 and 177 suppose that the points are sorted,   *)
(* and the second pass gets them from the first).                          *)
GroupsInOrder ==
  /\ Ascending(points)
  /\ first = Closed(Len(groups)) + 1
  /\ next > Len(points) => first = next
  /\ \A k \in DOMAIN groups :
       /\ groups[k].first = Closed(k - 1) + 1
       /\ groups[k].first <= groups[k].last
       /\ groups[k].last < next
       /\ points[groups[k].first] <= groups[k].time
       /\ groups[k].time <= points[groups[k].last]

(* The first points of the lists are one interval apart from the end of the*)
(* previous list at most, and the last one is further, but for the last    *)
(* list: two points of the answer are never for one interval.              *)
IntervalsApart ==
  phase = "interval" /\ interval # Absent =>
    \A k \in DOMAIN groups \ {1} :
      LET from == points[Closed(k - 1)] IN
      /\ \A p \in groups[k].first .. groups[k].last - 1 :
           points[p] - from <= interval
      /\ groups[k].last < Len(points) => points[groups[k].last] - from > interval

(* The answer has one point more than maxDataPoints at most, whatever the  *)
(* rounding of the ratio: the first point is a list of its own.  "At most  *)
(* roughly" (GrafanaBackend.scala:102), and not the maximum that           *)
(* GrafanaBackend.scala:112 and swagger.yaml:559 announce.                 *)
AnswerBounded ==
  /\ IntervalsApart
  /\ phase = "answered" /\ most # Absent => Len(points) <= most + 1
=============================================================================
