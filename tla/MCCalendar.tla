----------------------------- MODULE MCCalendar -----------------------------
(* Instances of Calendar: a minute of two milliseconds, an hour of two      *)
(* minutes, a day of two hours, and months of every length; timestamps at   *)
(* every tick of six months, the others leave room for the searches.        *)
(* Queries start on the 31st of a month before one of 28 days, at the ends  *)
(* of a month, or after they end; two series have points in common, and     *)
(* two observations are stored late.                                        *)
EXTENDS GrafanaQuery

CONSTANTS x, y

MCUnitLength ==
  [u \in {"1m", "1h", "1d"} |->
     TicksPerMs * (CASE u = "1m" -> 2 [] u = "1h" -> 4 [] u = "1d" -> 8)]

MCMonthDays == <<31, 30, 31, 28, 31, 29, 31, 30, 31, 30>>

MCAggregators == <<"1m", "1h", "1d", "1mo">>

MCHorizon == MonthStart[2] .. MonthStart[8] - 1

March == MonthStart[4]
MCObservations ==
  ({x} \X {March - 6, March - 1, March, March + 20, MonthStart[5]})
    \cup ({y} \X {March - 1, March, March + 100, MonthStart[5] + 1})
MCLate == {<<x, March + 20>>, <<y, March>>}

MCRequests ==
  [from : {March - 6, March - 1, March}, to : {March - 1, MonthStart[5]},
   interval : {Absent, 1, 30}, most : {Absent, 1, 2, 3, 5}]
    \cup [from : {March}, to : {March}, interval : {0, 5}, most : {0, 5}]

=============================================================================
