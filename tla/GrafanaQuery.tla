----------------------------- MODULE GrafanaQuery -----------------------------
(***************************************************************************)
(* A query of Grafana for the data points of a metric.  The hub asks       *)
(* Cassandra for each time series of the metric, shard by shard, while the *)
(* Processor stores observations; it merges the series and reduces the     *)
(* points (Downsampling).  Shards are those of Calendar.                   *)
(*                                                                         *)
(* Calendar follows an observation through the aggregators, and this       *)
(* module a query: a behaviour is one or the other, on the same calendar.  *)
(***************************************************************************)
EXTENDS Calendar, Downsampling, SequencesExt

CONSTANTS
  Series,         \* the indexed time series of the metric, and the untagged one
  Observations,   \* <<x, t>>: a client gives an observation of series x time t
  Late,           \* those that the Processor stores after the query has come
  Requests        \* the requests of Grafana

(* Their times are those that Calendar follows.                            *)
ASSUME ObservationsAssumption ==
  /\ Horizon # {} /\ IsFiniteSet(Series) /\ IsFiniteSet(Observations)
  /\ Observations \subseteq Series \X Horizon /\ Late \subseteq Observations
(* A range has months after it, as a timestamp does.                       *)
ASSUME RequestsAssumption ==
  LET Instant == 0 .. MonthStart[Len(MonthDays)] - 1 IN
  /\ Requests # {}
  /\ Requests \subseteq [from : Instant, to : Instant,
                         interval : Int \cup {Absent}, most : Int \cup {Absent}]

VARIABLES
  request,   \* the request under way
  stored,    \* the observations that are stored
  before,    \* those that were stored when the request came
  lists      \* lists[x]: what is left to merge of the answers for series x

queryVars == <<request, stored, before, lists, reductionVars>>
allVars == <<vars, queryVars>>

-----------------------------------------------------------------------------
NothingToReduce ==
  /\ interval = Absent /\ most = Absent /\ roundedUp = FALSE
  /\ points = <<>> /\ next = 1 /\ first = 1 /\ total = 0 /\ size = 0
  /\ groups = <<>>

QueryInit ==
  /\ phase = "waiting"
  /\ request \in Requests
  /\ stored = Observations \ Late
  /\ before = {}
  /\ lists = [x \in Series |-> <<>>]
  /\ NothingToReduce

Store(o) ==
  /\ phase \in {"waiting", "reading"}
  /\ o \in Observations \ stored
  /\ stored' = stored \cup {o}
  /\ UNCHANGED <<request, before, lists, reductionVars>>

(* The code answers MethodNotAllowed to a number that is not positive.     *)
Acceptable(n) == n # Absent => n >= 1

Refuse ==
  /\ phase = "waiting"
  /\ ~Acceptable(request.interval) \/ ~Acceptable(request.most)
  /\ phase' = "refused"
  /\ UNCHANGED <<request, stored, before, lists, interval, most, roundedUp,
                 points, passVars>>

(* The statements of all series and shards are submitted.                  *)
Ask ==
  /\ phase = "waiting"
  /\ Acceptable(request.interval) /\ Acceptable(request.most)
  /\ phase' = "reading"
  /\ before' = stored
  /\ interval' = request.interval
  /\ most' = request.most
  /\ UNCHANGED <<request, stored, lists, roundedUp, points, passVars>>

-----------------------------------------------------------------------------
Asked(t) == Stored(request.from) <= t /\ t <= Stored(request.to)

(* The rows of a partition come by descending timestamps.                  *)
RowsOf(S, s) ==
  LET T == {Stored(t) : t \in {t \in S : Shard(t) = s /\ Asked(Stored(t))}}
  IN CHOOSE f \in [1 .. Cardinality(T) -> T] :
       \A i, j \in DOMAIN f : i < j => f[i] > f[j]

(* The rows of all shards, the last row of each shard first.               *)
AnswerUnreversed(S) ==
  LET shards == Shards(request.from, request.to)
  IN FlattenSeq([k \in DOMAIN shards |-> RowsOf(S, shards[k])])

(* getDataFromTimeRange for a series: the rows of each shard are reversed. *)
AnswerOf(S) ==
  LET shards == Shards(request.from, request.to)
  IN FlattenSeq([k \in DOMAIN shards |-> Reverse(RowsOf(S, shards[k]))])

Of(x, O) == {o[2] : o \in {o \in O : o[1] = x}}

(* All answers are there (Await.result).  Each statement has read at a time*)
(* of its own: it found what was stored before the request, and perhaps    *)
(* what has been stored since.                                             *)
ReadAll ==
  /\ phase = "reading"
  /\ \E seen \in [Series -> SUBSET (stored \ before)] :
       lists' = [x \in Series |-> AnswerOf(Of(x, before \cup seen[x]))]
  /\ phase' = "merging"
  /\ UNCHANGED <<request, stored, before, interval, most, roundedUp, points,
                 passVars>>

(* The lowest of the heads goes first.                                     *)
Lowest(x) ==
  /\ lists[x] # <<>>
  /\ \A y \in Series : lists[y] # <<>> => Head(lists[x]) <= Head(lists[y])

Merge(x) ==
  /\ phase = "merging"
  /\ Lowest(x)
  /\ points' = Append(points, Head(lists[x]))
  /\ lists' = [lists EXCEPT ![x] = Tail(@)]
  /\ UNCHANGED <<request, stored, before, phase, interval, most, roundedUp,
                 passVars>>

(* The rounding of the ratio depends on the numbers of points.             *)
EndMerge ==
  /\ phase = "merging"
  /\ \A x \in Series : lists[x] = <<>>
  /\ phase' = "interval"
  /\ roundedUp' \in BOOLEAN
  /\ UNCHANGED <<request, stored, before, lists, interval, most, points,
                 passVars>>

QueryNext ==
  \/ \E o \in Observations : Store(o)
  \/ Refuse \/ Ask \/ ReadAll
  \/ \E x \in Series : Merge(x)
  \/ EndMerge
  \/ Reduce /\ UNCHANGED <<request, stored, before, lists>>

-----------------------------------------------------------------------------
(* No query in a behaviour that follows an observation.                    *)
NoQuery ==
  /\ phase = "none"
  /\ request = (CHOOSE r \in Requests : TRUE)
  /\ stored = {} /\ before = {} /\ lists = <<>>
  /\ NothingToReduce

CalendarInit ==
  /\ Init
  /\ \/ NoQuery
     \/ QueryInit /\ dt = (CHOOSE t \in Horizon : TRUE)

CalendarNext ==
  \/ phase = "none" /\ Next /\ UNCHANGED queryVars
  \/ phase # "none" /\ QueryNext /\ UNCHANGED vars

CalendarSpec == CalendarInit /\ [][CalendarNext]_allVars

-----------------------------------------------------------------------------
(* Types of an observation on its way and of a query; a request that is    *)
(* refused is not reduced.                                                 *)
CalendarTypeOK ==
  /\ TypeOK
  /\ phase \in {"none", "waiting", "refused", "reading", "merging", "interval",
                "max", "answered"}
  /\ request \in Requests
  /\ before \subseteq stored /\ stored \subseteq Observations
  /\ phase = "none" \/ lists \in [Series -> Seq(Nat)]
  /\ ReductionTypeOK

(* The rows of series x at time t in O, within the range of the request.   *)
Rows(O, x, t) == {o \in O : o[1] = x /\ Stored(o[2]) = t /\ Asked(t)}

SeriesAt(O, t) == Cardinality({x \in Series : Rows(O, x, t) # {}})

(* The points to reduce are in ascending order, as the passes suppose, and *)
(* each observation of the range that was stored when the request came is  *)
(* one of them, once for each series, whatever the shards between the ends *)
(* of the range and the order of reads and insertions.  None is invented.  *)
PointsComplete ==
  phase = "interval" /\ next = 1 =>
    /\ Ascending(points)
    /\ \A t \in {Stored(o[2]) : o \in Observations} \cup {points[k] : k \in DOMAIN points} :
         Cardinality({k \in DOMAIN points : points[k] = t})
           \in SeriesAt(before, t) .. SeriesAt(stored, t)
=============================================================================
