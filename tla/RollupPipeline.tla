--------------------------- MODULE RollupPipeline ---------------------------
(***************************************************************************)
(* The Processor: messages of the raw topic are written to Cassandra, and  *)
(* each of them makes the aggregates of its periods be computed again,     *)
(* level after level, from what the database holds.  Reads and writes are  *)
(* asynchronous, several at a time, and complete in any order.             *)
(*                                                                         *)
(* One time series and one aggregation: series share nothing but slots,    *)
(* and the aggregations of a series are computed from the same history.    *)
(* An observation is its timestamp (a later observation at the same        *)
(* timestamp overwrites it), and an aggregate is the set of observations   *)
(* it was computed from: "count" is the cardinality of that set.           *)
(***************************************************************************)
EXTENDS Naturals, FiniteSets, Sequences

CONSTANTS
  Message,      \* the messages that clients will send
  Stamps,       \* Stamps[m]: the timestamps of the observations of m
  Moment,       \* timestamps of observations and ends of periods
  Levels,       \* number of configured time aggregators
  Shunk,        \* Shunk[l][t]: end of the period of t for aggregator l
  WriteSlots,   \* writes that may be under way in a writing stage
  ReadSlots,    \* reads that may be under way in a reading stage
  MaxCrashes    \* bound on the number of crashes

Level == 1 .. Levels

ASSUME LevelsAssumption == Levels \in Nat \ {0}
ASSUME StampsAssumption == Stamps \in [Message -> (SUBSET Moment) \ {{}}]
ASSUME ShunkAssumption == Shunk \in [Level -> [Moment -> Moment]]
(* A moment and the end of its period at some level have the same period   *)
(* at the next level.                                                      *)
ASSUME NestingAssumption ==
  \A l \in Level : l + 1 \in Level =>
    \A t \in Moment : Shunk[l + 1][Shunk[l][t]] = Shunk[l + 1][t]
ASSUME SlotsAssumption ==
  WriteSlots \in Nat \ {0} /\ ReadSlots \in Nat \ {0} /\ MaxCrashes \in Nat

(* A period of the series. A row of the table of aggregates is a cell.     *)
Cell == Level \X Moment

(* The distinct periods of the first level that a message touches: each of *)
(* them starts a line of updates, one per level.                           *)
FirstShunks(m) == {Shunk[1][t] : t \in Stamps[m]}
Line == {k \in Message \X Moment : k[2] \in FirstShunks(k[1])}

VARIABLES
  at,         \* at[m]: where message m is
  flight,     \* observations submitted to Cassandra and not applied yet
  raw,        \* observations in the database
  task,       \* task[k]: the current update of line k
  queue,      \* updates on their way to the writing stage, in order
  issued,     \* issued[c]: number of writes of cell c issued by the driver
  rows,       \* rows[c]: the stored aggregate of c, and its write timestamp
  announced,  \* announced[c]: last aggregate of c sent to Kafka
  regressed,  \* history: cells whose writes were issued out of order
  crashes     \* number of crashes

msgVars == <<at, flight, raw>>
rowVars == <<issued, rows, announced, regressed>>
vars == <<at, flight, raw, task, queue, issued, rows, announced, regressed,
          crashes>>

Place == {"unsent", "topic", "writing", "stored", "skipped", "lost"}

(* An update waits for its reading stage, has its history read, waits for  *)
(* the writing stage, is submitted, is applied; then the line goes on. A   *)
(* crash loses it, or leaves behind a write that may still be applied.     *)
Stage == {"none", "due", "reading", "queued", "writing", "landed", "done",
          "orphan", "lost"}

Input == {"first", "loop"}

Init ==
  /\ at = [m \in Message |-> "unsent"]
  /\ flight = {}
  /\ raw = {}
  /\ task = [k \in Line |-> [stage |-> "none", level |-> 1, shunk |-> k[2],
                             value |-> {}, stamp |-> 0]]
  /\ queue = [i \in Input |-> <<>>]
  /\ issued = [c \in Cell |-> 0]
  /\ rows = [c \in Cell |-> [value |-> {}, stamp |-> 0]]
  /\ announced = [c \in Cell |-> {}]
  /\ regressed = {}
  /\ crashes = 0

CellOf(k) == <<task[k].level, task[k].shunk>>
InputOf(k) == IF task[k].level = 1 THEN "first" ELSE "loop"
GoTo(k, s) == task' = [task EXCEPT ![k].stage = s]

-----------------------------------------------------------------------------
(* Messages.                                                               *)

Send(m) ==
  /\ at[m] = "unsent"
  /\ at' = [at EXCEPT ![m] = "topic"]
  /\ UNCHANGED <<flight, raw, task, queue, rowVars, crashes>>

(* A message takes a writing slot and all its observations are submitted,  *)
(* as one batch that is not logged: they are applied one by one.           *)
Consume(m) ==
  /\ at[m] = "topic"
  /\ Cardinality({n \in Message : at[n] = "writing"}) < WriteSlots
  /\ at' = [at EXCEPT ![m] = "writing"]
  /\ flight' = flight \cup ({m} \X Stamps[m])
  /\ UNCHANGED <<raw, task, queue, rowVars, crashes>>

LandObservation(m, t) ==
  /\ <<m, t>> \in flight
  /\ flight' = flight \ {<<m, t>>}
  /\ raw' = raw \cup {t}
  /\ UNCHANGED <<at, task, queue, rowVars, crashes>>

StartLines(m) ==
  task' = [k \in Line |->
             IF k[1] = m THEN [task[k] EXCEPT !.stage = "due"] ELSE task[k]]

(* The trigger leaves without waiting for the whole batch.                 *)
AckMessageEarly(m) ==
  /\ at[m] = "writing"
  /\ at' = [at EXCEPT ![m] = "stored"]
  /\ StartLines(m)
  /\ UNCHANGED <<flight, raw, queue, rowVars, crashes>>

(* Once the batch is acknowledged, every period of the first level that    *)
(* the message touches is to be aggregated.                                *)
AckMessage(m) ==
  /\ at[m] = "writing"
  /\ \A t \in Stamps[m] : <<m, t>> \notin flight
  /\ at' = [at EXCEPT ![m] = "stored"]
  /\ StartLines(m)
  /\ UNCHANGED <<flight, raw, queue, rowVars, crashes>>

-----------------------------------------------------------------------------
(* Updates.                                                                *)

(* The aggregates of a period are computed from the whole series.          *)
WholeHistory(l, s) ==
  IF l = 1 THEN raw
  ELSE UNION {rows[<<l - 1, d>>].value : d \in Moment}

(* Every level is computed from the observations.                          *)
HistoryOfObservations(l, s) == {t \in raw : Shunk[l][t] = s}

(* What the database holds of a period: its observations for the first     *)
(* level, the aggregates of the previous level for the others.             *)
History(l, s) ==
  IF l = 1 THEN {t \in raw : Shunk[1][t] = s}
  ELSE UNION {rows[<<l - 1, d>>].value : d \in {d \in Moment : Shunk[l][d] = s}}

(* One reading stage serves the first level, another one all the others.   *)
Reading(i) == {k \in Line : task[k].stage = "reading" /\ InputOf(k) = i}

(* The query is sent, and its answer fixed, before the answer is back.     *)
StartRead(k) ==
  /\ task[k].stage = "due"
  /\ Cardinality(Reading(InputOf(k))) < ReadSlots
  /\ task' = [task EXCEPT ![k].stage = "reading",
                          ![k].value = History(task[k].level, task[k].shunk)]
  /\ UNCHANGED <<msgVars, queue, rowVars, crashes>>

(* mapAsyncUnordered: whichever answer is back first goes on.              *)
FinishRead(k) ==
  /\ task[k].stage = "reading"
  /\ GoTo(k, "queued")
  /\ queue' = [queue EXCEPT ![InputOf(k)] = Append(@, k)]
  /\ UNCHANGED <<msgVars, rowVars, crashes>>

(* The update at the head of either input is submitted to Cassandra, under *)
(* the next timestamp of the driver, and sent to Kafka.                    *)
IssueWrite(k) ==
  LET c == CellOf(k) IN
  /\ task[k].stage = "queued"
  /\ queue[InputOf(k)] # <<>> /\ Head(queue[InputOf(k)]) = k
  /\ Cardinality({j \in Line : task[j].stage \in {"writing", "landed"}}) < WriteSlots
  /\ queue' = [queue EXCEPT ![InputOf(k)] = Tail(@)]
  /\ issued' = [issued EXCEPT ![c] = @ + 1]
  /\ task' = [task EXCEPT ![k].stage = "writing", ![k].stamp = issued[c] + 1]
  /\ announced' = [announced EXCEPT ![c] = task[k].value]
  /\ regressed' =
       regressed \cup {d \in {c} : ~ (announced[c] \subseteq task[k].value)}
  /\ UNCHANGED <<msgVars, rows, crashes>>

Landed(k) == GoTo(k, IF task[k].stage = "orphan" THEN "lost" ELSE "landed")

(* The write that is applied last wins.                                    *)
LandWriteLast(k) ==
  /\ task[k].stage \in {"writing", "orphan"}
  /\ Landed(k)
  /\ rows' = [rows EXCEPT ![CellOf(k)] =
                [value |-> task[k].value, stamp |-> task[k].stamp]]
  /\ UNCHANGED <<msgVars, queue, issued, announced, regressed, crashes>>

(* Cassandra keeps, of the writes of a row, the one of latest timestamp.   *)
LandWrite(k) ==
  /\ task[k].stage \in {"writing", "orphan"}
  /\ Landed(k)
  /\ rows' = [rows EXCEPT ![CellOf(k)] =
                IF @.stamp < task[k].stamp
                THEN [value |-> task[k].value, stamp |-> task[k].stamp]
                ELSE @]
  /\ UNCHANGED <<msgVars, queue, issued, announced, regressed, crashes>>

Continue(k) ==
  task' = [task EXCEPT ![k] =
             [stage |-> "due", level |-> @.level + 1,
              shunk |-> Shunk[@.level + 1][@.shunk], value |-> {}, stamp |-> 0]]

(* No update is followed up.                                               *)
AckWriteEnds(k) ==
  /\ task[k].stage = "landed"
  /\ GoTo(k, "done")
  /\ UNCHANGED <<msgVars, queue, rowVars, crashes>>

(* The coarsest level too is followed up.                                  *)
AckWriteAlways(k) ==
  /\ task[k].stage = "landed"
  /\ task' = [task EXCEPT ![k].level = @ + 1, ![k].stage = "due"]
  /\ UNCHANGED <<msgVars, queue, rowVars, crashes>>

(* Kafka gets the aggregates that are written, once they are.              *)
AckWriteAnnounces(k) ==
  /\ task[k].stage = "landed"
  /\ IF task[k].level < Levels THEN Continue(k) ELSE GoTo(k, "done")
  /\ announced' = [announced EXCEPT ![CellOf(k)] = task[k].value]
  /\ UNCHANGED <<msgVars, queue, issued, rows, regressed, crashes>>

(* An acknowledged write triggers the update of the next level, if any.    *)
AckWrite(k) ==
  /\ task[k].stage = "landed"
  /\ IF task[k].level < Levels THEN Continue(k) ELSE GoTo(k, "done")
  /\ UNCHANGED <<msgVars, queue, rowVars, crashes>>

-----------------------------------------------------------------------------
(* The stream fails (any failed write or read does it), or the process     *)
(* dies, and it is started again. No offset was ever committed and the     *)
(* group starts at the end of the topic: messages that were waiting there  *)
(* are skipped. What was submitted to Cassandra may still be applied.      *)
Crash ==
  /\ crashes < MaxCrashes
  /\ crashes' = crashes + 1
  /\ at' = [m \in Message |->
              CASE at[m] = "topic"   -> "skipped"
                [] at[m] = "writing" -> "lost"
                [] OTHER -> at[m]]
  /\ task' = [k \in Line |->
                CASE task[k].stage \in {"due", "reading", "queued", "landed"} ->
                       [task[k] EXCEPT !.stage = "lost"]
                  [] task[k].stage = "writing" ->
                       [task[k] EXCEPT !.stage = "orphan"]
                  [] OTHER -> task[k]]
  /\ queue' = [i \in Input |-> <<>>]
  /\ UNCHANGED <<flight, raw, rowVars>>

AtRest ==
  /\ \A m \in Message : at[m] \in {"unsent", "stored", "skipped", "lost"}
  /\ \A k \in Line : task[k].stage \in {"none", "done", "orphan", "lost"}

(* Everything sent is processed: the stream waits for more.                *)
Idle ==
  /\ AtRest
  /\ UNCHANGED vars

MessageStep(m) ==
  \/ Consume(m) \/ AckMessage(m)
  \/ \E t \in Stamps[m] : LandObservation(m, t)

LineStep(k) ==
  \/ StartRead(k) \/ FinishRead(k) \/ IssueWrite(k)
  \/ LandWrite(k) \/ AckWrite(k)

Next ==
  \/ \E m \in Message : Send(m) \/ MessageStep(m)
  \/ \E k \in Line : LineStep(k)
  \/ Crash
  \/ Idle

(* The stages are kept scheduled and Cassandra answers each query: what    *)
(* can go on does.  Nothing is assumed of a write left behind by a crash.  *)
Fairness ==
  /\ \A m \in Message : WF_vars(at[m] # "lost" /\ MessageStep(m))
  /\ \A k \in Line : WF_vars(task[k].stage # "orphan" /\ LineStep(k))

Spec == Init /\ [][Next]_vars
FairSpec == Spec /\ Fairness

-----------------------------------------------------------------------------
Task == [stage : Stage, level : Level, shunk : Moment,
         value : SUBSET Moment, stamp : Nat]

(* Types: in particular no line goes beyond the last configured level.     *)
TypeOK ==
  /\ at \in [Message -> Place]
  /\ flight \subseteq Message \X Moment
  /\ raw \subseteq Moment
  /\ task \in [Line -> Task]
  /\ queue \in [Input -> Seq(Line)]
  /\ issued \in [Cell -> Nat]
  /\ rows \in [Cell -> [value : SUBSET Moment, stamp : Nat]]
  /\ announced \in [Cell -> SUBSET Moment]
  /\ regressed \subseteq Cell
  /\ crashes \in 0 .. MaxCrashes

(* The moments of a period.                                                *)
Covers(c) == {t \in Moment : Shunk[c[1]][t] = c[2]}

(* No aggregate, stored, announced or on its way, stands for an            *)
(* observation that is not in the database, or that is out of its period.  *)
NoPhantom ==
  /\ \A c \in Cell : rows[c].value \subseteq raw \cap Covers(c)
  /\ \A c \in Cell : announced[c] \subseteq raw \cap Covers(c)
  /\ \A k \in Line : task[k].value \subseteq raw \cap Covers(CellOf(k))

(* Updates of a line that no crash has lost and that is not over.          *)
Acked == {"due", "reading", "queued", "writing", "landed"}

(* A line starts when all the observations of its message are stored.      *)
BatchLanded ==
  /\ \A m \in Message : at[m] = "writing" =>
        \A t \in Stamps[m] : <<m, t>> \in flight \/ t \in raw
  /\ \A m \in Message : at[m] = "stored" => Stamps[m] \subseteq raw
  /\ \A k \in Line : task[k].stage \in Acked => at[k[1]] = "stored"

(* An aggregate of the first level stands at least for the observations of *)
(* the message that triggered it.                                          *)
OwnDataSeen ==
  \A k \in Line :
    task[k].level = 1 /\ task[k].stage \in Acked \ {"due"}
      => Stamps[k[1]] \cap Covers(CellOf(k)) \subseteq task[k].value

Accurate(c) == rows[c].value = raw \cap Covers(c)

(* Once all is processed, each aggregate stands for all the observations   *)
(* of its period (the documented process: retrieve, aggregate, store).     *)
AccurateAtRest == AtRest /\ crashes = 0 => \A c \in Cell : Accurate(c)

Within(d, c) == d[1] <= c[1] /\ (d = c \/ Shunk[c[1]][d[2]] = c[2])

(* Reordered reads are the only way to a wrong aggregate: the cell, or a   *)
(* finer one inside it, had a write issued after one that knew more.       *)
StaleOnlyIfOvertaken ==
  AtRest /\ crashes = 0 =>
    \A c \in Cell : Accurate(c) \/ \E d \in regressed : Within(d, c)

(* Who follows the Kafka topic of the aggregations ends up with what the   *)
(* database holds.                                                         *)
AnnouncedIsStored ==
  AtRest /\ crashes = 0 => \A c \in Cell : rows[c].value = announced[c]

(* What a coarse aggregate stands for, the finer ones stand for too,       *)
(* unless one of them was overtaken and lost it afterwards.                *)
CoarseBackedByFine ==
  \A c \in Cell : c[1] > 1 =>
    \A t \in rows[c].value :
      LET fine == <<c[1] - 1, Shunk[c[1] - 1][t]>>
      IN  t \in rows[fine].value \/ fine \in regressed

(* The restart of the Processor leaves no message of the topic behind.     *)
TopicOutlivesCrash == \A m \in Message : at[m] # "skipped"

(* Unless a crash interferes, every message is rolled up at every level:   *)
(* at the end the coarsest aggregates have been computed after it.         *)
EveryMessageRolledUp ==
  \A k \in Line :
    (at[k[1]] = "topic") ~>
      (crashes > 0 \/ (task[k].stage = "done" /\ task[k].level = Levels
                        /\ rows[CellOf(k)].stamp >= task[k].stamp))

(* What readers may rely on.                                               *)
Promise ==
  INSTANCE Rollup WITH stored <- raw,
                       summary <- [c \in Cell |-> rows[c].value],
                       overtaken <- regressed

(* Each step of the database is one of the promise, with several reads and *)
(* writes under way and after crashes, which may leave writes behind: the  *)
(* aggregates of a period lose an observation only once a write of theirs  *)
(* was issued after one that knew more.                                    *)
Grows == Promise!Spec
=============================================================================
