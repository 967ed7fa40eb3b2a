------------------------------- MODULE TagIndex -------------------------------
(***************************************************************************)
(* The indexes of dynamic tags. While the message block writes the         *)
(* observations of a message, it reports the tagset of the message to the  *)
(* tag update block, once for each value; the aggregates computed from     *)
(* them report it again, while they are written. The tag update block      *)
(* inserts rows in four tables, by four flows that do not wait for each    *)
(* other. All rows are inserted with their whole key: inserting one twice  *)
(* changes nothing. Messages of a type that the Processor does not support *)
(* are discarded, and a failure stops the Processor until somebody starts  *)
(* it again.                                                               *)
(***************************************************************************)
EXTENDS Naturals

CONSTANTS
  Message,
  Supported,  \* messages of a supported type
  SeriesOf,   \* SeriesOf[m]: the time series of message m
  Names,      \* Names[x]: the names of the dynamic tags of series x
  Shard,      \* texts of shards, such as 2019-11
  ObsShards,  \* ObsShards[m]: shards of the observations of m
  AggShards,  \* AggShards[m]: shards of the ends of the periods of m
  Squeezed,   \* Squeezed[s]: the text of s, each character kept once
  MaxCrashes  \* bound on the number of crashes

Series == {SeriesOf[m] : m \in Message}
Text == Shard \cup {Squeezed[s] : s \in Shard}

(* A text that loses a character is too short for a shard; 2134-09 and     *)
(* its like lose none.                                                     *)
ASSUME SqueezedAssumption ==
  \A s \in Shard : Squeezed[s] \in Shard => Squeezed[s] = s
ASSUME ShardsAssumption ==
  /\ Supported \subseteq Message
  /\ ObsShards \in [Message -> SUBSET Shard]
  /\ AggShards \in [Message -> SUBSET Shard]
  /\ MaxCrashes \in Nat

VARIABLES
  running,     \* whether the Processor runs
  at,          \* at[m]: where message m is
  raw,         \* messages whose observations are stored
  due,         \* <<m, s>>: m will have an aggregate in shard s
  writing,     \* <<m, s>>: this aggregate is submitted and not applied yet
  aggregates,  \* <<m, s>>: this aggregate is stored
  feed,        \* tag updates on their way to the tag update block
  pending,     \* rows to insert
  tables,      \* rows of the four tables
  cut,         \* history: <<m, s>>: a failure interrupted a write of m in s
  crashes      \* number of crashes

dataVars == <<raw, due, writing, aggregates, cut>>
rowVars == <<feed, pending, tables>>
vars == <<running, at, dataVars, rowVars, crashes>>

Place == {"unsent", "topic", "discarded", "writing", "stored", "lost"}

Update == [series : Series, shard : Text]
Report(m, text) == [series |-> SeriesOf[m], shard |-> text]

(* What a tag update inserts: the tagset itself, and a row for each tag.   *)
DirectRows(u) ==
  {<<"dynamic_tagset", u.series>>, <<"sharded_dynamic_tagset", u.series, u.shard>>}
ReverseRows(u) ==
  {<<"reverse_dynamic_tagset", u.series, n>> : n \in Names[u.series]}
    \cup {<<"reverse_sharded_dynamic_tagset", u.series, u.shard, n>> :
            n \in Names[u.series]}
Rows(u) == DirectRows(u) \cup ReverseRows(u)

Init ==
  /\ running = TRUE
  /\ at = [m \in Message |-> "unsent"]
  /\ raw = {} /\ due = {} /\ writing = {} /\ aggregates = {} /\ cut = {}
  /\ feed = {} /\ pending = {} /\ tables = {}
  /\ crashes = 0

GoTo(m, place) == at' = [at EXCEPT ![m] = place]

Send(m) ==
  /\ at[m] = "unsent"
  /\ GoTo(m, "topic")
  /\ UNCHANGED <<running, dataVars, rowVars, crashes>>

(* The shards that a message reports: distinct is called on the text of a  *)
(* shard, not on the list of shards.                                       *)
Reports(m) == {Report(m, Squeezed[s]) : s \in ObsShards[m]}

(* Reports leave before the type of the message is validated.              *)
DiscardReported(m) ==
  /\ at[m] = "topic" /\ m \notin Supported
  /\ GoTo(m, "discarded")
  /\ feed' = feed \cup Reports(m)
  /\ UNCHANGED <<running, dataVars, pending, tables, crashes>>

(* A message of an unsupported type is discarded, and only logged.         *)
Discard(m) ==
  /\ at[m] = "topic" /\ m \notin Supported
  /\ GoTo(m, "discarded")
  /\ UNCHANGED <<running, dataVars, rowVars, crashes>>

(* Messages are not validated.                                             *)
ConsumeAnyType(m) ==
  /\ at[m] = "topic"
  /\ GoTo(m, "writing")
  /\ feed' = feed \cup Reports(m)
  /\ UNCHANGED <<running, dataVars, pending, tables, crashes>>

(* A message is broadcast to the writer and to the conversion into tag     *)
(* updates: neither waits for the other.                                   *)
Consume(m) ==
  /\ at[m] = "topic" /\ m \in Supported
  /\ GoTo(m, "writing")
  /\ feed' = feed \cup Reports(m)
  /\ UNCHANGED <<running, dataVars, pending, tables, crashes>>

(* The observations are stored; the aggregates of their periods follow.    *)
Stored(m) ==
  /\ at[m] = "writing"
  /\ GoTo(m, "stored")
  /\ raw' = raw \cup {m}
  /\ due' = due \cup ({m} \X AggShards[m])
  /\ UNCHANGED <<running, writing, aggregates, cut, rowVars, crashes>>

(* Aggregates go through the conversion of messages.                       *)
AggregateSqueezed(m, s) ==
  /\ <<m, s>> \in due
  /\ due' = due \ {<<m, s>>}
  /\ writing' = writing \cup {<<m, s>>}
  /\ feed' = feed \cup {Report(m, Squeezed[s])}
  /\ UNCHANGED <<running, at, raw, aggregates, cut, pending, tables, crashes>>

(* An aggregate is broadcast to the writer and to the conversion into a    *)
(* tag update, which has the shard of its own timestamp.                   *)
Aggregate(m, s) ==
  /\ <<m, s>> \in due
  /\ due' = due \ {<<m, s>>}
  /\ writing' = writing \cup {<<m, s>>}
  /\ feed' = feed \cup {Report(m, s)}
  /\ UNCHANGED <<running, at, raw, aggregates, cut, pending, tables, crashes>>

WriteAggregate(d) ==
  /\ d \in writing
  /\ writing' = writing \ {d}
  /\ aggregates' = aggregates \cup {d}
  /\ UNCHANGED <<running, at, raw, due, cut, rowVars, crashes>>

Split(u) ==
  /\ u \in feed
  /\ feed' = feed \ {u}
  /\ pending' = pending \cup Rows(u)
  /\ UNCHANGED <<running, at, dataVars, tables, crashes>>

Insert(row) ==
  /\ row \in pending
  /\ pending' = pending \ {row}
  /\ tables' = tables \cup {row}
  /\ UNCHANGED <<running, at, dataVars, feed, crashes>>

BeingWritten == {m \in Message : at[m] = "writing"}
ShardsOf(M) == UNION {{m} \X ObsShards[m] : m \in M}

(* The stream fails, and what it has in memory is lost. Statements that    *)
(* were submitted may still be applied, all or some of them.               *)
Fail ==
  /\ running /\ running' = FALSE
  /\ at' = [m \in Message |->
              IF at[m] \in {"writing", "stored"} THEN "lost" ELSE at[m]]
  /\ \E M \in SUBSET BeingWritten, A \in SUBSET writing :
       /\ raw' = raw \cup M
       /\ aggregates' = aggregates \cup A
       /\ cut' = cut \cup ShardsOf(BeingWritten \ M) \cup (writing \ A)
  /\ \E R \in SUBSET pending : tables' = tables \cup R
  /\ due' = {} /\ writing' = {} /\ feed' = {} /\ pending' = {}

Crash ==
  /\ crashes < MaxCrashes
  /\ crashes' = crashes + 1
  /\ Fail

(* Somebody starts the Processor again: it consumes what is sent from then *)
(* on, and skips what waits in the topic.                                  *)
Start ==
  /\ ~ running /\ running' = TRUE
  /\ at' = [m \in Message |-> IF at[m] = "topic" THEN "lost" ELSE at[m]]
  /\ UNCHANGED <<dataVars, rowVars, crashes>>

Progress ==
  /\ running
  /\ \/ \E m \in Message :
           \/ Discard(m) \/ Consume(m) \/ Stored(m)
           \/ \E s \in Shard : Aggregate(m, s)
     \/ \E d \in writing : WriteAggregate(d)
     \/ \E u \in feed : Split(u)
     \/ \E row \in pending : Insert(row)

Next == (\E m \in Message : Send(m)) \/ Progress \/ Crash \/ Start

(* A Processor that runs goes on. Nothing makes anybody start it again.    *)
Spec == Init /\ [][Next]_vars /\ WF_vars(Progress)

-----------------------------------------------------------------------------
TypeOK ==
  /\ running \in BOOLEAN
  /\ at \in [Message -> Place]
  /\ raw \cup BeingWritten \subseteq Supported
  /\ due \cup writing \cup aggregates \cup cut \subseteq Supported \X Shard
  /\ feed \subseteq Update
  /\ pending \cup tables \subseteq UNION {Rows(u) : u \in Update}
  /\ crashes \in 0 .. MaxCrashes

(* Some observation or aggregate of series x is stored in shard s.         *)
HasData(x, s) ==
  \E d \in ShardsOf(raw) \cup aggregates : SeriesOf[d[1]] = x /\ d[2] = s

(* Some write of series x in shard s is under way, or a failure cut it.    *)
MayHaveData(x, s) ==
  \E d \in ShardsOf(BeingWritten) \cup writing \cup cut :
    SeriesOf[d[1]] = x /\ d[2] = s

(* The tables that are sharded send no search to a shard in which nothing  *)
(* of the series is stored: a row that names a shard leads to data, unless *)
(* their write is still under way, beside the report, or was interrupted   *)
(* by a failure of the Processor.                                          *)
ShardRowsHaveData ==
  \A x \in Series : \A s \in Shard :
    (<<"sharded_dynamic_tagset", x, s>> \in tables
       \/ \E n \in Names[x] :
            <<"reverse_sharded_dynamic_tagset", x, s, n>> \in tables) =>
      HasData(x, s) \/ MayHaveData(x, s)

(* The indexes of the metric and of the tags of a message name its series. *)
Found(m) ==
  /\ <<"dynamic_tagset", SeriesOf[m]>> \in tables
  /\ \A n \in Names[SeriesOf[m]] :
       <<"reverse_dynamic_tagset", SeriesOf[m], n>> \in tables

AtRest == due = {} /\ feed = {} /\ pending = {}

(* At rest, the indexes of the shards of the aggregates of a message name  *)
(* its series, by its metric and by each of its tags.                      *)
AggregatesIndexed ==
  AtRest => \A m \in Message : at[m] = "stored" =>
    \A s \in AggShards[m] : Rows(Report(m, s)) \subseteq tables

(* At rest, a series is indexed in every shard that holds observations of  *)
(* it.                                                                     *)
IndicesUpToDate ==
  AtRest => \A m \in Message : at[m] = "stored" =>
    \A s \in ObsShards[m] : Rows(Report(m, s)) \subseteq tables
=============================================================================
