# A verification project for TSorage

TSorage is a platform for time series: collectors poll devices and submit
messages, an ingestion layer publishes them to Kafka, the Processor stores the
observations in Cassandra and rolls them up by minute, hour and day, and the
hub answers queries on series, tags and values.  It is written in Scala on Akka
Streams.  This directory holds TLA+ modules that model the parts whose
correctness depends on concurrency, ordering, failure and calendar arithmetic,
TLC configurations that check them on small instances, and proofs that TLAPS
checks for every value of the constants.

Paths below are relative to `src/`; `P/` stands for
`processor/src/main/scala/be/cetic/tsorage/processor/`, and `C/`, `I/`, `H/`
and `K/` for the same directories of `collector`, `ingestion`, `hub` and
`common`.

## 1. Inventory

| Component | State | Operations | What makes it correct |
|---|---|---|---|
| Message block (`P/flow/MessageBlock.scala`) | writes under way (8 slots) | validate the type, write all observations of a message as one batch, trigger one first-level update per touched period | a trigger leaves only once its observations are stored; every touched period is triggered |
| Aggregation block (`P/flow/AggregationBlock.scala`, `Utils.scala`, `CassandraWriter.scala`) | merge, write slots (8), read slots (4), buffer (500), Kafka and tag outlets | write an aggregate, announce it, read the history of the next level, loop back | no phantom data, exact aggregates at rest, no wedge of the loop, every level is reached |
| Time aggregators (`P/aggregator/time/`) | none | shunk (end of a period), range | an instant is in the range of its period; finer periods nest in coarser ones |
| Sharders (`K/sharder/`) | none | shard, range, shards | the shards of a period cover it, minimally |
| Derivators (`P/aggregator/raw`, `followup`) | none | count, first, last, min, max, sum, sum of squares | one follow-up for each aggregation; numbers computed from numbers are those of the observations; no empty history |
| Observation block (`P/flow/ObservationBlock.scala`) | - | forward observations to Kafka (its derivator lists are empty) | drains |
| Tag update block (`P/flow/TagUpdateBlock.scala`) | four index tables | insert the tagset of a series, per shard or not, direct or reverse | the indexes name every series that has data |
| Processor main (`P/Processor.scala`) | Kafka consumer without commits | consume, run the graph once | no message of the topic is left behind |
| Collector (`C/Collector.scala`, `source/`, `sink/`, `AMQPFactory.scala`) | durable AMQP buffer | poll, buffer, submit to several sinks, acknowledge | a message leaves the buffer only when its sinks have an answer |
| Modbus sources (`C/source/Modbus*`, `C/modbus/`) | the round under way, sessions, answers to come | start a round, send a request for each extract, time out, match responses | a value is attributed to the register it was read from |
| Ingestion (`I/`) | buffer of the Kafka producer, messages taken from MQTT | HTTP post and its answer, relay from an MQTT broker to Kafka, restarts | what was answered OK reaches the indexes unless a fault takes it |
| Hub search (`H/filter/`) | reads the index tables | evaluate a filter through indexes, list tags and values | agrees with the meaning of the filter on each series |
| Hub static tags (`H/Cassandra.scala`, `H/metric/`) | static tag tables | patch, replace | the tags of the last request stand; discarded tags do not come back |
| Grafana back end (`H/grafana/`) | a query, reading while the Processor stores | refuse a request, read by series and shard, merge, reduce twice | no point lost or invented, points in order, a bounded answer |
| Authentication, Swagger, docs, generated protobuf, unused aggregations (`P/aggregator/data`) | - | - | out of scope |

How they interact: collector -> (HTTP or MQTT) -> ingestion -> Kafka topic `raw`
-> Processor -> Cassandra, and Kafka topics `observations` and `aggregations`;
hub -> Cassandra.  Inside the Processor, blocks are asynchronous Akka islands
connected by bounded channels with backpressure; `mapAsyncUnordered` emits
results in the order of their completion; one block is a cycle closed through
the preferred input of a `MergePreferred`.  Nothing supervises or restarts the
Processor's stream: any failed future ends it.

Behaviours that are hard to test: answers of Cassandra in any order, two
triggers of the same period racing, writes of the same row overtaking each
other, a batch applied in part, a full cycle, a crash with writes under way,
timestamps on and just after the border of a period, months of every length.
`PROJECT.json` lists each of them as a hazard, at its line.

## 2. Modules

| Module | Models | Correspondence |
|---|---|---|
| `Rollup` | the promise to readers: observations are never forgotten, and the aggregates of a period stand for more and more of its observations, until a refreshment of the period that knows less is ordered after one that knows more | abstract, no code; its `overtaken` is `regressed` of `RollupPipeline` |
| `RollupPipeline` | message block, first-level reads, the cascade of the aggregation block, and the rows in Cassandra | `at[m]` is the place of a message, `flight` the statements of batches not applied yet, `raw` the rows of observations; `task[k]` is the current update of a line (one line for each period a message touches), `queue` the two inputs of the writing stage, `rows` the aggregates with their write timestamps, `announced` what Kafka got last |
| `Derivators` | the numbers that the derivators compute from observations, and from the numbers of the level below | over the sets of `RollupPipeline`: `Raw` are the raw derivators, `FollowUp` the others, `Numbers` the rows that a follow-up reads |
| `AggregationLoop` | where updates sit in the bounded cycle of the aggregation block, and who lets them move | `loc[t]` is a stage of the wiring of `createGraph`, `Capacity` the slots and buffers, `outlet` the side channels |
| `Calendar` | time aggregators, sharders, the bounds of the queries, the truncation of timestamps by Cassandra | one step of `Next` is one level of the cascade; dates are ticks since the first month |
| `Downsampling` | the two reductions of the data points of a Grafana query | `interval` and `most` are fields of the request, `points` what a pass of `handleInterval` or `handleMaxDataPoints` folds over, `first`, `total` and `size` its temporary list and `intervalSize`, `groups` the points made so far |
| `GrafanaQuery` | a query of Grafana, from the refusal of numbers to the answer, beside the insertions of the Processor | `before` and `stored` are the rows when the query came and now, `lists` what is left of the answers for each series; its shards are those of `Calendar`, its reductions those of `Downsampling`, both of which it extends |
| `TagIndex` | the validation of messages, their writes and those of their aggregates, what both report to the tag update block, and its four tables | `at[m]` is the place of a message, `due`, `writing` and `aggregates` are its aggregates to come, submitted and stored; `feed` holds the `ShardedTagsetUpdate`s on their way, `pending` the rows that the four flows have to insert; `running` is whether the graph of `main` runs, `cut` the writes that its failure interrupted; `Squeezed[s]` is `s.distinct` |
| `Ingestion` | how messages reach the Processor of `TagIndex`, which it extends | `answer[r]` is the progress of an HTTP request, `producing` the buffer of the producer behind the interface, `relaying` what the stream took from MQTT, `gone` what a fault took |
| `StaticTags` | the hub's patches and replacements of static tags, and the writes they submit | `phase[r]` and `unsent[r]` are the progress of a request through `setStaticTagset` and `updateStaticTagset`, `flight` the `executeAsync` not applied yet, `cells` and `tomb` the rows and the deletion of a partition with their write timestamps, `view` the reverse table |
| `Search` | the hub's search for time series, beside `StaticTags` and the insertions of the Processor | `plan` is what `eval` will read and keep, `step`, `metrics`, `got`, `candidates` the progress of the statements, `found` the union of the terms done |
| `Submission` | the collector from its sources to the ingestion layer: durable queue, broadcast to the sinks, answers, zipped acknowledgements, restarts | `queue`, `unacked`, `acking` and `acked` are where the broker and the channel have a message; `working[i]` the requests of sink `i`, `ready[i]` what it offers to the `ZipN`, its head being in the inlet of the zip and the rest in the buffer of `mapAsyncUnordered`; `taken[i]` and `refused[i]` what the target of the sink did with it |
| `ModbusPoll` | a Modbus source over TCP, RTU over TCP, or a serial line, with its slaves | `delayed` is the buffer of one tick, `next` the iterator of `mapConcat`, `current` the slot of `mapAsync(1)`, `open` the sessions that `sendRequest` started and nobody cancelled, `pending` and `line` what the slaves have to answer and what they answered, `readings` the messages |
| `*_proofs` | theorems of the module of the same name; those of `Ingestion_proofs` are about `TagIndex` and `Ingestion`, of `Search_proofs` about `StaticTags` and `Search`, of `GrafanaQuery_proofs` about `Calendar`, `Downsampling` and `GrafanaQuery`, and of `RollupPipeline_proofs` about `RollupPipeline` and `Derivators` | |
| `Recursion` | lemmas: least elements, induction and recursion over sets whose elements have a weight | no code |
| `MC*` | instances for TLC | |

`RollupPipeline` takes the periods as a constant (`Shunk`) and assumes only that
they nest (`NestingAssumption`); `Calendar` models how the code computes them,
and `PeriodsNest` and `CascadeKeepsPeriod` prove that those nest.  It also takes
for granted that each update has one follow-up, which `AggregationLoop` proves
from the tables of derivators (`FollowedUpOnce`), and that the numbers of a level
can stand for its observations, which `Derivators` states (`FollowUpExact`).  `AggregationLoop` gives up
the data to count places; `RollupPipeline` gives up the capacities of the
channels to follow the data, and keeps the slots that limit concurrency.

`Search` extends `StaticTags`: the steps of both interleave.  Its rows of dynamic
tags are inserted one by one and in any order, which is all that `TagIndex` lets a
reader observe.

`Calendar` follows one observation and `GrafanaQuery` one query: a behaviour of
`CalendarSpec` is one or the other, on the same calendar.  Requests and
observations are within the calendar of the instance, with months around them, as
every `LocalDateTime` is.  `Ingestion` composes
the entry points with the Processor: its `Fail` is what a message of the wrong
encoding does to it, and its `Crash` what happens by itself.

Abstractions worth knowing:

- One time series and one aggregation.  Series share nothing but slots; all the
  aggregations of a period are computed from one history.
- An observation is its timestamp: the last write at a timestamp wins, as in
  the table.  An aggregate is the set of observations behind it; `count` is its
  cardinality, and what stands for a wrong set is a wrong aggregate.
- In `Derivators` doubles are integers: rounding is left out.  An empty history,
  on which `minBy` throws, gives `Undefined`.
- A read fixes its answer when it starts.  A read that fixes it later behaves
  like one that starts later, so nothing is lost.
- The statements of an unlogged batch are applied one by one.  Cassandra applies
  those of one partition together: the model allows more.
- The driver stamps writes with a monotonic clock, and a row keeps the write of
  latest stamp (`LandWrite`); reads and writes use LOCAL_QUORUM, so that a read
  sees every acknowledged write.
- A crash loses what is in memory; writes that were submitted may be applied
  later or never.  It also stands for the failure of a stage, which ends the
  stream for good, followed by a restart of the process.
- The merge grabs up to two elements of its preferred input, and one of the
  other when it has nothing left to emit (external: Akka's `MergePreferred`).

- The hub writes and reads at consistency ONE: `StaticTags` takes a single copy
  of each row, so that a read sees what was applied.  Stamps are those of the
  driver, taken to increase from one request to the next (one hub, one clock).
- `reverse_static_tagset` is written by no code in the repository; it is taken for
  a view that Cassandra refreshes later, one metric at a time (external).
- `Search` answers one query; each statement is atomic.  The statements of a
  `union` are executed in the order of the code.
- A data point of `Downsampling` is its timestamp; values are averaged by the same
  code.  `roundedUp` says whether the double nearest to the number of points
  divided by the maximum is above the quotient.  All the statements of a query are
  submitted at once, and each sees the rows stored when it is executed.
- `Ingestion` allows `MaxFaults` failures of the ingestion.  What the authentication
  service answers is free.
- In `TagIndex` and `Ingestion` a failure stops the Processor (`running`), and nothing
  in the code starts it again: `Start` is somebody who does, without fairness.  What
  waits in the topic is skipped then.
- `TagIndex` tells messages of a supported type from the others, and these are
  discarded (`Discard`).  `RollupPipeline` takes messages that passed the validation.
- The text of a shard without its repeated characters is a text of its own, or the
  same one when nothing is repeated (2134-09); it is never that of another shard, for
  which it is too short (`SqueezedAssumption`).
- `TagIndex` gives up the slots of the four flows, which only delay insertions.

- `Submission` names messages by their order and lets the broker deliver the
  oldest first; a queue gets its messages back in their old places (external:
  RabbitMQ).  Messages prefetched by the AMQP source and not yet pulled count as
  queued, which is where a closed channel puts them.  A stage without buffer,
  such as stdout, is pulled when the zip pulls it; `HttpSender` has the slots of
  `mapAsyncUnordered(4)`, to which emitted messages that wait belong, but not the
  one in the inlet of the zip (external: Akka 2.6).  A restart stands for any
  failure of the stream, the death of the process included.

- `ModbusPoll` knows an answer by its request, and whether it is an error or
  garbled.  A frame whose unit, function or length is garbled makes no message,
  as an error does.  Serial bytes reach one open session or another frame by
  frame (two sessions could also share a frame: both would fail).  A slave
  answers as the Modbus protocol says (external, `DataLength`).  The stages after
  the source take what it emits.

## 3. Runs

| Run | Instance | Shows |
|---|---|---|
| `aggregation_loop` | 8 updates, 2 levels, the merge holds 2 and each other stage 1 | `SpareRoom`, `NeverWedged`, and, with fairness, `EveryUpdateHandled` |
| `rollup` | 2 messages (3 observations), 2 levels, the 8 write and 4 read slots of the code, 1 crash | `NoPhantom`, `OwnDataSeen`; an aggregate is wrong at rest only when a read was overtaken (`StaleOnlyIfOvertaken`); Kafka and Cassandra agree (`AnnouncedIsStored`); coarse aggregates know no more than fine ones that were not overtaken (`CoarseBackedByFine`); no read finds an empty history or computes a number that the observations would not give (`FollowUpExact`); every message reaches the coarsest level (`EveryMessageRolledUp`); the pipeline implements `Rollup` (`Grows`) |
| `rollup_stale` | 2 messages, 2 levels, the slots of the code | **violation** of `AccurateAtRest` |
| `rollup_crash` | the same with a crash | **violation** of `TopicOutlivesCrash` |
| `calendar` | a minute of 2 ms, an hour of 2 minutes, a day of 2 hours, months of 28 to 31 days, every millisecond of six months, both sharders, aggregators `1m 1h 1d 1mo`; Grafana requests with 2 series, 2 of their observations being stored late | rows are found by the query that they cause (`RowInRange`), in the shards that are searched (`RowInShards`, `MinimalShards`), and in their own period (`SamePeriod`); a Grafana query loses and invents no point (`PointsComplete`), and averages each of them once and in order (`GroupsInOrder`) |
| `tag_index` | a request with a tagged message in the last minute of a month and a message of an unsupported type, a third message through MQTT; the text of one month has no character twice; 1 fault of the ingestion, 1 crash, and a Processor that may stay down | a row that names a shard leads to an observation or an aggregate stored there, unless its write is under way or a failure cut it (`ShardRowsHaveData`), the shards of the aggregates are indexed (`AggregatesIndexed`), and what was answered OK is found, or discarded for its type, unless a fault took it or the Processor is down (`AcceptedIsFound`) |
| `tag_index_shards` | the tagged message and one over two months, without ingestion or crash | **violation** of `IndicesUpToDate` |
| `search` | 2 metrics, 3 series, 19 filters, time ranges with two, one and no shard; a patch and a replacement of the tags of one metric, a series being indexed | answers to the filters that the API accepts are exact for what does not change during the query (`SteadyExact`); the tags of the last request stand (`LastRequestStands`) and discarded tags stay away (`DiscardedForGood`) while writes land in any order |
| `submission` | 3 messages, 7 configurations with up to two sinks, 2 slots, 3 messages prefetched, 1 restart | every message is in one place (`Accounted`); the first sink, and every HTTP sink beside a direct one, has its answer before the acknowledgement (`AnsweredBeforeAcked`); a restart loses at most `Slots - 1` messages of a slow HTTP sink (`LossIsBounded`); with fairness the stream always goes on (`EveryBufferedSubmitted`) |
| `submission_status` | one HTTP sink | **violation** of `EmittedOnceTaken` |
| `modbus` | the three kinds of source, four layouts of two extracts, 2 ticks, 1 fault | messages are built from the answer to their own request, except on a serial line after a time-out or failure (`OwnAnswer`), and from the right registers when extracts are separate (`RightRegisters`); rounds end (`RoundsEnd`) |
| `modbus_timeout` | a serial source, 1 tick, no fault | **violation** of `OneAtATime` |

Bounds.  The cycle of `aggregation_loop` has nine places, counting the one for
an admitted update; eight updates are enough to fill all the places the merge
lets them have, and the mutant that admits at once wedges it.  In the roll-up
runs two messages share their first period and touch two periods of the same
hour, which is what it takes for two triggers and two follow-ups of one cell to
race; the slots are those of the code, more than these updates fill (a full cycle is
the subject of `aggregation_loop`).  One crash reaches each stage, and two of its
writes may land after the restart.  A third level, or a third message, beside a
crash is more than the checker does in minutes: for them stand the theorems.  In `Calendar` the ratios of the units are the smallest with proper
nesting, and the months have every length in several orders (31 before 28, 31
before 29, 30 before 31).  The queries start six ticks before the end of a month of 31
days, at its last tick, or at the first tick of the month of 28 days that follows,
and end before that month or at its end: the ranges hold one shard, several or
only part of one, and some end before they start.  The numbers of a request are absent, refused (0), or
smaller and larger than the number of points and the gaps between them; with one
interval and five maxima each pass closes lists of one and of several points.  Two
late observations are one for each series, one of them at a timestamp that the
other series has.
In `rollup` the values have both signs and the latest is neither the least
nor the greatest, so that no two aggregations agree by chance.
In `tag_index` the request has two messages, so that one can be forgotten, of a
supported type and of another one, and the message from MQTT may make the Processor
fail at any point of the others.  The text of one month is squeezed to itself, that
of the other to another text.
In `search` the filters take every case of `eval`, with and without a metric;
those that ask for all the series are executed, but `SteadyExact` says nothing of
them, since the API documents that they are not accepted.
The patch and the replacement give different values to one tag, and the
replacement discards another, so that the writes of each can land before, between
and after the statements of the other and of the query.  Two shards are enough
for a union.
Two slots and three messages are enough in `submission` for two HTTP sinks to be
zipped out of step, to fill their slots, and to be restarted with a message
acknowledged that one of them still sends; the configurations have each kind of
sink alone, as first and as second.

In `modbus` two extracts are neighbours, or far apart, or at one address of two
units, or of two functions: each case of `Separate`, and of its negation.  Two
ticks let the answers of one round reach the next one.

Fairness.  Each Akka stage is an actor that its dispatcher keeps scheduling, and
each Cassandra future completes (a failure is a crash): weak fairness of each
stage in `AggregationLoop`, of the steps of each message and line in
`RollupPipeline`.  Nothing is assumed of the client that sends messages, of the
writes left behind by a crash, or of crashes.  In `TagIndex` the steps of the
Processor as a whole are weakly fair while it runs, which is enough since each of them happens
at most once for each thing there is to do; in `Ingestion` so are the sendings of
the producer, which Kafka's client retries until they succeed or are given up
(a fault).  Clients, the answers of the authentication service, the relay from
MQTT, faults, and the start of a Processor that is down are not fair.  `StaticTags` and `Search` state
safety only.  In `Submission` the steps of the submission stream as a whole are
weakly fair: they are bounded, and a partner that does not answer makes a request
fail (a restart) or a connection break.  Sources, breaks and restarts need not
happen.  In `ModbusPoll` the steps of the source, its timer included, are weakly
fair as a whole; ticks, slaves and faults are not.  The queries of `GrafanaQuery` state safety only.  Deadlock is checked in the runs of `AggregationLoop` and
`RollupPipeline`; the others really stop: the cascade of `Calendar` at the last
aggregator and its queries when they are answered, `TagIndex` and `Ingestion` when the indexes are written, `Search` when the query and
the requests are answered, `Submission` when all messages are acknowledged, or,
without sinks, delivered, and `ModbusPoll` after the last tick (its bound).

Findings.

- *An aggregate can stay wrong.*  `mapAsyncUnordered(4)` (`P/flow/Utils.scala:40`,
  `P/flow/AggregationBlock.scala:77`) lets two histories of the same period be
  answered out of order, and the older one be written last, under a later
  timestamp.  One message with observations in two minutes of an hour is enough.
  `StaleOnlyIfOvertaken` says that nothing else makes an aggregate wrong, and
  `Grows` that nothing else makes one lose an observation.
- *A restart skips the messages that wait in the topic.*  `Consumer.plainSource`
  without commits, and the `earliest` line commented out
  (`P/Processor.scala:57,65`), against the purpose of the `raw` topic in
  `docs/source/principles/architecture.inc:73`.
- *The indexes of a shard miss series that have data in it.*
  `P/flow/MessageBlock.scala:97` calls `distinct` on the text of each shard, so
  that a message reports `2019-` for `2019-11`; only the ends of the periods that
  are aggregated report real shards.
- *A message that the ingestion layer refuses is acknowledged.*
  `HttpSender.process` forwards it whatever the status of the response
  (`C/sink/HttpSender.scala:42`), where its documentation (line 48) promises to
  wait until it has been taken into account.
- *Two sessions on a serial line.*  A Modbus request that times out is not withdrawn:
  `firstCompletedOf` (`C/source/ModbusRTUSource.scala:131`) drops its future, and its
  session goes on reading from the port beside the next one, where
  `docs/source/userguide/collecting_ts.inc:149` says that one request is submitted at a
  time, and line 165 that the deadline terminates the session.  The late answer may
  then be taken for the answer to the next request of the same unit and function:
  `OwnAnswer` without its condition on `givenUp` shows it.

Met while reading, and not stated as findings:

- Timestamps are parsed down to the nanosecond (`K/json/MessageJsonSupport.scala:17`),
  the period is found from them (`P/flow/MessageBlock.scala:65`), and the row is
  stored in milliseconds (`P/database/Cassandra.scala:143`).  An observation in
  the first millisecond after a border is counted in the period that starts there
  and stored in the one before; the history of its period may be empty, which
  `FirstRawDerivator.scala:29` does not survive.  With `TicksPerMs = 2` the instance of
  `Calendar` shows it: `RowInRange` fails.
- `Extract.matches` (`C/modbus/Extract.scala:39`) adds register addresses to lengths
  in bytes, and never looks at the unit of the extract.  With a `uint32` at 100 and
  a `uint16` at 102 of one unit, the answer to the first also makes a wrong message
  for the second; with equal addresses of two units each answer makes both
  messages.  An answer about coils or contacts has one bit for each and is too
  short for any extract of up to eight registers, so that those are asked for and
  never reported, where `C/modbus/ModbusFunction.scala:14` promises responses that
  "cover the extracts".
- A response with an invalid CRC is built and dropped
  (`C/modbus/comm/ModbusResponseFactory.scala:61`; besides, the two arrays are
  compared by identity): garbled data are used.
- The functions of a round follow one another as coils, input registers, contacts,
  holding registers (`C/modbus/Extract.scala:92`), not in the order of the user
  guide.
- A query for all the series of a shard binds a marker that its statement does not
  have (`H/filter/TimeSeriesManager.scala:241`) and fails (`ReadAllOfShard`); so
  does a query whose time range has no shard (line 183, `Ask`).
- A filter that asks for all the series, such as a negation alone, is executed
  (`ReadAll`), and its answer has whatever meets it, where the API documentation
  (`hub/src/main/resources/api-docs/swagger.yaml:138-145`) announces no series or a
  response 405.  `SteadyExact` leaves these filters out (`Selective`).
- `H/filter/TagManager.scala:72` reads the names of dynamic tags from the table of
  static tags; line 132 binds two values to the one marker of its statement.
- `P/ProcessorConfig.scala:38` defines the removal of forbidden tags, which nothing
  calls.
- A message that comes through MQTT is written to Kafka in protobuf
  (`I/sink/KafkaSinkFactory.scala:45`), and parsed as JSON by the Processor
  (`P/Processor.scala:66`): the exception ends its stream (`Choke`), and with it
  whatever was under way, messages answered OK included, where
  `docs/source/userguide/ingesting_ts.inc:69` describes the interface as a way in.
- The HTTP interfaces answer OK when the messages are in the buffer of the producer,
  and never look at the outcome (`I/http/HTTPInterface.scala`, `TSHTTPInterface.scala:25`):
  `AcceptedIsFound` needs its exception for `gone`.
- The reductions of Grafana queries truncate averages to whole numbers, even those
  of a single point (`H/grafana/backend/GrafanaBackend.scala`).  The point that
  exceeds an interval belongs to the list it closes, so that an average may lie in
  the middle of a gap, where the comment before the function (lines 172 and 174)
  promises points an interval apart, each made of the points within one interval; and the first point is always
  alone, because the previous timestamp starts at 0.
- The second reduction closes its first list after one point and the last one at the
  last point, so that three points and a maximum of one make two points.  The comment
  before `handleMaxDataPoints` says "at most roughly" (lines 102 and 119) and "maximum"
  (line 112), and `swagger.yaml:559` "Maximum number of data points to return".
  `AnswerBounded` says how far it goes: one point more.
- A message of a type that no support is registered for is answered OK by the
  interface, and discarded by the Processor with a line in its log
  (`P/flow/MessageBlock.scala:110`): `AcceptedIsFound` names it as an exception.
- The zip by position (`C/Collector.scala:74`) acknowledges the message that the
  first sink put in a row.  With several HTTP sinks and nothing else the rows mix
  messages, and a restart may forget messages that the others were sending.
  `LossIsBounded` says how many; one direct sink is enough to prevent it, since it
  makes all sinks go in step (`AnsweredBeforeAcked`).
- An MQTT connection that breaks does not fail the submission stream: the inner
  broadcast (`C/sink/MQTTSender.scala:96`) goes on with its other output, so that
  every later message is acknowledged without being published (`MqttBreaks`).
- Without any sink nothing is acknowledged, and the channel stops when it has
  delivered what it may prefetch (`C/Collector.scala:65`).

## 4. Proofs

All are checked by TLAPS from the assumptions named in the modules.

- `AggregationLoop_proofs`.  The inductive invariant is `TypeOK`, `FollowedUp`
  (only updates with a coarser level to come are read for), `WithinCapacity` and
  `SpareRoom`.  `SpareRoom` bounds the load of the cycle by its capacity beside
  the merge, plus one: it is what an admission re-establishes, because the merge
  is then empty, and what every other step keeps.  `NeverWedged` follows: a
  wedged cycle would hold its whole capacity, including the two places of the
  merge, one more than `SpareRoom` allows.  For any number of updates, levels
  and capacities (`MergeAssumption`: at least two places in the merge).
  `SingleFollowUp` proves the tables of derivators by cases.
- `RollupPipeline_proofs`.  `NoPhantom` is inductive with `TypeOK`; the step that
  matters is the start of a read, where `HistoryWithin` uses
  `NestingAssumption`.  `OwnDataSeen` needs `BatchLanded`: a line is under way
  only if the batch of its message is in `raw`.  For any messages, levels,
  nested periods, slots and crashes.

  `FollowersAgree` proves `AnnouncedIsStored`: `StampsOrdered` bounds the stamps
  of a cell by the last one issued for it, and `LatestLands` says that the write with
  that stamp has the value announced, and is in its row or on its way to it
  (`WriteInv`).  `StaleOnlyWhenOvertaken` adds three facts about cells whose reads
  were never overtaken (`SeenInv`): of two writes of a cell the later one knows at
  least as much (`NewerKnowsMore`); every observation of a line is known at the
  levels that the line has passed (`AllSeen`); and whatever is stored is the business
  of some line, done or still to come (`Accounted`).  With nothing to come, the
  last write knows everything.

  `CoarseIsBacked` and `ProcessorGrows` hold for any numbers of slots and crashes.
  `BackedInv` adds to `SeenInv` that what an update or a row of a coarse period stands
  for was in a written row of the finer level when it was read, and that such a row
  loses nothing unless its period was overtaken (`UpdatesBacked`, `RowsBacked`,
  `BackedStays`); hence `CoarseBackedByFine`.  That the specification implements
  `Rollup` (`Grows`) follows from `NewerKnowsMore`: a write that lands and wins is
  newer than the row, and knows as much, unless the cell was overtaken.

  `NumbersAreExact` proves `FollowUpExact`, for any values, any number of
  slots, and crashes.  Its invariant (`FilledInv`) says that the rows that
  are written are exactly those that stand for observations, that a line of a coarse
  level was triggered by a written row of the level below, and that what was read is
  never empty (`Filled`).  The periods of the written rows then part the history of
  the coarse period (`Partitions`, from `NestingAssumption`), and each derivator is
  compared with the raw one on such a partition: extremes by the least and the
  greatest element, sums by induction over the parts (`SubsetInduction`: what holds
  of a set as soon as it holds of it without any of its elements).  Observations are
  ordered by their timestamps (`MomentAssumption`).
- `GrafanaQuery_proofs`, calendar.  For any lengths of units that divide each other
  and any lengths of months (`MonthAssumption`, `HorizonAssumption`): the end of a
  period is the least multiple from the instant on (`ShunkIsCeiling`), or the start of
  the following month (`MonthShunk`), hence `InOwnRange` and `PeriodsNest`, and by
  induction along the cascade `SamePeriod` for any ladder of aggregators each of which
  divides the next one (`NestedCascade`).  With timestamps in whole milliseconds
  `RowInRange` holds as well (`HistoryHasItsRow`).  A hop of the search of shards leads
  to the next shard (`HopToNext`: adding a month keeps the day of the month or takes
  the last one), so that the search ends (`HopsExist`) and returns the shards from the
  first to the last (`ShardsAreConsecutive`); with `OnItsWay`, which says where an
  observation may be, follow `RowInShards` and `MinimalShards`.

- `Ingestion_proofs`.  `ShardRowsHaveData` is inductive once it also speaks of the
  rows to insert and of the updates on their way (`IInv`): whatever names a real shard
  was reported beside the write of an observation or of an aggregate in that shard, and
  that write is under way, done, or cut by a failure (`Writes`), which no step undoes
  (`WritesStay`).  A message that is discarded reports nothing.  For
  any messages, series, shards and crashes.  `AggregatesIndexed` needs the other
  direction (`AllFollowed`): each row of a shard of the aggregates of a stored
  message is in the tables, or is still to come from what is due, reported or
  pending.  Both are proved of `TagIndex` alone (`ShardsLeadToData`,
  `AggregatesAreIndexed`) and behind the entry points, as the run checks them
  (`IngestedShardsLeadToData`, `IngestedAreIndexed`): there a message that the
  Processor cannot read makes it fail without limit (`IndexNext`), and nothing else
  that `Ingestion` does is a step of the indexes (`IngestionSteps`).
  `AcceptedSettles` is the safety part of `AcceptedIsFound`: whenever nothing is
  under way, each message of a request that was answered OK is found, was discarded for
  its type, has no value to write, or was taken by a fault or by a failure of the
  Processor.  Three invariants carry it: a message leaves the producer for Kafka or
  through a fault (`AllSent`), only messages of an unsupported type are discarded
  (`Sorted`), and the reports of a message that the Processor has taken are on their
  way or in the tables (`AllReported`).
- `Search_proofs`, static tags.  The invariant follows a value from its request to its
  cell.  `Flights` and `Cells`: a write is older than every statement of the
  requests that began after its request had finished, so that the tombstone of
  such a replacement covers it whenever it lands (`NothingComesBack`).  `Landed`:
  an update that was submitted and did not fail is under way, or its cell is later
  than all the statements of the requests that had finished before, and comes from
  a request that had not (`LastOneStands`).  For any metrics, tags and requests.
- `Search_proofs`, search.  `AnswersAreExact` proves `SteadyExact` for any filter, any
  series, shards and static tags, whatever is written during the query.  First `eval`:
  the plan for a filter accepts only what the filter accepts, and misses nothing that
  it accepts.  `Accepts` and `Eval` are recursive functions over filters; they are
  unfolded by induction on `Weight`, a measure that is smaller for the parts of a
  filter and for what it is rewritten to (`FilterAssumption`; such a measure exists for
  all filters).  Then the progress of a query: the tags in view of a steady metric are
  its tags (`SteadyView`); the rest of the plan asks for nothing else (`PlanSound`);
  what has been read and found is asked for (`Sound`); and what is asked for has been
  found, or a term to come will find it (`Complete`).  TLC agreed on that invariant
  before it was proved.  `SearchImplementsStaticTags`: queries do not disturb
  `StaticTags`, so that its theorems hold beside them (`TagsStandDuringSearch`).
- `Submission_proofs`.  `TypeOK` says that acknowledgements are for delivered
  messages, which needs `Accounted` and `OfferedOnce`: the first sink offers a
  message once.  The other sinks may offer messages acknowledged long ago, so
  nothing like it holds for them.  `AckedMeansAnswered` needs `OffersAreAnswered`,
  and `InStep`: beside a direct stage all sinks are idle, or all hold the same
  message, because that stage has demand only when the zip has used its last
  one.  For any configurations, messages, slots and restarts.

  `LossesAreBounded` proves `LossIsBounded` for any number of HTTP sinks.  Without a
  direct stage sinks get out of step, and `SlowSinks` says how far: each has been given
  as many messages as the others, and when all the slots of one are busy, one of them
  holds a message that is not acknowledged (`KeepsSlot`), so that a failure never loses
  all of them.

- `ModbusPoll_proofs`.  `OnePlace`: a session has one request, and its answer is in
  one place.  `Awaited`: on a serial line without time-outs or failures everything
  under way belongs to the session that is waited for.  With `IdentifiedIsOwn` (the
  indexes of the requests of a function grow, so that an identifier leads to one
  request) they make `OwnAnswer` inductive.  `RightRegisters` then follows from
  arithmetic on `Matches` and `Separate` (`MatchedIsRight`).  `WaitsForOne`
  counts requests: what is out beside the current request was left
  by a session given up or failed (`LeftBounded`), so that there is one for each of
  those, and one more: how far the code is from `OneAtATime`.  For any extracts, ticks and faults.

- `GrafanaQuery_proofs`, reductions.  About `ReduceSpec`: any data points in ascending
  order, any positive interval and maximum, either rounding of the ratio.  `Ordered`
  keeps the sum of the open list between its number of points times the first and
  times the last one (`Sums`), which gives the averages their places, and carries the
  order of the points over to the next pass (`Apart`).  `Reduced` follows the size of
  the open list (`Sizes`) for `IntervalsApart`, and for the maximum compares the number
  of closed lists with the share of the points seen (`Shares`): `n` points make at
  most `most + 1` lists, however the ratio is rounded.
- `GrafanaQuery_proofs`, queries.  `PointsAreComplete` proves `PointsComplete` for any
  series, observations, shards and requests.  The reversed rows of a shard ascend, and
  the shards follow one another, so that the answer for a series has each of its rows
  once and in order (`AnswerIs`; `FlattenStrict` by induction over the shards, and
  `ShardOfRow`: the truncation to milliseconds never moves a row to another shard).
  While the lists are merged, some set of rows of each series, between those stored
  before the request and those stored now, is split between the points and the lists,
  and no list starts before the last point (`Merging`): as many points have a timestamp
  as series have given their row of that timestamp.  At the end of the merge a query is
  in an initial state of `ReduceSpec`, so that `GroupsInOrder` and `AnswerBounded` hold
  of every query (`QueriesKeepOrder`, `QueriesAreBounded`).  `CalendarIsKept`: queries
  leave the calendar alone, and its theorems hold of `CalendarSpec`.

Induction over data.  A recursive definition or a fold is a function that is proved to
exist, and then unfolded step by step (`WeightRecursion`, `FixedExists`); induction is
stated about a set of numbers, filters or subsets instead of a predicate (`Induction`,
`WeightInduction`, `SubsetInduction`), each of them from the existence of a least
element.  No definition of the models is taken on trust.

Only model-checked: liveness (`EveryUpdateHandled`, `EveryMessageRolledUp`,
`AcceptedIsFound`, `EveryBufferedSubmitted`, `RoundsEnd`), which TLAPS does not
reach, and the counterexamples of the five runs that expect a violation.  Every
invariant and every safety property of a step that a passing run checks is a theorem.

## 5. Not modelled, and what could follow

Not modelled, because it has no state or no decision that a model would check:

- The observation block: its lists of derivators are empty, so that it forwards what
  it gets.
- Values of several types in one series.  Each type has a column of its own, which is
  null in the rows of the other types: reading the history of a series with two types
  fails (`P/datatype/DataTypeSupport.scala:77`), and the count of one type overwrites
  that of the other.
- Encodings (JSON, protobuf, Modbus frames, CRC and data formats, the conversion of
  Datadog messages): data, covered by the unit tests of the repository.
- The lists of metrics, tag names and tag values of the hub, and the search and
  annotation routes of Grafana: single reads.
- The hub's mock of authentication, documentation pages and the older aggregations
  (`P/aggregator/data`), which nothing reaches.
- The only JavaScript of the repository is the vendored and minified Swagger UI under
  `hub/src/main/resources/swagger-ui`: third-party code that draws the pages of the
  API documentation and takes no part in what TSorage does.

Five hazards have no property: an AMQP source that acknowledges before it decodes,
updates of static tags whose failure nobody sees, messages acknowledged after an MQTT
connection broke, and two kinds of queries that always fail.  No text of the
repository says what these should do; the modules model what they do.

What could be proved next: how `AggregationLoop` and `RollupPipeline` fit together.

## 6. How to run

    tlc -config MCRollup.cfg MCRollupPipeline      # and so on: see PROJECT.json
    tlapm RollupPipeline_proofs.tla
