--------------------------- MODULE Ingestion_proofs ---------------------------
(***************************************************************************)
(* Theorems about TagIndex, about the same indexes behind the entry points *)
(* of Ingestion, and about the way between an entry point and the indexes, *)
(* for any messages, shards, requests and failures.                        *)
(***************************************************************************)
EXTENDS Ingestion, TLAPS

(* What happens to the indexes behind the entry points: a message that the *)
(* Processor does not understand makes it fail as well.                    *)
IndexNext == Next \/ (Fail /\ UNCHANGED crashes)

(* Whatever clients, the broker, the producer and faults do, the indexes   *)
(* see no other step.                                                      *)
LEMMA IngestionSteps ==
  /\ IngestionInit => Init
  /\ [IngestionNext]_allVars => [IndexNext]_vars
<1>1. IngestionInit => Init
  BY DEF IngestionInit
<1>2. ASSUME IngestionNext PROVE [IndexNext]_vars
  <2>1. CASE \E r \in Request : Post(r) \/ Reject(r) \/ Accept(r)
    BY <2>1 DEF Post, Reject, Accept, vars
  <2>2. CASE Producing
    BY <2>2 DEF Producing, Produce, IndexNext, Next
  <2>3. CASE \E m \in Message : Take(m) \/ Relay(m) \/ GiveUp(m)
    BY <2>3 DEF Take, Relay, GiveUp, IndexNext, Next, vars
  <2>4. CASE StopInterface \/ RestartStream
    BY <2>4 DEF StopInterface, RestartStream, vars
  <2>5. CASE Processing
    BY <2>5 DEF Processing, Choke, IndexNext, Next
  <2>6. CASE Crash \/ Start
    BY <2>6 DEF IndexNext, Next
  <2> QED BY <1>2, <2>1, <2>2, <2>3, <2>4, <2>5, <2>6 DEF IngestionNext
<1>3. ASSUME UNCHANGED allVars PROVE [IndexNext]_vars
  BY <1>3 DEF allVars
<1> QED BY <1>1, <1>2, <1>3

(* Without entry points there are fewer steps.                             *)
LEMMA NextIsIndexNext == [Next]_vars => [IndexNext]_vars
BY DEF IndexNext

-----------------------------------------------------------------------------

(* The shards of the observations of the messages of a set.                *)
LEMMA ShardsOfMember ==
  ASSUME NEW M, NEW m, NEW s
  PROVE  <<m, s>> \in ShardsOf(M) <=> m \in M /\ s \in ObsShards[m]
BY DEF ShardsOf

(* Those of supported messages are shards of supported messages, and a     *)
(* larger set has more of them.                                            *)
LEMMA ShardsOfType ==
  /\ \A M \in SUBSET Supported : ShardsOf(M) \subseteq Supported \X Shard
  /\ \A M, N : ShardsOf(M \cup N) = ShardsOf(M) \cup ShardsOf(N)
<1>1. ASSUME NEW M \in SUBSET Supported PROVE ShardsOf(M) \subseteq Supported \X Shard
  <2> SUFFICES ASSUME NEW m \in M PROVE {m} \X ObsShards[m] \subseteq Supported \X Shard
    BY DEF ShardsOf
  <2> QED BY ShardsAssumption
<1> QED BY <1>1 DEF ShardsOf

(* The type invariant is inductive: rows are only ever made from reports   *)
(* of messages, and only supported messages are written.                   *)
LEMMA TypeIsInductive ==
  /\ Init => TypeOK
  /\ TypeOK /\ [IndexNext]_vars => TypeOK'
<1> USE ShardsAssumption DEF dataVars, rowVars, GoTo, BeingWritten
<1>1. Init => TypeOK
  BY DEF Init, TypeOK, Place
<1>2. ASSUME NEW m \in Message, NEW s \in Shard
      PROVE  Report(m, s) \in Update /\ Report(m, Squeezed[s]) \in Update
  BY DEF Report, Update, Series, Text
<1>3. ASSUME TypeOK, [IndexNext]_vars PROVE TypeOK'
  <2> USE <1>3 DEF TypeOK, Place
  <2>1. ASSUME NEW m \in Message, Send(m) \/ Discard(m) PROVE TypeOK'
    BY <2>1 DEF Send, Discard
  <2>2. ASSUME NEW m \in Message, Consume(m) PROVE TypeOK'
    <3>1. Reports(m) \subseteq Update
      BY <1>2 DEF Reports
    <3> QED BY <2>2, <3>1 DEF Consume
  <2>3. ASSUME NEW m \in Message, Stored(m) PROVE TypeOK'
    <3>1. m \in Supported /\ {m} \X AggShards[m] \subseteq Supported \X Shard
      BY <2>3 DEF Stored
    <3> QED BY <2>3, <3>1 DEF Stored
  <2>4. ASSUME NEW m \in Message, NEW s \in Shard, Aggregate(m, s) PROVE TypeOK'
    BY <2>4, <1>2 DEF Aggregate
  <2>5. ASSUME NEW d \in writing, WriteAggregate(d) PROVE TypeOK'
    BY <2>5 DEF WriteAggregate
  <2>6. ASSUME NEW u \in feed, Split(u) PROVE TypeOK'
    BY <2>6 DEF Split
  <2>7. ASSUME NEW row \in pending, Insert(row) PROVE TypeOK'
    BY <2>7 DEF Insert
  <2>8. CASE Crash \/ (Fail /\ UNCHANGED crashes)
    <3>1. crashes' \in 0 .. MaxCrashes /\ Fail
      BY <2>8 DEF Crash
    <3>2. at' \in [Message -> Place] /\ running' = FALSE
          /\ {m \in Message : at'[m] = "writing"} = {}
      BY <3>1 DEF Fail
    <3>3. PICK M \in SUBSET BeingWritten, A \in SUBSET writing :
            /\ raw' = raw \cup M
            /\ aggregates' = aggregates \cup A
            /\ cut' = cut \cup ShardsOf(BeingWritten \ M) \cup (writing \ A)
      BY <3>1 DEF Fail
    <3>4. ShardsOf(BeingWritten \ M) \subseteq Supported \X Shard
      BY ShardsOfType
    <3>5. due' = {} /\ writing' = {} /\ feed' = {} /\ pending' = {}
          /\ tables' \subseteq pending \cup tables
      BY <3>1 DEF Fail
    <3> QED BY <3>1, <3>2, <3>3, <3>4, <3>5
  <2>9. CASE Start
    BY <2>9 DEF Start
  <2>10. CASE UNCHANGED vars
    BY <2>10 DEF vars
  <2> QED BY <2>1, <2>2, <2>3, <2>4, <2>5, <2>6, <2>7, <2>8, <2>9, <2>10
          DEF IndexNext, Next, Progress
<1> QED BY <1>1, <1>3

(* Every state of the indexes has the types of the tables.                 *)
THEOREM TypeCorrect == Spec => []TypeOK
BY TypeIsInductive, NextIsIndexNext, PTL DEF Spec

(* So has every state of the indexes behind the entry points.              *)
THEOREM IngestionTypeCorrect == IngestionSpec => []TypeOK
BY TypeIsInductive, IngestionSteps, PTL DEF IngestionSpec

(* Every write of a message in a shard: applied, under way, or cut by a    *)
(* failure.                                                                *)
Writes ==
  ShardsOf(raw) \cup aggregates \cup ShardsOf(BeingWritten) \cup writing \cup cut

(* Some write of series x in shard s was submitted.                        *)
Known(x, s) == \E d \in Writes : SeriesOf[d[1]] = x /\ d[2] = s

ShardedRows(x, s) ==
  {<<"sharded_dynamic_tagset", x, s>>}
    \cup {<<"reverse_sharded_dynamic_tagset", x, s, n>> : n \in Names[x]}

Backed(R) == \A x \in Series, s \in Shard :
               R \cap ShardedRows(x, s) # {} => Known(x, s)

(* Reports that name a shard leave together with a write there, and the    *)
(* rows come from those reports.                                           *)
IInv ==
  /\ TypeOK
  /\ \A u \in feed : u.shard \in Shard => Known(u.series, u.shard)
  /\ Backed(pending) /\ Backed(tables)

(* The rows of a report that name a shard name the shard of that report.   *)
LEMMA RowsOfReport ==
  ASSUME NEW u \in Update, NEW x \in Series, NEW s \in Shard,
         Rows(u) \cap ShardedRows(x, s) # {}
  PROVE  u.series = x /\ u.shard = s
<1>1. PICK r \in Rows(u) : r \in ShardedRows(x, s)
  OBVIOUS
<1>2. CASE r = <<"sharded_dynamic_tagset", x, s>>
  BY <1>1, <1>2 DEF Rows, DirectRows, ReverseRows
<1>3. CASE \E n \in Names[x] : r = <<"reverse_sharded_dynamic_tagset", x, s, n>>
  BY <1>1, <1>3 DEF Rows, DirectRows, ReverseRows
<1> QED BY <1>1, <1>2, <1>3 DEF ShardedRows

(* No write is forgotten: it is applied, or a failure cuts it.             *)
LEMMA WritesStay ==
  ASSUME TypeOK, [IndexNext]_vars
  PROVE  Writes \subseteq Writes'
<1> USE DEF dataVars, rowVars, GoTo
<1>1. ASSUME raw \subseteq raw', aggregates \subseteq aggregates',
             BeingWritten \subseteq BeingWritten' \cup raw',
             writing \subseteq writing' \cup aggregates', cut \subseteq cut'
      PROVE  Writes \subseteq Writes'
  <2>1. ShardsOf(raw) \cup ShardsOf(BeingWritten)
          \subseteq ShardsOf(raw') \cup ShardsOf(BeingWritten')
    BY <1>1 DEF ShardsOf
  <2>2. Writes' = ShardsOf(raw') \cup aggregates' \cup ShardsOf(BeingWritten')
                    \cup writing' \cup cut'
    BY DEF Writes, ShardsOf
  <2> QED BY <1>1, <2>1, <2>2 DEF Writes
<1>2. ASSUME NEW m \in Message, Send(m) \/ Discard(m) \/ Consume(m)
      PROVE  Writes \subseteq Writes'
  <2>1. BeingWritten \subseteq BeingWritten'
    BY <1>2 DEF Send, Discard, Consume, BeingWritten, TypeOK
  <2> QED BY <1>1, <1>2, <2>1 DEF Send, Discard, Consume
<1>3. ASSUME NEW m \in Message, Stored(m) PROVE Writes \subseteq Writes'
  <2>1. BeingWritten \subseteq BeingWritten' \cup raw'
    BY <1>3 DEF Stored, BeingWritten, TypeOK
  <2> QED BY <1>1, <1>3, <2>1 DEF Stored
<1>4. ASSUME UNCHANGED at PROVE BeingWritten' = BeingWritten
  BY <1>4 DEF BeingWritten
<1>5. ASSUME NEW m \in Message, NEW s \in Shard, Aggregate(m, s)
      PROVE  Writes \subseteq Writes'
  BY <1>1, <1>4, <1>5 DEF Aggregate
<1>6. ASSUME NEW d \in writing, WriteAggregate(d) PROVE Writes \subseteq Writes'
  BY <1>1, <1>4, <1>6 DEF WriteAggregate
<1>7. ASSUME NEW u \in feed, Split(u) PROVE Writes \subseteq Writes'
  BY <1>1, <1>4, <1>7 DEF Split
<1>8. ASSUME NEW row \in pending, Insert(row) PROVE Writes \subseteq Writes'
  BY <1>1, <1>4, <1>8 DEF Insert
<1>9. CASE Crash \/ (Fail /\ UNCHANGED crashes)
  <2>1. PICK M \in SUBSET BeingWritten, A \in SUBSET writing :
          /\ raw' = raw \cup M
          /\ aggregates' = aggregates \cup A
          /\ cut' = cut \cup ShardsOf(BeingWritten \ M) \cup (writing \ A)
    BY <1>9 DEF Crash, Fail
  <2>2. ShardsOf(BeingWritten) = ShardsOf(BeingWritten \ M) \cup ShardsOf(M)
    BY DEF ShardsOf
  <2>3. ShardsOf(raw') = ShardsOf(raw) \cup ShardsOf(M)
    BY <2>1, ShardsOfType
  <2>4. ShardsOf(raw') \cup aggregates' \cup cut' \subseteq Writes'
    BY DEF Writes, ShardsOf
  <2> QED BY <2>1, <2>2, <2>3, <2>4 DEF Writes
<1>10. CASE Start
  <2>1. BeingWritten \subseteq BeingWritten'
    BY <1>10 DEF Start, BeingWritten
  <2> QED BY <1>1, <1>10, <2>1 DEF Start
<1>11. CASE UNCHANGED vars
  BY <1>1, <1>4, <1>11 DEF vars
<1> QED BY <1>2, <1>3, <1>5, <1>6, <1>7, <1>8, <1>9, <1>10, <1>11
        DEF IndexNext, Next, Progress

(* The rows that name a shard come with a write there, whatever step is    *)
(* taken: a report leaves a message, or an aggregate, beside its write.    *)
LEMMA BackedIsInductive ==
  /\ Init => IInv
  /\ IInv /\ [IndexNext]_vars => IInv'
<1> USE DEF IInv, dataVars, rowVars
<1>1. Init => IInv
  BY TypeIsInductive DEF Init, Backed
<1>2. ASSUME IInv, [IndexNext]_vars PROVE IInv'
  <2>1. TypeOK /\ TypeOK'
    BY <1>2, TypeIsInductive
  <2>2. Writes \subseteq Writes'
    BY <1>2, WritesStay
  <2>3. ASSUME NEW x, NEW s, Known(x, s) PROVE Known(x, s)'
    BY <2>2, <2>3 DEF Known
  <2>5. ASSUME feed' \subseteq feed
        PROVE  (\A u \in feed : u.shard \in Shard => Known(u.series, u.shard))'
    BY <1>2, <2>3, <2>5
  <2>6. ASSUME pending' \subseteq pending PROVE Backed(pending)'
    BY <1>2, <2>3, <2>6 DEF Backed
  <2>7. ASSUME tables' \subseteq tables \cup pending PROVE Backed(tables)'
    <3> SUFFICES ASSUME NEW x \in Series, NEW s \in Shard,
                        tables' \cap ShardedRows(x, s) # {}
                 PROVE  Known(x, s)'
      BY DEF Backed
    <3>1. tables \cap ShardedRows(x, s) # {} \/ pending \cap ShardedRows(x, s) # {}
      BY <2>7
    <3> QED BY <1>2, <2>3, <3>1 DEF Backed
  <2>8. ASSUME UNCHANGED rowVars PROVE IInv'
    BY <2>1, <2>5, <2>6, <2>7, <2>8
  <2>9. ASSUME NEW m \in Message, Consume(m) PROVE IInv'
    <3>1. ASSUME NEW u \in feed', u.shard \in Shard PROVE Known(u.series, u.shard)'
      <4>1. CASE u \in feed
        BY <1>2, <2>3, <3>1, <4>1
      <4>2. CASE u \notin feed
        <5>1. PICK s \in ObsShards[m] : u = Report(m, Squeezed[s])
          BY <2>9, <4>2 DEF Consume, Reports
        <5>2. s \in Shard /\ u.shard = s /\ u.series = SeriesOf[m]
          BY <3>1, <5>1, ShardsAssumption, SqueezedAssumption DEF Report
        <5>3. m \in BeingWritten'
          BY <2>9, <2>1 DEF Consume, GoTo, BeingWritten, TypeOK
        <5>4. <<m, s>> \in Writes'
          BY <5>3 DEF Writes, ShardsOf
        <5> QED BY <5>2, <5>4 DEF Known
      <4> QED BY <4>1, <4>2
    <3> QED BY <2>1, <2>6, <2>7, <2>9, <3>1 DEF Consume
  <2>11. ASSUME NEW m \in Message, NEW s \in Shard, Aggregate(m, s) PROVE IInv'
    <3>1. Known(SeriesOf[m], s)'
      <4>1. <<m, s>> \in Writes'
        BY <2>11 DEF Aggregate, Writes
      <4> QED BY <4>1 DEF Known
    <3>2. ASSUME NEW u \in feed', u.shard \in Shard PROVE Known(u.series, u.shard)'
      BY <1>2, <2>3, <2>11, <3>1, <3>2 DEF Aggregate, Report
    <3> QED BY <2>1, <2>6, <2>7, <2>11, <3>2 DEF Aggregate
  <2>12. ASSUME NEW u \in feed, Split(u) PROVE IInv'
    <3>1. Backed(pending)'
      <4> SUFFICES ASSUME NEW x \in Series, NEW s \in Shard,
                          pending' \cap ShardedRows(x, s) # {}
                   PROVE  Known(x, s)'
        BY DEF Backed
      <4>1. CASE pending \cap ShardedRows(x, s) # {}
        BY <1>2, <2>3, <4>1 DEF Backed
      <4>2. CASE Rows(u) \cap ShardedRows(x, s) # {}
        <5>1. u \in Update
          BY <2>1 DEF TypeOK
        <5>2. u.series = x /\ u.shard = s
          BY <4>2, <5>1, RowsOfReport
        <5> QED BY <1>2, <2>3, <5>2
      <4> QED BY <2>12, <4>1, <4>2 DEF Split
    <3> QED BY <2>1, <2>5, <2>7, <2>12, <3>1 DEF Split
  <2>13. ASSUME NEW row \in pending, Insert(row) PROVE IInv'
    BY <2>1, <2>5, <2>6, <2>7, <2>13 DEF Insert
  <2>14. CASE Crash \/ (Fail /\ UNCHANGED crashes)
    <3>1. feed' = {} /\ pending' = {} /\ tables' \subseteq tables \cup pending
      BY <2>14 DEF Crash, Fail
    <3> QED BY <2>1, <2>5, <2>6, <2>7, <3>1
  <2>15. ASSUME NEW m \in Message, Send(m) \/ Discard(m) \/ Stored(m)
         PROVE  UNCHANGED rowVars
    BY <2>15 DEF Send, Discard, Stored
  <2>16. CASE Start \/ UNCHANGED vars \/ \E d \in writing : WriteAggregate(d)
    BY <2>8, <2>16 DEF Start, WriteAggregate, vars
  <2> QED BY <1>2, <2>8, <2>9, <2>11, <2>12, <2>13, <2>14, <2>15, <2>16
          DEF IndexNext, Next, Progress
<1> QED BY <1>1, <1>2

(* Rows in the tables that name a shard are backed like any others.        *)
LEMMA BackedShards == IInv => ShardRowsHaveData
<1> SUFFICES ASSUME IInv, NEW x \in Series, NEW s \in Shard,
                    <<"sharded_dynamic_tagset", x, s>> \in tables
                      \/ \E n \in Names[x] :
                           <<"reverse_sharded_dynamic_tagset", x, s, n>> \in tables
             PROVE  HasData(x, s) \/ MayHaveData(x, s)
  BY DEF ShardRowsHaveData
<1>1. tables \cap ShardedRows(x, s) # {}
  BY DEF ShardedRows
<1>2. Known(x, s)
  BY <1>1 DEF IInv, Backed
<1> QED BY <1>2 DEF Known, Writes, HasData, MayHaveData

(* A row that names a shard leads to data there, whatever the shards, even *)
(* those whose text has no character twice, unless the write is still      *)
(* under way or a failure cut it (ShardRowsHaveData; MessageBlock.scala:   *)
(* 108-109, AggregationBlock.scala:118-121 write beside the report).       *)
THEOREM ShardsLeadToData == Spec => []ShardRowsHaveData
BY BackedShards, BackedIsInductive, NextIsIndexNext, PTL DEF Spec

(* That remains true behind the entry points, whatever requests, relayed   *)
(* messages and faults do to the Processor (ShardRowsHaveData;             *)
(* KafkaSinkFactory.scala:45 makes messages that it cannot read).          *)
THEOREM IngestedShardsLeadToData == IngestionSpec => []ShardRowsHaveData
BY BackedShards, BackedIsInductive, IngestionSteps, PTL DEF IngestionSpec

-----------------------------------------------------------------------------
(* Where the report of an aggregate of m in shard s is: to be computed, in *)
(* the feed, or split into rows.                                           *)
Followed(m, s) ==
  \/ <<m, s>> \in due
  \/ Report(m, s) \in feed
  \/ Rows(Report(m, s)) \subseteq pending \cup tables

AllFollowed ==
  \A m \in Message : at[m] = "stored" => \A s \in AggShards[m] : Followed(m, s)

(* No step loses a report of a stored message, but for a crash, which      *)
(* leaves no message stored.                                               *)
LEMMA FollowedIsInductive ==
  /\ Init => AllFollowed
  /\ TypeOK /\ AllFollowed /\ [IndexNext]_vars => AllFollowed'
<1>1. Init => AllFollowed
  BY DEF Init, AllFollowed
<1> USE DEF dataVars, rowVars, GoTo
<1>2. ASSUME TypeOK, AllFollowed, [IndexNext]_vars PROVE AllFollowed'
  <2> SUFFICES ASSUME NEW m \in Message, at'[m] = "stored", NEW s \in AggShards[m]
               PROVE  Followed(m, s)'
    BY DEF AllFollowed
  <2>0. s \in Shard
    BY ShardsAssumption
  <2>1. ASSUME at[m] = "stored", due \subseteq due', feed \subseteq feed',
               pending \cup tables \subseteq pending' \cup tables'
        PROVE  Followed(m, s)'
    BY <1>2, <2>1 DEF AllFollowed, Followed
  <2>2. ASSUME NEW n \in Message, Send(n) \/ Discard(n) \/ Consume(n)
        PROVE  Followed(m, s)'
    <3>1. at[m] = "stored"
      BY <1>2, <2>2 DEF Send, Discard, Consume, TypeOK
    <3> QED BY <2>1, <2>2, <3>1 DEF Send, Discard, Consume
  <2>3. ASSUME NEW n \in Message, Stored(n) PROVE Followed(m, s)'
    <3>1. CASE n = m
      BY <2>3, <3>1 DEF Stored, Followed
    <3>2. CASE n # m
      <4>1. at[m] = "stored"
        BY <1>2, <2>3, <3>2 DEF Stored, TypeOK
      <4> QED BY <2>1, <2>3, <4>1 DEF Stored
    <3> QED BY <3>1, <3>2
  <2>4. ASSUME NEW n \in Message, NEW t \in Shard, Aggregate(n, t)
        PROVE  Followed(m, s)'
    <3>1. at[m] = "stored" /\ Followed(m, s)
      BY <1>2, <2>4 DEF Aggregate, AllFollowed
    <3>2. CASE <<m, s>> \in due
      <4>1. CASE n = m /\ t = s
        BY <2>4, <4>1 DEF Aggregate, Followed, Report
      <4>2. CASE ~(n = m /\ t = s)
        BY <2>4, <3>2, <4>2 DEF Aggregate, Followed
      <4> QED BY <4>1, <4>2
    <3>3. CASE <<m, s>> \notin due
      BY <2>4, <3>1, <3>3 DEF Aggregate, Followed, Report
    <3> QED BY <3>2, <3>3
  <2>5. ASSUME NEW u \in feed, Split(u) PROVE Followed(m, s)'
    <3>1. at[m] = "stored" /\ Followed(m, s)
      BY <1>2, <2>5 DEF Split, AllFollowed
    <3>2. CASE Report(m, s) \in feed
      <4>1. CASE u = Report(m, s)
        BY <2>5, <4>1 DEF Split, Followed, Report
      <4>2. CASE u # Report(m, s)
        BY <2>5, <3>2, <4>2 DEF Split, Followed, Report
      <4> QED BY <4>1, <4>2
    <3>3. CASE Report(m, s) \notin feed
      BY <2>5, <3>1, <3>3 DEF Split, Followed
    <3> QED BY <3>2, <3>3
  <2>6. ASSUME NEW row \in pending, Insert(row) PROVE Followed(m, s)'
    <3>1. at[m] = "stored"
      BY <2>6 DEF Insert
    <3>2. pending \cup tables \subseteq pending' \cup tables'
      BY <2>6 DEF Insert
    <3> QED BY <2>1, <2>6, <3>1, <3>2 DEF Insert
  <2>7. CASE Crash \/ (Fail /\ UNCHANGED crashes)
    BY <2>7 DEF Crash, Fail
  <2>8. CASE Start \/ UNCHANGED vars \/ \E d \in writing : WriteAggregate(d)
    <3>1. at[m] = "stored"
      BY <2>8 DEF Start, WriteAggregate, vars
    <3> QED BY <2>1, <2>8, <3>1 DEF Start, WriteAggregate, vars
  <2> QED BY <1>2, <2>2, <2>3, <2>4, <2>5, <2>6, <2>7, <2>8 DEF IndexNext, Next, Progress
<1> QED BY <1>1, <1>2

(* At rest what was to follow is in the tables.                            *)
LEMMA FollowedAtRest == AllFollowed => AggregatesIndexed
<1> SUFFICES ASSUME AllFollowed, AtRest, NEW m \in Message, at[m] = "stored",
                    NEW s \in AggShards[m]
             PROVE  Rows(Report(m, s)) \subseteq tables
  BY DEF AggregatesIndexed
<1>1. Followed(m, s)
  BY DEF AllFollowed
<1> QED BY <1>1 DEF Followed, AtRest

(* Once all is processed, the indexes of the shards of its aggregates name *)
(* the series of each stored message (AggregatesIndexed;                   *)
(* GlobalProcessingGraphFactory.scala:64-66, TagUpdateBlock.scala:129).    *)
THEOREM AggregatesAreIndexed == Spec => []AggregatesIndexed
BY FollowedAtRest, TypeIsInductive, FollowedIsInductive, NextIsIndexNext, PTL
   DEF Spec

(* So do they behind the entry points (AggregatesIndexed).                 *)
THEOREM IngestedAreIndexed == IngestionSpec => []AggregatesIndexed
BY FollowedAtRest, TypeIsInductive, FollowedIsInductive, IngestionSteps, PTL
   DEF IngestionSpec

-----------------------------------------------------------------------------
(* The report that m makes with text t is in the feed, or split into rows. *)
Reported(m, t) ==
  \/ Report(m, t) \in feed
  \/ Rows(Report(m, t)) \subseteq pending \cup tables

(* A message that the Processor is treating or has stored has reported its *)
(* series.                                                                 *)
AllReported ==
  \A m \in Message : at[m] \in {"writing", "stored"} =>
    \A s \in ObsShards[m] : Reported(m, Squeezed[s])

(* Every request has its answer; a message of one that was answered OK has *)
(* left the producer for Kafka, or a fault took it from there.             *)
AllSent ==
  /\ DOMAIN answer = Request
  /\ \A r \in Request : answer[r] = "ok" =>
       \A m \in Carries[r] : m \in producing \/ m \in gone \/ at[m] # "unsent"

(* Once nothing is under way in a Processor that runs, each message of a   *)
(* request that was answered OK is found or, if it is not treated,         *)
(* discarded, unless a fault or a failure of the Processor took it.        *)
AcceptedIsSettled ==
  AtRest /\ running /\ producing = {} /\ (\A m \in Message : at[m] # "topic") =>
    \A r \in Request : answer[r] = "ok" =>
      \A m \in Carries[r] :
        \/ Treatable(m) /\ Found(m)
        \/ m \notin Supported /\ at[m] = "discarded"
        \/ m \in Supported /\ ObsShards[m] = {} /\ at[m] \in {"writing", "stored"}
        \/ m \in gone \/ at[m] = "lost"

(* Only messages of an unsupported type are discarded, and only others are *)
(* written.                                                                *)
Sorted ==
  \A m \in Message :
    /\ at[m] = "discarded" => m \notin Supported
    /\ at[m] \in {"writing", "stored"} => m \in Supported

(* No step discards a message of a supported type, or writes another one.  *)
LEMMA SortedIsInductive ==
  /\ Init => Sorted
  /\ TypeOK /\ Sorted /\ [IndexNext]_vars => Sorted'
<1> USE DEF GoTo
<1>1. Init => Sorted
  BY DEF Init, Sorted
<1>2. ASSUME TypeOK, Sorted, [IndexNext]_vars PROVE Sorted'
  <2>1. ASSUME NEW m \in Message, Send(m) \/ Discard(m) \/ Consume(m) \/ Stored(m)
        PROVE  Sorted'
    BY <1>2, <2>1 DEF Send, Discard, Consume, Stored, Sorted, TypeOK
  <2>2. ASSUME UNCHANGED at PROVE Sorted'
    BY <1>2, <2>2 DEF Sorted
  <2>3. CASE Crash \/ Fail \/ Start
    BY <1>2, <2>3 DEF Crash, Fail, Start, Sorted
  <2> QED BY <1>2, <2>1, <2>2, <2>3
          DEF IndexNext, Next, Progress, Aggregate, WriteAggregate, Split, Insert, vars
<1> QED BY <1>1, <1>2

(* Reports are split into rows, and rows are inserted, but none is         *)
(* forgotten, unless a failure takes the message with them.                *)
LEMMA ReportedIsInductive ==
  /\ Init => AllReported
  /\ TypeOK /\ AllReported /\ [IndexNext]_vars => AllReported'
<1>1. Init => AllReported
  BY DEF Init, AllReported
<1> USE DEF dataVars, rowVars, GoTo
<1>2. ASSUME TypeOK, AllReported, [IndexNext]_vars PROVE AllReported'
  <2> SUFFICES ASSUME NEW m \in Message, at'[m] \in {"writing", "stored"},
                      NEW s \in ObsShards[m]
               PROVE  Reported(m, Squeezed[s])'
    BY DEF AllReported
  <2> DEFINE t == Squeezed[s]
  <2>1. ASSUME at[m] \in {"writing", "stored"}, feed \subseteq feed',
               pending \cup tables \subseteq pending' \cup tables'
        PROVE  Reported(m, t)'
    BY <1>2, <2>1 DEF AllReported, Reported
  <2>2. ASSUME NEW n \in Message, Send(n) \/ Discard(n) \/ Stored(n)
        PROVE  Reported(m, t)'
    <3>1. at[m] \in {"writing", "stored"}
      BY <1>2, <2>2 DEF Send, Discard, Stored, TypeOK
    <3> QED BY <2>1, <2>2, <3>1 DEF Send, Discard, Stored
  <2>3. ASSUME NEW n \in Message, Consume(n) PROVE Reported(m, t)'
    <3>1. CASE n = m
      BY <2>3, <3>1 DEF Consume, Reports, Reported
    <3>2. CASE n # m
      <4>1. at[m] \in {"writing", "stored"}
        BY <1>2, <2>3, <3>2 DEF Consume, TypeOK
      <4> QED BY <2>1, <2>3, <4>1 DEF Consume
    <3> QED BY <3>1, <3>2
  <2>4. ASSUME NEW n \in Message, NEW u \in Shard, Aggregate(n, u)
        PROVE  Reported(m, t)'
    BY <2>1, <2>4 DEF Aggregate
  <2>5. ASSUME NEW u \in feed, Split(u) PROVE Reported(m, t)'
    <3>1. Reported(m, t)
      BY <1>2, <2>5 DEF Split, AllReported
    <3>2. CASE u = Report(m, t)
      BY <2>5, <3>2 DEF Split, Reported, Report
    <3>3. CASE u # Report(m, t)
      BY <2>5, <3>1, <3>3 DEF Split, Reported, Report
    <3> QED BY <3>2, <3>3
  <2>6. ASSUME NEW row \in pending, Insert(row) PROVE Reported(m, t)'
    <3>1. pending \cup tables \subseteq pending' \cup tables'
      BY <2>6 DEF Insert
    <3> QED BY <2>1, <2>6, <3>1 DEF Insert
  <2>7. CASE Crash \/ (Fail /\ UNCHANGED crashes)
    BY <2>7 DEF Crash, Fail
  <2>8. CASE Start \/ UNCHANGED vars \/ \E d \in writing : WriteAggregate(d)
    <3>1. at[m] \in {"writing", "stored"}
      BY <2>8 DEF Start, WriteAggregate, vars
    <3> QED BY <2>1, <2>8, <3>1 DEF Start, WriteAggregate, vars
  <2> QED BY <1>2, <2>2, <2>3, <2>4, <2>5, <2>6, <2>7, <2>8
          DEF IndexNext, Next, Progress
<1> QED BY <1>1, <1>2

(* Only a fault takes a message from the producer without sending it.      *)
LEMMA SentIsInductive ==
  /\ IngestionInit => AllSent
  /\ TypeOK /\ AllSent /\ [IngestionNext]_allVars => AllSent'
<1> USE DEF GoTo
<1>1. IngestionInit => AllSent
  BY DEF IngestionInit, AllSent
<1>2. ASSUME TypeOK, AllSent, [IngestionNext]_allVars PROVE AllSent'
  <2>a. DOMAIN answer = Request
    BY <1>2 DEF AllSent
  <2>b. DOMAIN answer' = Request
    BY <1>2, <2>a DEF IngestionNext, Producing, Post, Reject, Accept, Produce,
                      Take, GiveUp, Relay, StopInterface, RestartStream,
                      Processing, ingestionVars, allVars
  <2> SUFFICES ASSUME NEW r \in Request, answer'[r] = "ok", NEW m \in Carries[r]
               PROVE  m \in producing' \/ m \in gone' \/ at'[m] # "unsent"
    BY <2>b DEF AllSent
  <2>0. m \in Message
    BY IngestionAssumption
  <2>1. ASSUME answer[r] = "ok", producing \cup gone \subseteq producing' \cup gone',
               at[m] # "unsent" => at'[m] # "unsent"
        PROVE  m \in producing' \/ m \in gone' \/ at'[m] # "unsent"
    BY <1>2, <2>1 DEF AllSent
  <2>2. ASSUME NEW q \in Request, Post(q) \/ Reject(q)
        PROVE  m \in producing' \/ m \in gone' \/ at'[m] # "unsent"
    <3>1. answer[r] = "ok"
      BY <2>2, <2>a DEF Post, Reject
    <3> QED BY <2>1, <2>2, <3>1 DEF Post, Reject, vars
  <2>3. ASSUME NEW q \in Request, Accept(q)
        PROVE  m \in producing' \/ m \in gone' \/ at'[m] # "unsent"
    <3>1. CASE q = r
      BY <2>3, <3>1 DEF Accept
    <3>2. CASE q # r
      <4>1. answer[r] = "ok"
        BY <2>3, <2>a, <3>2 DEF Accept
      <4>2. producing \cup gone \subseteq producing' \cup gone' /\ at' = at
        BY <2>3 DEF Accept, vars
      <4> QED BY <2>1, <4>1, <4>2
    <3> QED BY <3>1, <3>2
  <2>4. ASSUME NEW n \in Message, Produce(n)
        PROVE  m \in producing' \/ m \in gone' \/ at'[m] # "unsent"
    <3>1. CASE n = m
      <4>1. at'[m] = "topic"
        BY <1>2, <2>0, <2>4, <3>1 DEF Produce, Send, TypeOK
      <4> QED BY <4>1
    <3>2. CASE n # m
      <4>1. answer[r] = "ok" /\ at'[m] = at[m]
        BY <1>2, <2>0, <2>4, <3>2 DEF Produce, Send, TypeOK
      <4>2. m \in producing \/ m \in gone \/ at[m] # "unsent"
        BY <1>2, <4>1 DEF AllSent
      <4> QED BY <2>4, <3>2, <4>1, <4>2 DEF Produce
    <3> QED BY <3>1, <3>2
  <2>5. ASSUME NEW n \in Message, Take(n) \/ GiveUp(n)
        PROVE  m \in producing' \/ m \in gone' \/ at'[m] # "unsent"
    <3>1. answer[r] = "ok" /\ at' = at
      BY <2>5 DEF Take, GiveUp, vars
    <3>2. producing \cup gone \subseteq producing' \cup gone'
      BY <2>5 DEF Take, GiveUp
    <3> QED BY <2>1, <3>1, <3>2
  <2>6. ASSUME NEW n \in Message, Relay(n)
        PROVE  m \in producing' \/ m \in gone' \/ at'[m] # "unsent"
    <3>1. at[m] # "unsent" => at'[m] # "unsent"
      BY <1>2, <2>0, <2>6 DEF Relay, Send, TypeOK
    <3> QED BY <2>1, <2>6, <3>1 DEF Relay
  <2>7. CASE StopInterface
    <3>1. answer[r] = "ok" /\ at' = at
      BY <2>7, <2>a DEF StopInterface, vars
    <3>2. producing \cup gone \subseteq producing' \cup gone'
      BY <2>7 DEF StopInterface
    <3> QED BY <2>1, <3>1, <3>2
  <2>8. CASE RestartStream
    <3>1. answer[r] = "ok" /\ at' = at
      BY <2>8 DEF RestartStream, vars
    <3>2. producing \cup gone \subseteq producing' \cup gone'
      BY <2>8 DEF RestartStream
    <3> QED BY <2>1, <3>1, <3>2
  <2>9. CASE Processing \/ ((Crash \/ Start) /\ UNCHANGED ingestionVars)
    <3>1. UNCHANGED ingestionVars /\ (Progress \/ Fail \/ Start)
      BY <2>9 DEF Processing, Choke, Crash
    <3>2. at[m] # "unsent" => at'[m] # "unsent"
      BY <1>2, <2>0, <3>1 DEF Progress, Discard, Consume, Stored, Aggregate,
                             WriteAggregate, Split, Insert, Fail, Start, TypeOK
    <3> QED BY <2>1, <3>1, <3>2 DEF ingestionVars
  <2>10. CASE UNCHANGED allVars
    BY <2>1, <2>10 DEF allVars, vars, ingestionVars
  <2> QED BY <1>2, <2>2, <2>3, <2>4, <2>5, <2>6, <2>7, <2>8, <2>9, <2>10
          DEF IngestionNext, Producing
<1> QED BY <1>1, <1>2

(* Nothing comes between the answer OK and the search that finds the       *)
(* series but a fault or a failure of the Processor, for the messages that *)
(* it treats: what AcceptedIsFound asks of every fair behaviour, whenever  *)
(* nothing is under way (TSHTTPInterface.scala:26 answers without looking  *)
(* at the sending, MessageBlock.scala:110 discards what is not supported). *)
THEOREM AcceptedSettles == IngestionSpec => []AcceptedIsSettled
<1>1. TypeOK /\ Sorted /\ AllReported /\ AllSent => AcceptedIsSettled
  <2> SUFFICES ASSUME TypeOK, Sorted, AllReported, AllSent, AtRest, producing = {},
                      \A m \in Message : at[m] # "topic",
                      NEW r \in Request, answer[r] = "ok", NEW m \in Carries[r],
                      m \notin gone, at[m] # "lost"
               PROVE  \/ Treatable(m) /\ Found(m)
                      \/ m \notin Supported /\ at[m] = "discarded"
                      \/ /\ m \in Supported /\ ObsShards[m] = {}
                         /\ at[m] \in {"writing", "stored"}
    BY DEF AcceptedIsSettled
  <2>1. m \in Message
    BY IngestionAssumption
  <2>2. at[m] \in {"discarded", "writing", "stored"}
    BY <2>1 DEF AllSent, TypeOK, Place
  <2>3. CASE at[m] = "discarded"
    BY <2>1, <2>3 DEF Sorted
  <2>4. CASE at[m] \in {"writing", "stored"} /\ m \notin Supported
    BY <2>1, <2>4 DEF Sorted
  <2>5. CASE at[m] \in {"writing", "stored"} /\ m \in Supported /\ ObsShards[m] # {}
    <3>1. PICK s \in ObsShards[m] : TRUE
      BY <2>5
    <3>2. Rows(Report(m, Squeezed[s])) \subseteq tables
      BY <2>1, <2>5, <3>1 DEF AllReported, Reported, AtRest
    <3>3. Found(m)
      BY <3>2 DEF Rows, DirectRows, ReverseRows, Report, Found
    <3> QED BY <2>5, <3>3 DEF Treatable
  <2> QED BY <2>2, <2>3, <2>4, <2>5
<1> QED BY <1>1, TypeIsInductive, SortedIsInductive, ReportedIsInductive,
           SentIsInductive, IngestionSteps, PTL DEF IngestionSpec

=============================================================================
