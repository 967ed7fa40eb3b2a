----------------------- MODULE RollupPipeline_proofs -----------------------
(***************************************************************************)
(* Proofs about RollupPipeline and about the numbers of Derivators, for    *)
(* any messages, levels, nested periods, slots, number of crashes and      *)
(* values of the observations.                                             *)
(***************************************************************************)
EXTENDS Derivators, Recursion, FiniteSetTheorems, TLAPS

-----------------------------------------------------------------------------
(* Facts about the constants.                                              *)

(* A line is named by its message and by a period of the first level.      *)
LEMMA LineType ==
  ASSUME NEW k \in Line
  PROVE  k[1] \in Message /\ k[2] \in Moment
BY DEF Line

(* Periods end at moments.                                                 *)
LEMMA ShunkType ==
  ASSUME NEW l \in Level, NEW t \in Moment
  PROVE  Shunk[l][t] \in Moment
BY ShunkAssumption

(* Levels are numbered from one, without gaps.                             *)
LEMMA LevelType ==
  /\ 1 \in Level
  /\ Level \subseteq Nat
  /\ \A l \in Level : l < Levels => l + 1 \in Level
  /\ \A l \in Level : l # 1 => l - 1 \in Level
BY LevelsAssumption DEF Level

(* The period of the current update of a line is a cell.                   *)
LEMMA CellOfType ==
  ASSUME TypeOK, NEW k \in Line
  PROVE  CellOf(k) \in Cell
BY DEF TypeOK, Task, CellOf, Cell

(* Each update goes through one of the two inputs.                         *)
LEMMA InputOfType ==
  ASSUME NEW k
  PROVE  InputOf(k) \in Input
BY DEF InputOf, Input

-----------------------------------------------------------------------------
(* What the database holds of a period is within the period: at the first  *)
(* level by the query, at the next ones because periods are nested.        *)
LEMMA HistoryWithin ==
  ASSUME TypeOK, NoPhantom, NEW l \in Level, NEW s \in Moment
  PROVE  History(l, s) \subseteq raw \cap Covers(<<l, s>>)
<1>1. raw \subseteq Moment
  BY DEF TypeOK
<1>2. CASE l = 1
  BY <1>1, <1>2 DEF History, Covers
<1>3. CASE l # 1
  <2> SUFFICES ASSUME NEW d \in Moment, Shunk[l][d] = s,
                      NEW t \in rows[<<l - 1, d>>].value
               PROVE  t \in raw /\ t \in Moment /\ Shunk[l][t] = s
    BY <1>3 DEF History, Covers
  <2>1. l - 1 \in Level /\ l = (l - 1) + 1
    BY <1>3, LevelType
  <2>2. <<l - 1, d>> \in Cell
    BY <2>1 DEF Cell
  <2>3. rows[<<l - 1, d>>].value \subseteq raw \cap Covers(<<l - 1, d>>)
    BY <2>2 DEF NoPhantom
  <2>4. t \in raw /\ t \in Moment /\ Shunk[l - 1][t] = d
    BY <2>3 DEF Covers
  <2>5. Shunk[l][Shunk[l - 1][t]] = Shunk[l][t]
    BY <2>1, <2>4, NestingAssumption
  <2> QED
    BY <2>4, <2>5
<1> QED
  BY <1>2, <1>3

(* What is read from the database is a set of observations.                *)
LEMMA HistoryType ==
  ASSUME TypeOK, NoPhantom, NEW l \in Level, NEW s \in Moment
  PROVE  History(l, s) \in SUBSET Moment
BY HistoryWithin DEF Covers

-----------------------------------------------------------------------------
(* Type correctness.                                                       *)

(* The current update of a line is well-formed.                            *)
LEMMA TaskType ==
  ASSUME TypeOK, NEW k \in Line
  PROVE  task[k] \in Task
BY DEF TypeOK

(* A step of one line that keeps its task well-formed.                     *)
LEMMA OneTask ==
  ASSUME TypeOK, NEW k \in Line, NEW r \in Task,
         task' = [task EXCEPT ![k] = r]
  PROVE  task' \in [Line -> Task]
BY DEF TypeOK

(* A change of stage keeps an update well-formed.                          *)
LEMMA StagedTask ==
  ASSUME NEW r \in Task, NEW s \in Stage
  PROVE  [r EXCEPT !.stage = s] \in Task
BY DEF Task

(* A write that is issued is well-formed, whatever its timestamp.          *)
LEMMA IssuedTask ==
  ASSUME NEW r \in Task, NEW n \in Nat
  PROVE  [r EXCEPT !.stage = "writing", !.stamp = n] \in Task
<1>1. [r EXCEPT !.stage = "writing"] \in Task
  BY StagedTask DEF Stage
<1>2. [[r EXCEPT !.stage = "writing"] EXCEPT !.stamp = n] \in Task
  BY <1>1 DEF Task
<1> QED
  BY <1>2

(* Moving one line to another stage keeps all updates well-formed.         *)
LEMMA GoToType ==
  ASSUME TypeOK, NEW k \in Line, NEW s \in Stage, GoTo(k, s)
  PROVE  task' \in [Line -> Task]
<1>1. [task[k] EXCEPT !.stage = s] \in Task
  BY TaskType, StagedTask
<1>2. task' = [task EXCEPT ![k] = [task[k] EXCEPT !.stage = s]]
  BY DEF GoTo, TypeOK
<1> QED
  BY <1>1, <1>2, OneTask

(* The Processor starts well-formed, with an empty database.               *)
LEMMA InitType == Init => TypeOK
<1> SUFFICES ASSUME Init PROVE TypeOK
  OBVIOUS
<1>1. task \in [Line -> Task]
  BY LineType, LevelType DEF Init, Task, Stage
<1>2. crashes \in 0 .. MaxCrashes
  BY SlotsAssumption DEF Init
<1>3. at \in [Message -> Place]
  BY DEF Init, Place
<1>4. queue \in [Input -> Seq(Line)]
  BY DEF Init
<1> QED
  BY <1>1, <1>2, <1>3, <1>4 DEF Init, TypeOK

(* Sending, writing and acknowledging messages keep the types.             *)
LEMMA MessageStepType ==
  ASSUME TypeOK, NEW m \in Message, Send(m) \/ MessageStep(m)
  PROVE  TypeOK'
<1> USE DEF msgVars, rowVars
<1>0. Stamps[m] \subseteq Moment
  BY StampsAssumption
<1>1. CASE Send(m)
  BY <1>1 DEF Send, TypeOK, Place
<1>2. CASE Consume(m)
  BY <1>0, <1>2 DEF Consume, TypeOK, Place
<1>3. CASE AckMessage(m)
  <2>1. task' \in [Line -> Task]
    <3>1. \A k \in Line : [task[k] EXCEPT !.stage = "due"] \in Task
      BY TaskType, StagedTask DEF Stage
    <3> QED
      BY <1>3, <3>1, TaskType DEF AckMessage, StartLines
  <2> QED
    BY <2>1, <1>3 DEF AckMessage, TypeOK, Place
<1>4. ASSUME NEW t \in Stamps[m], LandObservation(m, t) PROVE TypeOK'
  BY <1>0, <1>4 DEF LandObservation, TypeOK
<1> QED
  BY <1>1, <1>2, <1>3, <1>4 DEF MessageStep

(* Reading, writing and following up updates keep the types.               *)
LEMMA LineStepType ==
  ASSUME TypeOK, NoPhantom, NEW k \in Line, LineStep(k)
  PROVE  TypeOK'
<1> USE DEF msgVars, rowVars
<1>0. /\ task[k] \in Task
      /\ task[k].level \in Level /\ task[k].shunk \in Moment
      /\ task[k].value \in SUBSET Moment /\ task[k].stamp \in Nat
      /\ CellOf(k) \in Cell /\ InputOf(k) \in Input
  BY TaskType, CellOfType, InputOfType DEF Task
<1>1. CASE StartRead(k)
  <2>1. History(task[k].level, task[k].shunk) \in SUBSET Moment
    BY <1>0, HistoryType
  <2>2. task' = [task EXCEPT ![k] =
                  [@ EXCEPT !.stage = "reading",
                            !.value = History(task[k].level, task[k].shunk)]]
    BY <1>1 DEF StartRead, TypeOK
  <2>3. task' \in [Line -> Task]
    BY <1>0, <2>1, <2>2 DEF TypeOK, Task, Stage
  <2> QED
    BY <1>1, <2>3 DEF StartRead, TypeOK
<1>2. CASE FinishRead(k)
  <2>1. task' \in [Line -> Task]
    BY <1>2, GoToType DEF FinishRead, Stage
  <2>2. queue' \in [Input -> Seq(Line)]
    BY <1>0, <1>2 DEF FinishRead, TypeOK
  <2> QED
    BY <1>2, <2>1, <2>2 DEF FinishRead, TypeOK
<1>3. CASE IssueWrite(k)
  <2> DEFINE c == CellOf(k)
  <2>1. issued[c] \in Nat /\ issued[c] + 1 \in Nat
    BY <1>0 DEF TypeOK
  <2>2. task' \in [Line -> Task]
    <3>1. [task[k] EXCEPT !.stage = "writing", !.stamp = issued[c] + 1] \in Task
      BY <1>0, <2>1, IssuedTask
    <3>2. task' = [task EXCEPT ![k].stage = "writing", ![k].stamp = issued[c] + 1]
      BY <1>3 DEF IssueWrite
    <3>3. task' = [task EXCEPT ![k] =
                    [task[k] EXCEPT !.stage = "writing", !.stamp = issued[c] + 1]]
      BY <3>2 DEF TypeOK
    <3> QED
      BY <3>1, <3>3, OneTask
  <2>3. queue' \in [Input -> Seq(Line)]
    <3>1. queue[InputOf(k)] \in Seq(Line) /\ queue[InputOf(k)] # <<>>
      BY <1>0, <1>3 DEF IssueWrite, TypeOK
    <3>2. Tail(queue[InputOf(k)]) \in Seq(Line)
      BY <3>1
    <3> QED
      BY <1>0, <1>3, <3>2 DEF IssueWrite, TypeOK
  <2>4. issued' \in [Cell -> Nat]
    BY <1>0, <1>3, <2>1 DEF IssueWrite, TypeOK
  <2>5. announced' \in [Cell -> SUBSET Moment]
    BY <1>0, <1>3 DEF IssueWrite, TypeOK
  <2>6. regressed' \subseteq Cell
    BY <1>0, <1>3 DEF IssueWrite, TypeOK
  <2> QED
    BY <1>3, <2>2, <2>3, <2>4, <2>5, <2>6 DEF IssueWrite, TypeOK
<1>4. CASE LandWrite(k)
  <2>1. task' \in [Line -> Task]
    <3>1. PICK s \in {"lost", "landed"} : GoTo(k, s)
      BY <1>4 DEF LandWrite, Landed
    <3> QED
      BY <3>1, GoToType DEF Stage
  <2>2. rows' \in [Cell -> [value : SUBSET Moment, stamp : Nat]]
    BY <1>0, <1>4 DEF LandWrite, TypeOK
  <2> QED
    BY <1>4, <2>1, <2>2 DEF LandWrite, TypeOK
<1>5. CASE AckWrite(k)
  <2>1. CASE task[k].level < Levels
    <3>1. task[k].level + 1 \in Level
      BY <1>0, <2>1, LevelType
    <3>2. Shunk[task[k].level + 1][task[k].shunk] \in Moment
      BY <1>0, <3>1, ShunkType
    <3> DEFINE r == [stage |-> "due", level |-> task[k].level + 1,
                     shunk |-> Shunk[task[k].level + 1][task[k].shunk],
                     value |-> {}, stamp |-> 0]
    <3>3. r \in Task
      BY <3>1, <3>2 DEF Task, Stage
    <3>4. task' = [task EXCEPT ![k] = r]
      BY <1>5, <2>1 DEF AckWrite, Continue, TypeOK
    <3>5. task' \in [Line -> Task]
      BY <3>3, <3>4, OneTask
    <3> QED
      BY <1>5, <3>5 DEF AckWrite, TypeOK
  <2>2. CASE ~ (task[k].level < Levels)
    <3>1. task' \in [Line -> Task]
      BY <1>5, <2>2, GoToType DEF AckWrite, Stage
    <3> QED
      BY <1>5, <3>1 DEF AckWrite, TypeOK
  <2> QED
    BY <2>1, <2>2
<1> QED
  BY <1>1, <1>2, <1>3, <1>4, <1>5 DEF LineStep

(* A crash and the restart after it keep the types.                        *)
LEMMA CrashType ==
  ASSUME TypeOK, Crash
  PROVE  TypeOK'
<1> USE DEF msgVars, rowVars
<1>1. at' \in [Message -> Place]
  <2>1. \A m \in Message : at'[m] \in {at[m], "skipped", "lost"}
    BY DEF Crash
  <2> QED
    BY <2>1 DEF Crash, TypeOK, Place
<1>2. task' \in [Line -> Task]
  <2> SUFFICES ASSUME NEW k \in Line PROVE task'[k] \in Task
    BY DEF Crash
  <2>1. task'[k] \in {task[k], [task[k] EXCEPT !.stage = "lost"],
                               [task[k] EXCEPT !.stage = "orphan"]}
    BY DEF Crash
  <2> QED
    BY <2>1, TaskType DEF Task, Stage
<1>3. crashes' \in 0 .. MaxCrashes
  BY SlotsAssumption DEF Crash, TypeOK
<1>4. queue' \in [Input -> Seq(Line)]
  BY DEF Crash
<1> QED
  BY <1>1, <1>2, <1>3, <1>4 DEF Crash, TypeOK

-----------------------------------------------------------------------------
(* NoPhantom, step by step.                                                *)

(* An empty database has no aggregate at all.                              *)
LEMMA InitNoPhantom == Init => NoPhantom
BY DEF Init, NoPhantom

(* Steps that add to raw and leave the values and periods of the lines,    *)
(* of the rows and of the announced aggregates as they were.               *)
LEMMA SameValues ==
  ASSUME NoPhantom, raw \subseteq raw', rows' = rows, announced' = announced,
         \A k \in Line : task'[k].value = task[k].value
                          /\ task'[k].level = task[k].level
                          /\ task'[k].shunk = task[k].shunk
  PROVE  NoPhantom'
BY DEF NoPhantom, CellOf, Covers

(* Steps of messages only add observations to the database.                *)
LEMMA MessageStepNoPhantom ==
  ASSUME TypeOK, NoPhantom, NEW m \in Message, Send(m) \/ MessageStep(m)
  PROVE  NoPhantom'
<1> USE DEF msgVars, rowVars
<1>1. CASE Send(m)
  BY <1>1, SameValues DEF Send
<1>2. CASE Consume(m)
  BY <1>2, SameValues DEF Consume
<1>3. CASE AckMessage(m)
  <2>1. ASSUME NEW k \in Line
        PROVE  task'[k].value = task[k].value /\ task'[k].level = task[k].level
                /\ task'[k].shunk = task[k].shunk
    <3>1. task'[k] \in {task[k], [task[k] EXCEPT !.stage = "due"]}
      BY <1>3 DEF AckMessage, StartLines
    <3> QED
      BY <3>1, TaskType DEF Task
  <2> QED
    BY <1>3, <2>1, SameValues DEF AckMessage
<1>4. ASSUME NEW t \in Stamps[m], LandObservation(m, t) PROVE NoPhantom'
  BY <1>4, SameValues DEF LandObservation
<1> QED
  BY <1>1, <1>2, <1>3, <1>4 DEF MessageStep

(* A change of stage is no change of value or period.                      *)
LEMMA GoToValues ==
  ASSUME TypeOK, NEW k \in Line, NEW s, GoTo(k, s)
  PROVE  \A j \in Line : task'[j].value = task[j].value
                          /\ task'[j].level = task[j].level
                          /\ task'[j].shunk = task[j].shunk
<1> SUFFICES ASSUME NEW j \in Line
             PROVE  task'[j].value = task[j].value
                     /\ task'[j].level = task[j].level
                     /\ task'[j].shunk = task[j].shunk
  OBVIOUS
<1>1. task'[j] \in {task[j], [task[j] EXCEPT !.stage = s]}
  BY DEF GoTo, TypeOK
<1> QED
  BY <1>1, TaskType DEF Task

(* Aggregates are made of observations that are stored.                    *)
LEMMA LineStepNoPhantom ==
  ASSUME TypeOK, NoPhantom, NEW k \in Line, LineStep(k)
  PROVE  NoPhantom'
<1> USE DEF msgVars, rowVars
<1>0. /\ task[k] \in Task
      /\ task[k].level \in Level /\ task[k].shunk \in Moment
      /\ CellOf(k) \in Cell
      /\ task[k].value \subseteq raw \cap Covers(CellOf(k))
  BY TaskType, CellOfType DEF Task, NoPhantom
<1>1. CASE StartRead(k)
  <2> DEFINE h == History(task[k].level, task[k].shunk)
  <2>1. h \subseteq raw \cap Covers(CellOf(k))
    BY <1>0, HistoryWithin DEF CellOf
  <2>2. task' = [task EXCEPT ![k] = [task[k] EXCEPT !.stage = "reading", !.value = h]]
    BY <1>1 DEF StartRead, TypeOK
  <2>3. task'[k].value = h /\ CellOf(k)' = CellOf(k)
    BY <1>0, <2>2 DEF TypeOK, CellOf, Task
  <2>4. \A j \in Line : j # k => task'[j] = task[j]
    BY <2>2 DEF TypeOK
  <2>5. raw' = raw /\ rows' = rows /\ announced' = announced
    BY <1>1 DEF StartRead
  <2>6. \A j \in Line : task'[j].value \subseteq raw' \cap Covers(CellOf(j))'
    <3> SUFFICES ASSUME NEW j \in Line
                 PROVE  task'[j].value \subseteq raw' \cap Covers(CellOf(j))'
      OBVIOUS
    <3>1. CASE j = k
      BY <2>1, <2>3, <2>5, <3>1 DEF Covers
    <3>2. CASE j # k
      BY <2>4, <2>5, <3>2 DEF NoPhantom, CellOf, Covers
    <3> QED
      BY <3>1, <3>2
  <2> QED
    BY <2>5, <2>6 DEF NoPhantom, Covers
<1>2. CASE FinishRead(k)
  BY <1>2, GoToValues, SameValues DEF FinishRead
<1>3. CASE IssueWrite(k)
  <2> DEFINE c == CellOf(k)
  <2>1. announced' = [announced EXCEPT ![c] = task[k].value]
    BY <1>3 DEF IssueWrite
  <2>2. \A d \in Cell : announced'[d] \subseteq raw \cap Covers(d)
    BY <1>0, <2>1 DEF NoPhantom, TypeOK
  <2>3. task' = [task EXCEPT ![k].stage = "writing", ![k].stamp = issued[c] + 1]
    BY <1>3 DEF IssueWrite
  <2>4. ASSUME NEW j \in Line
        PROVE  task'[j].value = task[j].value /\ task'[j].level = task[j].level
                /\ task'[j].shunk = task[j].shunk
    <3>1. task'[j] \in {task[j], [task[j] EXCEPT !.stage = "writing",
                                                 !.stamp = issued[c] + 1]}
      BY <2>3 DEF TypeOK
    <3> QED
      BY <3>1, TaskType DEF Task
  <2>5. raw' = raw /\ rows' = rows
    BY <1>3 DEF IssueWrite
  <2> QED
    BY <2>2, <2>4, <2>5 DEF NoPhantom, CellOf, Covers
<1>4. CASE LandWrite(k)
  <2>1. PICK s \in {"lost", "landed"} : GoTo(k, s)
    BY <1>4 DEF LandWrite, Landed
  <2>2. raw' = raw /\ announced' = announced
    BY <1>4 DEF LandWrite
  <2>3. ASSUME NEW d \in Cell
        PROVE  rows'[d].value \subseteq raw \cap Covers(d)
    <3>1. rows'[d] = rows[d]
           \/ (d = CellOf(k) /\ rows'[d].value = task[k].value)
      <4> DEFINE new == [value |-> task[k].value, stamp |-> task[k].stamp]
      <4>1. new.value = task[k].value
        OBVIOUS
      <4> HIDE DEF new
      <4>2. rows' = [rows EXCEPT ![CellOf(k)] =
                       IF rows[CellOf(k)].stamp < task[k].stamp THEN new
                       ELSE rows[CellOf(k)]]
        BY <1>4 DEF LandWrite, new
      <4> QED
        BY <4>1, <4>2 DEF TypeOK
    <3> QED
      BY <1>0, <3>1 DEF NoPhantom
  <2> QED
    BY <2>1, <2>2, <2>3, GoToValues DEF NoPhantom, CellOf, Covers
<1>5. CASE AckWrite(k)
  <2>1. CASE task[k].level < Levels
    <3> DEFINE r == [stage |-> "due", level |-> task[k].level + 1,
                     shunk |-> Shunk[task[k].level + 1][task[k].shunk],
                     value |-> {}, stamp |-> 0]
    <3>1. task' = [task EXCEPT ![k] = r]
      BY <1>5, <2>1 DEF AckWrite, Continue, TypeOK
    <3>2. task'[k].value = {} /\ \A j \in Line : j # k => task'[j] = task[j]
      BY <3>1 DEF TypeOK
    <3>3. raw' = raw /\ rows' = rows /\ announced' = announced
      BY <1>5 DEF AckWrite
    <3> QED
      BY <3>2, <3>3 DEF NoPhantom, CellOf, Covers
  <2>2. CASE ~ (task[k].level < Levels)
    BY <1>5, <2>2, GoToValues, SameValues DEF AckWrite
  <2> QED
    BY <2>1, <2>2
<1> QED
  BY <1>1, <1>2, <1>3, <1>4, <1>5 DEF LineStep

(* A crash changes the stages only.                                        *)
LEMMA CrashValues ==
  ASSUME TypeOK, Crash, NEW j \in Line
  PROVE  task'[j].value = task[j].value /\ task'[j].level = task[j].level
          /\ task'[j].shunk = task[j].shunk
<1>1. task'[j] \in {task[j], [task[j] EXCEPT !.stage = "lost"],
                             [task[j] EXCEPT !.stage = "orphan"]}
  BY DEF Crash
<1> QED
  BY <1>1, TaskType DEF Task

(* Writes left behind by a crash stand for stored observations too.        *)
LEMMA CrashNoPhantom ==
  ASSUME TypeOK, NoPhantom, Crash
  PROVE  NoPhantom'
BY CrashValues, SameValues DEF Crash, rowVars

-----------------------------------------------------------------------------
IInv == TypeOK /\ NoPhantom

(* The types and NoPhantom together are inductive.                         *)
LEMMA NextIInv == IInv /\ [Next]_vars => IInv'
<1> SUFFICES ASSUME IInv, [Next]_vars PROVE IInv'
  OBVIOUS
<1> USE DEF IInv
<1>1. ASSUME NEW m \in Message, Send(m) \/ MessageStep(m) PROVE IInv'
  BY <1>1, MessageStepType, MessageStepNoPhantom
<1>2. ASSUME NEW k \in Line, LineStep(k) PROVE IInv'
  BY <1>2, LineStepType, LineStepNoPhantom
<1>3. CASE Crash
  BY <1>3, CrashType, CrashNoPhantom
<1>4. CASE UNCHANGED vars
  <2>1. TypeOK'
    BY <1>4 DEF vars, TypeOK
  <2>2. NoPhantom'
    BY <1>4, SameValues DEF vars
  <2> QED
    BY <2>1, <2>2
<1> QED
  BY <1>1, <1>2, <1>3, <1>4 DEF Next, Idle

(* Every behaviour, with any number of crashes, keeps them.                *)
LEMMA Invariance == Spec => []IInv
<1>1. Init => IInv
  BY InitType, InitNoPhantom DEF IInv
<1> QED
  BY <1>1, NextIInv, PTL DEF Spec

(* Type correctness: no update is made for a level beyond the last one.    *)
THEOREM TypeCorrect == Spec => []TypeOK
<1>1. IInv => TypeOK
  BY DEF IInv
<1> QED
  BY <1>1, Invariance, PTL

(* Whatever the interleaving of reads, writes and crashes, no aggregate of *)
(* any level stands for an observation that is not stored, or for one of   *)
(* another period.                                                         *)
THEOREM NeverPhantom == Spec => []NoPhantom
<1>1. IInv => NoPhantom
  BY DEF IInv
<1> QED
  BY <1>1, Invariance, PTL

-----------------------------------------------------------------------------
(* OwnDataSeen: BatchLanded is what makes it inductive.                    *)

(* No line has started.                                                    *)
LEMMA InitOwnData == Init => BatchLanded /\ OwnDataSeen
BY DEF Init, BatchLanded, OwnDataSeen, Acked

(* Lines start after the whole batch of their message is stored.           *)
LEMMA MessageStepBatch ==
  ASSUME TypeOK, BatchLanded, NEW m \in Message, Send(m) \/ MessageStep(m)
  PROVE  BatchLanded'
<1> USE DEF msgVars, rowVars
<1>1. CASE Send(m)
  BY <1>1, LineType DEF Send, TypeOK, BatchLanded
<1>2. CASE Consume(m)
  BY <1>2, LineType DEF Consume, TypeOK, BatchLanded
<1>3. CASE AckMessage(m)
  <2>1. \A n \in Message : at'[n] = IF n = m THEN "stored" ELSE at[n]
    BY <1>3 DEF AckMessage, TypeOK
  <2>2. Stamps[m] \subseteq raw
    BY <1>3 DEF AckMessage, BatchLanded
  <2>3. flight' = flight /\ raw' = raw
    BY <1>3 DEF AckMessage
  <2>4. ASSUME NEW k \in Line, task'[k].stage \in Acked
        PROVE  at'[k[1]] = "stored"
    <3>1. k[1] # m => task'[k] = task[k]
      BY <1>3 DEF AckMessage, StartLines
    <3> QED
      BY <2>1, <2>4, <3>1, LineType DEF BatchLanded
  <2> QED
    BY <2>1, <2>2, <2>3, <2>4 DEF BatchLanded
<1>4. ASSUME NEW t \in Stamps[m], LandObservation(m, t) PROVE BatchLanded'
  BY <1>4 DEF LandObservation, BatchLanded
<1> QED
  BY <1>1, <1>2, <1>3, <1>4 DEF MessageStep

(* Steps of messages start lines, and change no other update.              *)
LEMMA MessageStepOwnData ==
  ASSUME TypeOK, OwnDataSeen, BatchLanded,
         NEW m \in Message, Send(m) \/ MessageStep(m)
  PROVE  OwnDataSeen'
<1>1. CASE AckMessage(m)
  <2> SUFFICES ASSUME NEW k \in Line, task'[k].stage \in Acked \ {"due"}
               PROVE  task'[k] = task[k]
    BY DEF OwnDataSeen, CellOf, Covers
  <2>1. task'[k] \in {task[k], [task[k] EXCEPT !.stage = "due"]}
    BY <1>1 DEF AckMessage, StartLines
  <2>2. [task[k] EXCEPT !.stage = "due"].stage = "due"
    BY TaskType DEF Task
  <2> QED
    BY <2>1, <2>2
<1>2. CASE ~ AckMessage(m)
  <2>1. task' = task
    BY <1>2 DEF MessageStep, Send, Consume, LandObservation
  <2> QED
    BY <2>1 DEF OwnDataSeen, CellOf, Covers
<1> QED
  BY <1>1, <1>2

(* What a step of line k does to the stages, the values and the periods.   *)
LEMMA LineStepFrame ==
  ASSUME TypeOK, NEW k \in Line, LineStep(k)
  PROVE  /\ at' = at /\ flight' = flight /\ raw' = raw
         /\ \A j \in Line : j # k => task'[j] = task[j]
         /\ task'[k].stage \in Acked => task[k].stage \in Acked
         /\ task'[k].stage \in Acked \ {"due"} =>
              \/ StartRead(k)
              \/ /\ task[k].stage \in Acked \ {"due"}
                 /\ task'[k].value = task[k].value
                 /\ CellOf(k)' = CellOf(k)
<1> USE DEF msgVars, rowVars
<1>0. task[k] \in Task /\ task \in [Line -> Task]
  BY TaskType DEF TypeOK
<1>1. CASE StartRead(k)
  <2>1. \A j \in Line : j # k => task'[j] = task[j]
    BY <1>0, <1>1 DEF StartRead
  <2> QED
    BY <1>1, <2>1 DEF StartRead, Acked
<1>2. CASE FinishRead(k)
  <2>1. task' = [task EXCEPT ![k] = [task[k] EXCEPT !.stage = "queued"]]
    BY <1>0, <1>2 DEF FinishRead, GoTo
  <2>2. /\ \A j \in Line : j # k => task'[j] = task[j]
        /\ task'[k].value = task[k].value /\ CellOf(k)' = CellOf(k)
    BY <1>0, <2>1 DEF CellOf, Task
  <2> QED
    BY <1>2, <2>2 DEF FinishRead, Acked
<1>3. CASE IssueWrite(k)
  <2> DEFINE n == issued[CellOf(k)] + 1
  <2>0. task' = [task EXCEPT ![k].stage = "writing", ![k].stamp = n]
    BY <1>3 DEF IssueWrite
  <2> HIDE DEF n
  <2>1. task' = [task EXCEPT ![k] =
                   [task[k] EXCEPT !.stage = "writing", !.stamp = n]]
    BY <1>0, <2>0
  <2>2. /\ \A j \in Line : j # k => task'[j] = task[j]
        /\ task'[k].value = task[k].value /\ CellOf(k)' = CellOf(k)
    BY <1>0, <2>1 DEF CellOf, Task
  <2> QED
    BY <1>3, <2>2 DEF IssueWrite, Acked
<1>4. CASE LandWrite(k)
  <2>1. PICK s \in {"lost", "landed"} :
          GoTo(k, s) /\ (s = "landed" => task[k].stage = "writing")
    BY <1>4 DEF LandWrite, Landed
  <2>2. task' = [task EXCEPT ![k] = [task[k] EXCEPT !.stage = s]]
    BY <1>0, <2>1 DEF GoTo
  <2>3. /\ \A j \in Line : j # k => task'[j] = task[j]
        /\ task'[k].stage = s
        /\ task'[k].value = task[k].value /\ CellOf(k)' = CellOf(k)
    BY <1>0, <2>2 DEF CellOf, Task
  <2> QED
    BY <1>4, <2>1, <2>3 DEF LandWrite, Acked
<1>5. CASE AckWrite(k)
  <2>1. PICK r : task' = [task EXCEPT ![k] = r] /\ r.stage \in {"due", "done"}
    <3>1. CASE task[k].level < Levels
      BY <1>0, <1>5, <3>1 DEF AckWrite, Continue
    <3>2. CASE ~ (task[k].level < Levels)
      <4>1. task' = [task EXCEPT ![k] = [task[k] EXCEPT !.stage = "done"]]
        BY <1>0, <1>5, <3>2 DEF AckWrite, GoTo
      <4>2. [task[k] EXCEPT !.stage = "done"].stage = "done"
        BY <1>0 DEF Task
      <4> QED
        BY <4>1, <4>2
    <3> QED
      BY <3>1, <3>2
  <2>2. /\ \A j \in Line : j # k => task'[j] = task[j]
        /\ task'[k].stage \in {"due", "done"}
    BY <1>0, <2>1
  <2> QED
    BY <1>5, <2>2 DEF AckWrite, Acked
<1> QED
  BY <1>1, <1>2, <1>3, <1>4, <1>5 DEF LineStep

(* Steps of lines leave messages and observations alone.                   *)
LEMMA LineStepBatch ==
  ASSUME TypeOK, BatchLanded, NEW k \in Line, LineStep(k)
  PROVE  BatchLanded'
BY LineStepFrame DEF BatchLanded

(* A history is read after the batch of its message is stored.             *)
LEMMA LineStepOwnData ==
  ASSUME TypeOK, BatchLanded, OwnDataSeen, NEW k \in Line, LineStep(k)
  PROVE  OwnDataSeen'
<1> SUFFICES ASSUME NEW j \in Line, task'[j].level = 1,
                    task'[j].stage \in Acked \ {"due"}
             PROVE  Stamps[j[1]] \cap Covers(CellOf(j)') \subseteq task'[j].value
  BY DEF OwnDataSeen, Covers
<1>1. CASE j # k
  BY <1>1, LineStepFrame DEF OwnDataSeen, CellOf
<1>2. CASE j = k /\ ~ StartRead(k)
  BY <1>2, LineStepFrame DEF OwnDataSeen, CellOf
<1>3. CASE j = k /\ StartRead(k)
  <2> DEFINE h == History(task[k].level, task[k].shunk)
  <2>1. task' = [task EXCEPT ![k] = [task[k] EXCEPT !.stage = "reading", !.value = h]]
    BY <1>3 DEF StartRead, TypeOK
  <2> HIDE DEF h
  <2>2. /\ task'[k].value = h /\ task'[k].level = task[k].level
        /\ task'[k].shunk = task[k].shunk
    BY <2>1, TaskType DEF TypeOK, Task
  <2>3. Stamps[k[1]] \subseteq raw
    BY <1>3, LineType DEF StartRead, BatchLanded, Acked
  <2>4. h = {t \in raw : Shunk[1][t] = task[k].shunk}
    BY <1>3, <2>2 DEF h, History
  <2> QED
    BY <1>3, <2>2, <2>3, <2>4 DEF CellOf, Covers
<1> QED
  BY <1>1, <1>2, <1>3

(* A crash leaves no line under way.                                       *)
LEMMA CrashOwnData ==
  ASSUME TypeOK, BatchLanded, OwnDataSeen, Crash
  PROVE  BatchLanded' /\ OwnDataSeen'
<1>1. flight' = flight /\ raw' = raw
  BY DEF Crash
<1>2. \A m \in Message : /\ at'[m] = "writing" => at[m] = "writing"
                         /\ at'[m] = "stored" <=> at[m] = "stored"
  BY DEF Crash
<1>3. ASSUME NEW k \in Line PROVE task'[k].stage \notin Acked
  <2>1. CASE task[k].stage \in {"due", "reading", "queued", "landed"}
    <3>1. task'[k] = [task[k] EXCEPT !.stage = "lost"]
      BY <2>1 DEF Crash
    <3> QED
      BY <3>1, TaskType DEF Task, Acked
  <2>2. CASE task[k].stage = "writing"
    <3>1. task'[k] = [task[k] EXCEPT !.stage = "orphan"]
      BY <2>2 DEF Crash
    <3> QED
      BY <3>1, TaskType DEF Task, Acked
  <2>3. CASE task[k].stage \notin Acked
    <3>1. task'[k] = task[k]
      BY <2>3 DEF Crash, Acked
    <3> QED
      BY <2>3, <3>1
  <2> QED
    BY <2>1, <2>2, <2>3 DEF Acked
<1> QED
  BY <1>1, <1>2, <1>3 DEF BatchLanded, OwnDataSeen

OwnDataInv == TypeOK /\ NoPhantom /\ BatchLanded /\ OwnDataSeen

(* BatchLanded and OwnDataSeen, with the types, are inductive.             *)
LEMMA NextOwnData == OwnDataInv /\ [Next]_vars => OwnDataInv'
<1> SUFFICES ASSUME OwnDataInv, [Next]_vars PROVE OwnDataInv'
  OBVIOUS
<1> USE DEF OwnDataInv
<1>0. TypeOK' /\ NoPhantom'
  BY NextIInv DEF IInv
<1>1. ASSUME NEW m \in Message, Send(m) \/ MessageStep(m)
      PROVE  BatchLanded' /\ OwnDataSeen'
  BY <1>1, MessageStepBatch, MessageStepOwnData
<1>2. ASSUME NEW k \in Line, LineStep(k) PROVE BatchLanded' /\ OwnDataSeen'
  BY <1>2, LineStepBatch, LineStepOwnData
<1>3. CASE Crash
  BY <1>0, <1>3, CrashOwnData
<1>4. CASE UNCHANGED vars
  BY <1>0, <1>4 DEF vars, BatchLanded, OwnDataSeen, CellOf, Covers
<1> QED
  BY <1>0, <1>1, <1>2, <1>3, <1>4 DEF Next, Idle

(* An aggregate of the first level never misses the observations of the    *)
(* message that triggered it: the trigger leaves after the whole batch,    *)
(* and the history is read after the trigger, even across crashes.         *)
THEOREM OwnDataAlwaysSeen == Spec => []OwnDataSeen
<1>1. Init => OwnDataInv
  BY InitType, InitNoPhantom, InitOwnData DEF OwnDataInv
<1>2. OwnDataInv => OwnDataSeen
  BY DEF OwnDataInv
<1> QED
  BY <1>1, <1>2, NextOwnData, PTL DEF Spec

-----------------------------------------------------------------------------
(* What each step does to the updates, field by field.                     *)

(* Everything but the stage of update j stays.                             *)
Kept(j) ==
  /\ task'[j].level = task[j].level /\ task'[j].shunk = task[j].shunk
  /\ task'[j].value = task[j].value /\ task'[j].stamp = task[j].stamp

(* Only the stage of update k changes, to s.                               *)
Moves(k, s) ==
  \A j \in Line : Kept(j) /\ task'[j].stage = IF j = k THEN s ELSE task[j].stage

(* An update that keeps its period keeps its cell and its input.           *)
LEMMA KeptCell ==
  ASSUME NEW j \in Line, task'[j].level = task[j].level,
         task'[j].shunk = task[j].shunk
  PROVE  CellOf(j)' = CellOf(j) /\ InputOf(j)' = InputOf(j)
BY DEF CellOf, InputOf

(* A change of stage changes nothing else.                                 *)
LEMMA GoToMoves ==
  ASSUME TypeOK, NEW k \in Line, NEW s, GoTo(k, s)
  PROVE  Moves(k, s)
<1>1. task' = [task EXCEPT ![k] = [task[k] EXCEPT !.stage = s]]
  BY DEF TypeOK, GoTo
<1>2. \A j \in Line : task'[j] = IF j = k THEN [task[k] EXCEPT !.stage = s]
                                         ELSE task[j]
  BY <1>1 DEF TypeOK
<1> QED
  BY <1>2, TaskType DEF Moves, Kept, Task

(* A read starts by fixing the history.                                    *)
LEMMA StartReadFrame ==
  ASSUME TypeOK, NEW k \in Line, StartRead(k)
  PROVE  /\ task[k].stage = "due" /\ task'[k].stage = "reading"
         /\ task'[k].level = task[k].level /\ task'[k].shunk = task[k].shunk
         /\ task'[k].value = History(task[k].level, task[k].shunk)
         /\ \A j \in Line : j # k => task'[j] = task[j]
<1> DEFINE h == History(task[k].level, task[k].shunk)
<1>1. task[k].stage = "due"
  BY DEF StartRead
<1>2. task' = [task EXCEPT ![k] = [task[k] EXCEPT !.stage = "reading", !.value = h]]
  BY DEF StartRead, TypeOK
<1> HIDE DEF h
<1>3. /\ task'[k] = [task[k] EXCEPT !.stage = "reading", !.value = h]
      /\ \A j \in Line : j # k => task'[j] = task[j]
  BY <1>2 DEF TypeOK
<1>4. /\ task'[k].stage = "reading" /\ task'[k].value = h
      /\ task'[k].level = task[k].level /\ task'[k].shunk = task[k].shunk
  BY <1>3, TaskType DEF Task
<1> QED
  BY <1>1, <1>3, <1>4 DEF h

(* A write is issued under the next timestamp of its cell.                 *)
LEMMA IssueFrame ==
  ASSUME TypeOK, NEW k \in Line, IssueWrite(k)
  PROVE  /\ task[k].stage = "queued" /\ task'[k].stage = "writing"
         /\ task'[k].level = task[k].level /\ task'[k].shunk = task[k].shunk
         /\ task'[k].value = task[k].value
         /\ task'[k].stamp = issued[CellOf(k)] + 1
         /\ \A j \in Line : j # k => task'[j] = task[j]
         /\ \A d \in Cell :
              /\ issued'[d] = IF d = CellOf(k) THEN issued[d] + 1 ELSE issued[d]
              /\ announced'[d] = IF d = CellOf(k) THEN task[k].value
                                                 ELSE announced[d]
         /\ regressed \subseteq regressed'
         /\ CellOf(k) \notin regressed' => announced[CellOf(k)] \subseteq task[k].value
         /\ \A d \in regressed' : d \in regressed
                \/ (d = CellOf(k) /\ ~ (announced[d] \subseteq task[k].value))
<1> DEFINE c == CellOf(k)
           n == issued[c] + 1
<1>0. c \in Cell
  BY CellOfType
<1>1. /\ task[k].stage = "queued"
      /\ task' = [task EXCEPT ![k].stage = "writing", ![k].stamp = n]
      /\ issued' = [issued EXCEPT ![c] = n]
      /\ announced' = [announced EXCEPT ![c] = task[k].value]
      /\ regressed' = regressed \cup {d \in {c} : ~ (announced[c] \subseteq task[k].value)}
  BY DEF IssueWrite
<1>2. \A d \in Cell :
         /\ issued'[d] = IF d = c THEN issued[d] + 1 ELSE issued[d]
         /\ announced'[d] = IF d = c THEN task[k].value ELSE announced[d]
  BY <1>0, <1>1 DEF TypeOK
<1>3. /\ regressed \subseteq regressed'
      /\ c \notin regressed' => announced[c] \subseteq task[k].value
      /\ \A d \in regressed' : d \in regressed
            \/ (d = c /\ ~ (announced[d] \subseteq task[k].value))
  BY <1>1
<1> HIDE DEF n
<1>4. task' = [task EXCEPT ![k] = [task[k] EXCEPT !.stage = "writing", !.stamp = n]]
  BY <1>1 DEF TypeOK
<1>5. /\ task'[k] = [task[k] EXCEPT !.stage = "writing", !.stamp = n]
      /\ \A j \in Line : j # k => task'[j] = task[j]
  BY <1>4 DEF TypeOK
<1>6. /\ task'[k].stage = "writing" /\ task'[k].stamp = n
      /\ task'[k].level = task[k].level /\ task'[k].shunk = task[k].shunk
      /\ task'[k].value = task[k].value
  BY <1>5, TaskType DEF Task
<1> QED
  BY <1>1, <1>2, <1>3, <1>5, <1>6 DEF n

(* A write that is applied replaces the row if it is later.                *)
LEMMA LandFrame ==
  ASSUME TypeOK, NEW k \in Line, LandWrite(k)
  PROVE  /\ task[k].stage \in {"writing", "orphan"}
         /\ Moves(k, IF task[k].stage = "orphan" THEN "lost" ELSE "landed")
         /\ \A d \in Cell :
              IF d = CellOf(k) /\ rows[d].stamp < task[k].stamp
              THEN rows'[d].value = task[k].value /\ rows'[d].stamp = task[k].stamp
              ELSE rows'[d] = rows[d]
<1> DEFINE new == [value |-> task[k].value, stamp |-> task[k].stamp]
<1>0. CellOf(k) \in Cell
  BY CellOfType
<1>1. task[k].stage \in {"writing", "orphan"}
  BY DEF LandWrite
<1>2. Moves(k, IF task[k].stage = "orphan" THEN "lost" ELSE "landed")
  BY GoToMoves DEF LandWrite, Landed
<1>3. rows' = [rows EXCEPT ![CellOf(k)] =
                 IF rows[CellOf(k)].stamp < task[k].stamp THEN new
                 ELSE rows[CellOf(k)]]
  BY DEF LandWrite
<1>4. new.value = task[k].value /\ new.stamp = task[k].stamp
  OBVIOUS
<1> HIDE DEF new
<1>5. \A d \in Cell : rows'[d] = IF d = CellOf(k) /\ rows[d].stamp < task[k].stamp
                                 THEN new ELSE rows[d]
  BY <1>0, <1>3 DEF TypeOK
<1> QED
  BY <1>1, <1>2, <1>4, <1>5

(* A line goes on with the next level, or ends at the last one.            *)
LEMMA AckFrame ==
  ASSUME TypeOK, NEW k \in Line, AckWrite(k)
  PROVE  /\ task[k].stage = "landed"
         /\ \A j \in Line : j # k => task'[j] = task[j]
         /\ \/ /\ task[k].level + 1 \in Level
               /\ task'[k].stage = "due" /\ task'[k].level = task[k].level + 1
               /\ task'[k].shunk = Shunk[task[k].level + 1][task[k].shunk]
               /\ task'[k].value = {}
            \/ /\ task[k].level = Levels /\ task'[k].stage = "done"
               /\ Kept(k)
<1>0. task[k].level \in Level /\ task \in [Line -> Task]
  BY TaskType DEF Task, TypeOK
<1>1. task[k].stage = "landed"
  BY DEF AckWrite
<1>2. CASE task[k].level < Levels
  <2> DEFINE r == [stage |-> "due", level |-> task[k].level + 1,
                   shunk |-> Shunk[task[k].level + 1][task[k].shunk],
                   value |-> {}, stamp |-> 0]
  <2>1. task' = [task EXCEPT ![k] = r]
    BY <1>0, <1>2 DEF AckWrite, Continue
  <2>2. task'[k] = r /\ \A j \in Line : j # k => task'[j] = task[j]
    BY <1>0, <2>1
  <2>3. task[k].level + 1 \in Level
    BY <1>0, <1>2, LevelType
  <2> QED
    BY <1>1, <2>2, <2>3
<1>3. CASE ~ (task[k].level < Levels)
  <2>1. GoTo(k, "done")
    BY <1>3 DEF AckWrite
  <2>2. task'[k].stage = "done" /\ Kept(k)
    BY <2>1, GoToMoves DEF Moves
  <2>3. \A j \in Line : j # k => task'[j] = task[j]
    BY <1>0, <2>1 DEF GoTo
  <2>4. task[k].level = Levels
    BY <1>0, <1>3, LevelsAssumption DEF Level
  <2> QED
    BY <1>1, <2>2, <2>3, <2>4
<1> QED
  BY <1>2, <1>3

(* The lines of an acknowledged message become due.                        *)
LEMMA AckMessageFrame ==
  ASSUME TypeOK, NEW m \in Message, AckMessage(m)
  PROVE  \A j \in Line : /\ Kept(j)
                         /\ j[1] = m => task'[j].stage = "due"
                         /\ j[1] # m => task'[j] = task[j]
<1> SUFFICES ASSUME NEW j \in Line
             PROVE  /\ Kept(j)
                    /\ j[1] = m => task'[j].stage = "due"
                    /\ j[1] # m => task'[j] = task[j]
  OBVIOUS
<1>1. task'[j] = IF j[1] = m THEN [task[j] EXCEPT !.stage = "due"] ELSE task[j]
  BY DEF AckMessage, StartLines
<1> QED
  BY <1>1, TaskType DEF Kept, Task

(* A crash loses updates, or leaves their writes behind.                   *)
LEMMA CrashFrame ==
  ASSUME TypeOK, Crash
  PROVE  \A j \in Line :
           /\ Kept(j)
           /\ task[j].stage \in {"due", "reading", "queued", "landed"} =>
                task'[j].stage = "lost"
           /\ task[j].stage = "writing" => task'[j].stage = "orphan"
           /\ task[j].stage \in {"none", "done", "orphan", "lost"} =>
                task'[j].stage = task[j].stage
<1> SUFFICES ASSUME NEW j \in Line
             PROVE  /\ Kept(j)
                    /\ task[j].stage \in {"due", "reading", "queued", "landed"} =>
                         task'[j].stage = "lost"
                    /\ task[j].stage = "writing" => task'[j].stage = "orphan"
                    /\ task[j].stage \in {"none", "done", "orphan", "lost"} =>
                         task'[j].stage = task[j].stage
  OBVIOUS
<1>1. task'[j] = CASE task[j].stage \in {"due", "reading", "queued", "landed"} ->
                        [task[j] EXCEPT !.stage = "lost"]
                   [] task[j].stage = "writing" ->
                        [task[j] EXCEPT !.stage = "orphan"]
                   [] OTHER -> task[j]
  BY DEF Crash
<1> QED
  BY <1>1, TaskType DEF Kept, Task

-----------------------------------------------------------------------------
(* AnnouncedIsStored: of the writes of a row, the last one issued wins,    *)
(* and it is the one that Kafka got last.                                  *)

(* The write of update j may still be applied.                             *)
Submitted(j) == task[j].stage \in {"writing", "orphan"}

(* No write is issued or applied.                                          *)
Quiet ==
  /\ UNCHANGED rowVars
  /\ \A j \in Line : Submitted(j)' => Submitted(j) /\ Kept(j)
  /\ crashes' = 0 =>
       /\ crashes = 0
       /\ \A j \in Line :
            /\ task[j].stage = "writing" => task'[j].stage = "writing" /\ Kept(j)
            /\ task'[j].stage \in {"orphan", "lost"} =>
                 task[j].stage \in {"orphan", "lost"}

(* Steps other than those of the writing stage neither submit a write nor  *)
(* forget one, unless the Processor crashes.                               *)
LEMMA QuietSteps ==
  ASSUME TypeOK, BatchLanded, [Next]_vars
  PROVE  Quiet \/ \E k \in Line : IssueWrite(k) \/ LandWrite(k)
<1> USE DEF msgVars, rowVars
<1>1. ASSUME task' = task, crashes' = crashes, UNCHANGED rowVars
      PROVE  Quiet
  BY <1>1 DEF Quiet, Submitted, Kept
<1>2. ASSUME NEW k \in Line, crashes' = crashes, UNCHANGED rowVars,
             \A j \in Line : j # k => task'[j] = task[j],
             task[k].stage # "writing",
             task'[k].stage \notin {"writing", "orphan", "lost"}
      PROVE  Quiet
  BY <1>2 DEF Quiet, Submitted, Kept
<1>3. ASSUME NEW m \in Message, Send(m) \/ MessageStep(m) PROVE Quiet
  <2>1. CASE AckMessage(m)
    <3>1. crashes' = crashes /\ UNCHANGED rowVars /\ at[m] = "writing"
      BY <2>1 DEF AckMessage
    <3>2. \A j \in Line : j[1] = m => task[j].stage # "writing"
                                       /\ task'[j].stage = "due"
      BY <2>1, <3>1, AckMessageFrame DEF BatchLanded, Acked
    <3>3. \A j \in Line : j[1] # m => task'[j] = task[j]
      BY <2>1, AckMessageFrame
    <3> QED
      BY <3>1, <3>2, <3>3 DEF Quiet, Submitted, Kept
  <2>2. CASE ~ AckMessage(m)
    BY <1>1, <1>3, <2>2 DEF MessageStep, Send, Consume, LandObservation
  <2> QED
    BY <2>1, <2>2
<1>4. ASSUME NEW k \in Line, StartRead(k) PROVE Quiet
  <2>1. crashes' = crashes /\ UNCHANGED rowVars
    BY <1>4 DEF StartRead
  <2> QED
    BY <1>2, <1>4, <2>1, StartReadFrame
<1>5. ASSUME NEW k \in Line, FinishRead(k) PROVE Quiet
  <2>1. /\ crashes' = crashes /\ UNCHANGED rowVars
        /\ task[k].stage = "reading" /\ GoTo(k, "queued")
    BY <1>5 DEF FinishRead
  <2> QED
    BY <2>1, GoToMoves DEF Moves, Quiet, Submitted
<1>6. ASSUME NEW k \in Line, AckWrite(k) PROVE Quiet
  <2>1. crashes' = crashes /\ UNCHANGED rowVars
    BY <1>6 DEF AckWrite
  <2> QED
    BY <1>2, <1>6, <2>1, AckFrame
<1>7. CASE Crash
  <2>1. crashes' # 0 /\ UNCHANGED rowVars
    BY <1>7, SlotsAssumption DEF Crash, TypeOK
  <2>2. \A j \in Line : task[j].stage \in Stage
    BY TaskType DEF Task
  <2> QED
    BY <1>7, <2>1, <2>2, CrashFrame DEF Quiet, Submitted, Stage
<1>8. CASE UNCHANGED vars
  BY <1>1, <1>8 DEF vars
<1> QED
  BY <1>3, <1>4, <1>5, <1>6, <1>7, <1>8 DEF Next, Idle, LineStep

(* No write carries a timestamp that was not issued.                       *)
StampsOrdered ==
  /\ \A c \in Cell : rows[c].stamp <= issued[c]
  /\ \A j \in Line : Submitted(j) => task[j].stamp <= issued[CellOf(j)]

(* The latest write of a cell carries the announced value, and is applied  *)
(* or on its way.                                                          *)
LatestLands ==
  crashes = 0 =>
    /\ \A j \in Line : task[j].stage \notin {"orphan", "lost"}
    /\ \A c \in Cell : rows[c].stamp = issued[c] => rows[c].value = announced[c]
    /\ \A j \in Line :
         Submitted(j) /\ task[j].stamp = issued[CellOf(j)]
           => task[j].value = announced[CellOf(j)]
    /\ \A c \in Cell :
         rows[c].stamp = issued[c]
           \/ \E j \in Line : /\ task[j].stage = "writing" /\ CellOf(j) = c
                              /\ task[j].stamp = issued[c]

(* Stamps are numbers.                                                     *)
LEMMA StampTypes ==
  ASSUME TypeOK
  PROVE  /\ \A c \in Cell : rows[c].stamp \in Nat /\ issued[c] \in Nat
         /\ \A j \in Line : /\ task[j].stamp \in Nat /\ CellOf(j) \in Cell
                            /\ issued[CellOf(j)] \in Nat
<1>1. \A c \in Cell : rows[c].stamp \in Nat /\ issued[c] \in Nat
  BY DEF TypeOK
<1>2. \A j \in Line : task[j].stamp \in Nat /\ CellOf(j) \in Cell
  BY TaskType, CellOfType DEF Task
<1> QED
  BY <1>1, <1>2

(* Timestamps are issued in increasing order, cell by cell.                *)
LEMMA NextStampsOrdered ==
  ASSUME TypeOK, BatchLanded, StampsOrdered, [Next]_vars
  PROVE  StampsOrdered'
<1>0. /\ \A c \in Cell : rows[c].stamp \in Nat /\ issued[c] \in Nat
      /\ \A j \in Line : /\ task[j].stamp \in Nat /\ CellOf(j) \in Cell
                         /\ issued[CellOf(j)] \in Nat
  BY StampTypes
<1>1. CASE Quiet
  <2>1. \A j \in Line : Submitted(j)' => /\ Submitted(j) /\ CellOf(j)' = CellOf(j)
                                         /\ task'[j].stamp = task[j].stamp
    BY <1>1, KeptCell DEF Quiet, Kept
  <2> QED
    BY <1>1, <2>1 DEF Quiet, rowVars, StampsOrdered
<1>2. ASSUME NEW k \in Line, IssueWrite(k) PROVE StampsOrdered'
  <2>1. rows' = rows
    BY <1>2 DEF IssueWrite
  <2>2. \A c \in Cell : issued[c] <= issued'[c] /\ issued'[c] \in Nat
    BY <1>0, <1>2, IssueFrame
  <2>3. \A c \in Cell : rows'[c].stamp <= issued'[c]
    BY <1>0, <2>1, <2>2 DEF StampsOrdered
  <2>4. CellOf(k)' = CellOf(k) /\ task'[k].stamp = issued'[CellOf(k)]
    BY <1>0, <1>2, IssueFrame, KeptCell
  <2>5. ASSUME NEW j \in Line, j # k, Submitted(j)'
        PROVE  task'[j].stamp <= issued'[CellOf(j)']
    <3>1. task'[j] = task[j]
      BY <1>2, <2>5, IssueFrame
    <3>2. Submitted(j) /\ CellOf(j)' = CellOf(j)
      BY <2>5, <3>1 DEF Submitted, CellOf
    <3> QED
      BY <1>0, <2>2, <3>1, <3>2 DEF StampsOrdered
  <2>6. \A j \in Line : Submitted(j)' => task'[j].stamp <= issued'[CellOf(j)']
    <3>1. task'[k].stamp <= issued'[CellOf(k)']
      BY <1>0, <2>2, <2>4
    <3> QED
      BY <2>5, <3>1
  <2> QED
    BY <2>3, <2>6 DEF StampsOrdered
<1>3. ASSUME NEW k \in Line, LandWrite(k) PROVE StampsOrdered'
  <2>1. issued' = issued
    BY <1>3 DEF LandWrite
  <2>2. \A j \in Line : /\ CellOf(j)' = CellOf(j) /\ task'[j].stamp = task[j].stamp
                        /\ Submitted(j)' => Submitted(j)
    BY <1>3, LandFrame, KeptCell DEF Moves, Kept, Submitted
  <2>3. Submitted(k)
    BY <1>3 DEF LandWrite, Submitted
  <2>4. ASSUME NEW c \in Cell PROVE rows'[c].stamp <= issued[c]
    BY <1>3, <2>3, LandFrame DEF StampsOrdered
  <2> QED
    BY <2>1, <2>2, <2>4 DEF StampsOrdered
<1> QED
  BY <1>1, <1>2, <1>3, QuietSteps

(* Unless a crash interferes, the latest write of a cell is never lost.    *)
LEMMA NextLatestLands ==
  ASSUME TypeOK, BatchLanded, StampsOrdered, LatestLands, [Next]_vars
  PROVE  LatestLands'
<1> SUFFICES ASSUME crashes' = 0
             PROVE
    /\ \A j \in Line : task'[j].stage \notin {"orphan", "lost"}
    /\ \A c \in Cell : rows'[c].stamp = issued'[c] => rows'[c].value = announced'[c]
    /\ \A j \in Line :
         Submitted(j)' /\ task'[j].stamp = issued'[CellOf(j)']
           => task'[j].value = announced'[CellOf(j)']
    /\ \A c \in Cell :
         rows'[c].stamp = issued'[c]
           \/ \E j \in Line : /\ task'[j].stage = "writing" /\ CellOf(j)' = c
                              /\ task'[j].stamp = issued'[c]
  BY DEF LatestLands
<1>0. /\ \A c \in Cell : rows[c].stamp \in Nat /\ issued[c] \in Nat
      /\ \A j \in Line : /\ task[j].stamp \in Nat /\ CellOf(j) \in Cell
                         /\ issued[CellOf(j)] \in Nat
  BY StampTypes
<1>1. CASE Quiet
  <2>1. /\ crashes = 0 /\ UNCHANGED rowVars
        /\ \A j \in Line : Submitted(j)' => /\ Submitted(j) /\ Kept(j)
                                            /\ CellOf(j)' = CellOf(j)
        /\ \A j \in Line : task[j].stage = "writing" =>
             task'[j].stage = "writing" /\ Kept(j) /\ CellOf(j)' = CellOf(j)
        /\ \A j \in Line : task'[j].stage \in {"orphan", "lost"} =>
             task[j].stage \in {"orphan", "lost"}
    BY <1>1, KeptCell DEF Quiet, Kept
  <2>2. \A j \in Line : task'[j].stage \notin {"orphan", "lost"}
    BY <2>1 DEF LatestLands
  <2>3. \A c \in Cell : rows'[c].stamp = issued'[c] => rows'[c].value = announced'[c]
    BY <2>1 DEF LatestLands, rowVars
  <2>4. ASSUME NEW j \in Line, Submitted(j)', task'[j].stamp = issued'[CellOf(j)']
        PROVE  task'[j].value = announced'[CellOf(j)']
    BY <2>1, <2>4 DEF LatestLands, rowVars, Kept
  <2>5. ASSUME NEW c \in Cell, rows'[c].stamp # issued'[c]
        PROVE  \E j \in Line : /\ task'[j].stage = "writing" /\ CellOf(j)' = c
                               /\ task'[j].stamp = issued'[c]
    <3>1. PICK j \in Line : task[j].stage = "writing" /\ CellOf(j) = c
                             /\ task[j].stamp = issued[c]
      BY <2>1, <2>5 DEF LatestLands, rowVars
    <3> QED
      BY <2>1, <3>1 DEF rowVars, Kept
  <2> QED
    BY <2>2, <2>3, <2>4, <2>5
<1>2. ASSUME NEW k \in Line, IssueWrite(k)
      PROVE
    /\ \A j \in Line : task'[j].stage \notin {"orphan", "lost"}
    /\ \A c \in Cell : rows'[c].stamp = issued'[c] => rows'[c].value = announced'[c]
    /\ \A j \in Line :
         Submitted(j)' /\ task'[j].stamp = issued'[CellOf(j)']
           => task'[j].value = announced'[CellOf(j)']
    /\ \A c \in Cell :
         rows'[c].stamp = issued'[c]
           \/ \E j \in Line : /\ task'[j].stage = "writing" /\ CellOf(j)' = c
                              /\ task'[j].stamp = issued'[c]
  <2>1. crashes = 0 /\ rows' = rows
    BY <1>2 DEF IssueWrite
  <2>2. /\ CellOf(k)' = CellOf(k)
        /\ task'[k].stage = "writing" /\ task'[k].value = announced'[CellOf(k)]
        /\ task'[k].stamp = issued'[CellOf(k)]
        /\ issued'[CellOf(k)] = issued[CellOf(k)] + 1
    BY <1>0, <1>2, IssueFrame, KeptCell
  <2>3. \A j \in Line : j # k => task'[j] = task[j] /\ CellOf(j)' = CellOf(j)
                                  /\ (Submitted(j)' <=> Submitted(j))
    BY <1>2, IssueFrame DEF CellOf, Submitted
  <2>4. \A c \in Cell : c # CellOf(k) =>
           issued'[c] = issued[c] /\ announced'[c] = announced[c]
    BY <1>2, IssueFrame
  <2>5. rows[CellOf(k)].stamp < issued'[CellOf(k)]
    BY <1>0, <2>2 DEF StampsOrdered
  <2>6. \A j \in Line : task'[j].stage \notin {"orphan", "lost"}
    BY <2>1, <2>2, <2>3 DEF LatestLands
  <2>7. ASSUME NEW c \in Cell, rows'[c].stamp = issued'[c]
        PROVE  rows'[c].value = announced'[c]
    <3>1. c # CellOf(k)
      BY <1>0, <2>1, <2>2, <2>5, <2>7
    <3> QED
      BY <2>1, <2>4, <2>7, <3>1 DEF LatestLands
  <2>8. ASSUME NEW j \in Line, Submitted(j)', task'[j].stamp = issued'[CellOf(j)']
        PROVE  task'[j].value = announced'[CellOf(j)']
    <3>1. CASE j = k
      BY <2>2, <3>1
    <3>2. CASE j # k
      <4>1. /\ Submitted(j) /\ task'[j] = task[j] /\ CellOf(j)' = CellOf(j)
            /\ task[j].stamp <= issued[CellOf(j)]
        BY <2>3, <2>8, <3>2 DEF StampsOrdered
      <4>2. CellOf(j) # CellOf(k)
        BY <1>0, <2>2, <2>8, <4>1
      <4>3. /\ issued'[CellOf(j)] = issued[CellOf(j)]
            /\ announced'[CellOf(j)] = announced[CellOf(j)]
        BY <1>0, <2>4, <4>2
      <4> QED
        BY <2>1, <2>8, <4>1, <4>3 DEF LatestLands
    <3> QED
      BY <3>1, <3>2
  <2>9. ASSUME NEW c \in Cell, rows'[c].stamp # issued'[c]
        PROVE  \E j \in Line : /\ task'[j].stage = "writing" /\ CellOf(j)' = c
                               /\ task'[j].stamp = issued'[c]
    <3>1. CASE c = CellOf(k)
      BY <2>2, <3>1
    <3>2. CASE c # CellOf(k)
      <4>1. PICK j \in Line : task[j].stage = "writing" /\ CellOf(j) = c
                               /\ task[j].stamp = issued[c]
        BY <2>1, <2>4, <2>9, <3>2 DEF LatestLands
      <4> QED
        BY <2>3, <2>4, <3>2, <4>1
    <3> QED
      BY <3>1, <3>2
  <2> QED
    BY <2>6, <2>7, <2>8, <2>9
<1>3. ASSUME NEW k \in Line, LandWrite(k)
      PROVE
    /\ \A j \in Line : task'[j].stage \notin {"orphan", "lost"}
    /\ \A c \in Cell : rows'[c].stamp = issued'[c] => rows'[c].value = announced'[c]
    /\ \A j \in Line :
         Submitted(j)' /\ task'[j].stamp = issued'[CellOf(j)']
           => task'[j].value = announced'[CellOf(j)']
    /\ \A c \in Cell :
         rows'[c].stamp = issued'[c]
           \/ \E j \in Line : /\ task'[j].stage = "writing" /\ CellOf(j)' = c
                              /\ task'[j].stamp = issued'[c]
  <2>1. crashes = 0 /\ issued' = issued /\ announced' = announced
    BY <1>3 DEF LandWrite
  <2>2. task[k].stage = "writing" /\ Submitted(k) /\ Moves(k, "landed")
    BY <1>3, <2>1, LandFrame DEF LatestLands, Submitted
  <2>3. \A j \in Line : /\ CellOf(j)' = CellOf(j) /\ Kept(j)
                        /\ task'[j].stage = IF j = k THEN "landed" ELSE task[j].stage
                        /\ Submitted(j)' => Submitted(j)
    BY <2>2, KeptCell DEF Moves, Kept, Submitted
  <2>4. /\ \A c \in Cell :
             IF c = CellOf(k) /\ rows[c].stamp < task[k].stamp
             THEN rows'[c].value = task[k].value /\ rows'[c].stamp = task[k].stamp
             ELSE rows'[c] = rows[c]
    BY <1>3, LandFrame
  <2>5. \A j \in Line : task'[j].stage \notin {"orphan", "lost"}
    BY <2>1, <2>3 DEF LatestLands
  <2>6. ASSUME NEW c \in Cell, rows'[c].stamp = issued'[c]
        PROVE  rows'[c].value = announced'[c]
    <3>1. CASE c = CellOf(k) /\ rows[c].stamp < task[k].stamp
      <4>1. task[k].stamp = issued[CellOf(k)]
        BY <2>1, <2>4, <2>6, <3>1
      <4> QED
        BY <2>1, <2>2, <2>4, <3>1, <4>1 DEF LatestLands
    <3>2. CASE ~ (c = CellOf(k) /\ rows[c].stamp < task[k].stamp)
      BY <2>1, <2>4, <2>6, <3>2 DEF LatestLands
    <3> QED
      BY <3>1, <3>2
  <2>7. ASSUME NEW j \in Line, Submitted(j)', task'[j].stamp = issued'[CellOf(j)']
        PROVE  task'[j].value = announced'[CellOf(j)']
    BY <2>1, <2>3, <2>7 DEF LatestLands, Kept
  <2>8. ASSUME NEW c \in Cell, rows'[c].stamp # issued'[c]
        PROVE  \E j \in Line : /\ task'[j].stage = "writing" /\ CellOf(j)' = c
                               /\ task'[j].stamp = issued'[c]
    <3>1. rows[c].stamp # issued[c]
      <4>1. SUFFICES ASSUME rows[c].stamp = issued[c] PROVE FALSE
        OBVIOUS
      <4>2. task[k].stamp <= issued[CellOf(k)]
        BY <2>2 DEF StampsOrdered
      <4>3. ~ (c = CellOf(k) /\ rows[c].stamp < task[k].stamp)
        BY <1>0, <4>1, <4>2
      <4> QED
        BY <2>1, <2>4, <2>8, <4>1, <4>3
    <3>2. PICK j \in Line : task[j].stage = "writing" /\ CellOf(j) = c
                             /\ task[j].stamp = issued[c]
      BY <2>1, <3>1 DEF LatestLands
    <3>3. j # k
      <4>1. SUFFICES ASSUME j = k PROVE FALSE
        OBVIOUS
      <4>2. rows[c].stamp < task[k].stamp
        BY <1>0, <3>1, <3>2, <4>1 DEF StampsOrdered
      <4> QED
        BY <2>1, <2>4, <2>8, <3>2, <4>1, <4>2
    <3> QED
      BY <2>1, <2>3, <3>2, <3>3 DEF Kept
  <2> QED
    BY <2>5, <2>6, <2>7, <2>8
<1> QED
  BY <1>1, <1>2, <1>3, QuietSteps

(* The invariant behind AnnouncedIsStored.                                 *)
WriteInv == OwnDataInv /\ StampsOrdered /\ LatestLands

(* No write is issued in an empty database.                                *)
LEMMA InitWriteInv == Init => WriteInv
<1> SUFFICES ASSUME Init PROVE WriteInv
  OBVIOUS
<1>1. OwnDataInv
  BY InitType, InitNoPhantom, InitOwnData DEF OwnDataInv
<1>2. /\ \A c \in Cell : /\ rows[c].stamp = 0 /\ issued[c] = 0
                         /\ rows[c].value = {} /\ announced[c] = {}
      /\ \A j \in Line : task[j].stage = "none"
  BY DEF Init
<1>3. StampsOrdered
  BY <1>2 DEF StampsOrdered, Submitted
<1>4. LatestLands
  BY <1>2 DEF LatestLands, Submitted
<1> QED
  BY <1>1, <1>3, <1>4 DEF WriteInv

(* The stamps and the latest writes, with what precedes, are inductive.    *)
LEMMA WriteInvariance == Spec => []WriteInv
<1>1. WriteInv /\ [Next]_vars => WriteInv'
  BY NextOwnData, NextStampsOrdered, NextLatestLands DEF WriteInv, OwnDataInv
<1> QED
  BY InitWriteInv, <1>1, PTL DEF Spec

(* Whatever the order in which Cassandra applies the writes, once all is   *)
(* processed the stored aggregates are those that Kafka got last.          *)
THEOREM FollowersAgree == Spec => []AnnouncedIsStored
<1>1. WriteInv => AnnouncedIsStored
  <2> SUFFICES ASSUME WriteInv, AtRest, crashes = 0, NEW c \in Cell
               PROVE  rows[c].value = announced[c]
    BY DEF AnnouncedIsStored
  <2>1. \A j \in Line : task[j].stage # "writing"
    BY DEF AtRest
  <2> QED
    BY <2>1 DEF WriteInv, LatestLands
<1> QED
  BY <1>1, WriteInvariance, PTL

-----------------------------------------------------------------------------
(* Where no write was issued out of order, a later write knows more.       *)

(* A write of cell c that may still be applied.                            *)
At(j, c) == Submitted(j) /\ CellOf(j) = c

Newer(c) ==
  /\ rows[c].value \subseteq announced[c]
  /\ \A j \in Line : At(j, c) =>
       /\ task[j].value \subseteq announced[c]
       /\ rows[c].stamp < task[j].stamp => rows[c].value \subseteq task[j].value
       /\ task[j].stamp <= rows[c].stamp => task[j].value \subseteq rows[c].value
  /\ \A i, j \in Line : At(i, c) /\ At(j, c) /\ task[i].stamp <= task[j].stamp
       => task[i].value \subseteq task[j].value

NewerKnowsMore == \A c \in Cell \ regressed : Newer(c)

(* A write issued in order knows more than all the earlier ones, and the   *)
(* order in which the writes are applied changes nothing to that.          *)
LEMMA NextNewerKnowsMore ==
  ASSUME TypeOK, BatchLanded, StampsOrdered, NewerKnowsMore, [Next]_vars
  PROVE  NewerKnowsMore'
<1> SUFFICES ASSUME NEW c \in Cell, c \notin regressed'
             PROVE
    /\ rows'[c].value \subseteq announced'[c]
    /\ \A j \in Line : At(j, c)' =>
         /\ task'[j].value \subseteq announced'[c]
         /\ rows'[c].stamp < task'[j].stamp => rows'[c].value \subseteq task'[j].value
         /\ task'[j].stamp <= rows'[c].stamp => task'[j].value \subseteq rows'[c].value
    /\ \A i, j \in Line : At(i, c)' /\ At(j, c)' /\ task'[i].stamp <= task'[j].stamp
         => task'[i].value \subseteq task'[j].value
  BY DEF NewerKnowsMore, Newer
<1>0. /\ rows[c].stamp \in Nat /\ issued[c] \in Nat /\ rows[c].stamp <= issued[c]
      /\ \A j \in Line : task[j].stamp \in Nat
      /\ \A j \in Line : At(j, c) => task[j].stamp <= issued[c]
  BY StampTypes DEF StampsOrdered, At
<1>1. CASE Quiet
  <2>1. Newer(c) /\ rows' = rows /\ announced' = announced
    BY <1>1 DEF Quiet, rowVars, NewerKnowsMore
  <2>2. \A j \in Line : At(j, c)' =>
           At(j, c) /\ task'[j].value = task[j].value
                    /\ task'[j].stamp = task[j].stamp
    BY <1>1, KeptCell DEF Quiet, Kept, At
  <2> QED
    BY <2>1, <2>2 DEF Newer
<1>2. ASSUME NEW k \in Line, IssueWrite(k)
      PROVE
    /\ rows'[c].value \subseteq announced'[c]
    /\ \A j \in Line : At(j, c)' =>
         /\ task'[j].value \subseteq announced'[c]
         /\ rows'[c].stamp < task'[j].stamp => rows'[c].value \subseteq task'[j].value
         /\ task'[j].stamp <= rows'[c].stamp => task'[j].value \subseteq rows'[c].value
    /\ \A i, j \in Line : At(i, c)' /\ At(j, c)' /\ task'[i].stamp <= task'[j].stamp
         => task'[i].value \subseteq task'[j].value
  <2>1. rows' = rows /\ c \notin regressed /\ Newer(c)
    BY <1>2, IssueFrame DEF IssueWrite, NewerKnowsMore
  <2>2. \A j \in Line : j # k => task'[j] = task[j] /\ (At(j, c)' <=> At(j, c))
    BY <1>2, IssueFrame DEF CellOf, Submitted, At
  <2>3. CellOf(k)' = CellOf(k) /\ task'[k].value = task[k].value
    BY <1>2, IssueFrame, KeptCell
  <2>4. CASE CellOf(k) # c
    <3>1. announced'[c] = announced[c] /\ ~ At(k, c)'
      BY <1>2, <2>3, <2>4, IssueFrame DEF At
    <3> QED
      BY <2>1, <2>2, <3>1 DEF Newer
  <2>5. CASE CellOf(k) = c
    <3>1. /\ announced'[c] = task[k].value /\ announced[c] \subseteq task[k].value
          /\ task'[k].stamp = issued[c] + 1
      BY <1>2, <2>5, IssueFrame
    <3>2. \A j \in Line : j # k /\ At(j, c)' =>
             /\ task'[j] = task[j] /\ At(j, c)
             /\ task[j].stamp < task'[k].stamp
             /\ task[j].value \subseteq task'[k].value
      BY <1>0, <2>1, <2>2, <2>3, <3>1 DEF Newer
    <3>3. /\ rows[c].value \subseteq task'[k].value
          /\ rows[c].stamp < task'[k].stamp
          /\ task'[k].stamp \in Nat
      BY <1>0, <2>1, <2>3, <3>1 DEF Newer
    <3>4. rows'[c].value \subseteq announced'[c]
      BY <2>1, <2>3, <3>1, <3>3
    <3>5. ASSUME NEW j \in Line, At(j, c)'
          PROVE  /\ task'[j].value \subseteq announced'[c]
                 /\ rows'[c].stamp < task'[j].stamp =>
                      rows'[c].value \subseteq task'[j].value
                 /\ task'[j].stamp <= rows'[c].stamp =>
                      task'[j].value \subseteq rows'[c].value
      <4>1. CASE j = k
        BY <1>0, <2>1, <2>3, <3>1, <3>3, <4>1
      <4>2. CASE j # k
        BY <2>1, <2>3, <3>1, <3>2, <3>5, <4>2 DEF Newer
      <4> QED
        BY <4>1, <4>2
    <3>6. ASSUME NEW i \in Line, NEW j \in Line, At(i, c)', At(j, c)',
                 task'[i].stamp <= task'[j].stamp
          PROVE  task'[i].value \subseteq task'[j].value
      <4>1. CASE j = k
        BY <3>2, <3>6, <4>1
      <4>2. CASE j # k
        <5>1. i # k
          BY <1>0, <3>2, <3>3, <3>6, <4>2
        <5> QED
          BY <2>1, <3>2, <3>6, <4>2, <5>1 DEF Newer
      <4> QED
        BY <4>1, <4>2
    <3> QED
      BY <3>4, <3>5, <3>6
  <2> QED
    BY <2>4, <2>5
<1>3. ASSUME NEW k \in Line, LandWrite(k)
      PROVE
    /\ rows'[c].value \subseteq announced'[c]
    /\ \A j \in Line : At(j, c)' =>
         /\ task'[j].value \subseteq announced'[c]
         /\ rows'[c].stamp < task'[j].stamp => rows'[c].value \subseteq task'[j].value
         /\ task'[j].stamp <= rows'[c].stamp => task'[j].value \subseteq rows'[c].value
    /\ \A i, j \in Line : At(i, c)' /\ At(j, c)' /\ task'[i].stamp <= task'[j].stamp
         => task'[i].value \subseteq task'[j].value
  <2>1. announced' = announced /\ Newer(c)
    BY <1>3 DEF LandWrite, NewerKnowsMore
  <2>2. \A j \in Line : /\ task'[j].value = task[j].value
                        /\ task'[j].stamp = task[j].stamp
                        /\ At(j, c)' => At(j, c)
    BY <1>3, LandFrame, KeptCell DEF Moves, Kept, Submitted, At
  <2>3. CASE c = CellOf(k) /\ rows[c].stamp < task[k].stamp
    <3>1. rows'[c].value = task[k].value /\ rows'[c].stamp = task[k].stamp
      BY <1>3, <2>3, LandFrame
    <3>2. At(k, c)
      BY <1>3, <2>3, LandFrame DEF At, Submitted
    <3>3. \A j \in Line : At(j, c) =>
             /\ task[k].stamp < task[j].stamp => task[k].value \subseteq task[j].value
             /\ task[j].stamp <= task[k].stamp => task[j].value \subseteq task[k].value
      BY <1>0, <2>1, <3>2 DEF Newer
    <3> QED
      BY <2>1, <2>2, <3>1, <3>2, <3>3 DEF Newer
  <2>4. CASE ~ (c = CellOf(k) /\ rows[c].stamp < task[k].stamp)
    <3>1. rows'[c] = rows[c]
      BY <1>3, <2>4, LandFrame
    <3> QED
      BY <2>1, <2>2, <3>1 DEF Newer
  <2> QED
    BY <2>3, <2>4
<1> QED
  BY <1>1, <1>2, <1>3, QuietSteps

(* Where no write was issued out of order, a row only grows.               *)
LEMMA RowsGrow ==
  ASSUME TypeOK, BatchLanded, NewerKnowsMore, [Next]_vars
  PROVE  /\ regressed \subseteq regressed'
         /\ \A c \in Cell \ regressed' : rows[c].value \subseteq rows'[c].value
<1>1. CASE Quiet
  BY <1>1 DEF Quiet, rowVars
<1>2. ASSUME NEW k \in Line, IssueWrite(k)
      PROVE  regressed \subseteq regressed' /\ rows' = rows
  BY <1>2, IssueFrame DEF IssueWrite
<1>3. ASSUME NEW k \in Line, LandWrite(k)
      PROVE  /\ regressed' = regressed
             /\ \A c \in Cell \ regressed : rows[c].value \subseteq rows'[c].value
  <2>1. regressed' = regressed
    BY <1>3 DEF LandWrite
  <2>2. ASSUME NEW c \in Cell \ regressed
        PROVE  rows[c].value \subseteq rows'[c].value
    <3>1. c = CellOf(k) => At(k, c)
      BY <1>3, LandFrame DEF At, Submitted
    <3> QED
      BY <1>3, <3>1, LandFrame DEF NewerKnowsMore, Newer
  <2> QED
    BY <2>1, <2>2
<1> QED
  BY <1>1, <1>2, <1>3, QuietSteps

(* Once a write is applied, the row knows what the write knew.             *)
LEMMA LandedIsKnown ==
  ASSUME TypeOK, NewerKnowsMore, NEW k \in Line, LandWrite(k),
         CellOf(k) \notin regressed
  PROVE  task[k].value \subseteq rows'[CellOf(k)].value
<1>1. CellOf(k) \in Cell /\ At(k, CellOf(k))
  BY LandFrame, CellOfType DEF At, Submitted
<1>2. rows[CellOf(k)].stamp \in Nat /\ task[k].stamp \in Nat
  BY <1>1, StampTypes
<1> QED
  BY <1>1, <1>2, LandFrame DEF NewerKnowsMore, Newer

-----------------------------------------------------------------------------
(* StaleOnlyIfOvertaken: level after level, the rows know the observations *)
(* of the message, unless writes were issued out of order.                 *)

(* The observations of its message that line k was started for.            *)
Own(k) == {t \in Stamps[k[1]] : Shunk[1][t] = k[2]}

(* A write of c, or of a finer period inside, was issued out of order.     *)
Overtaken(c) == \E d \in regressed : Within(d, c)

(* Level l knows observation t, or was overtaken.                          *)
Known(l, t) ==
  t \in rows[<<l, Shunk[l][t]>>].value \/ Overtaken(<<l, Shunk[l][t]>>)

(* Line k is over with level l.                                            *)
Passed(k, l) ==
  \/ task[k].stage \in Acked \cup {"done"} /\ l < task[k].level
  \/ task[k].stage \in {"landed", "done"} /\ l = task[k].level

(* Update k and its observation t: the period is the one of t, the value   *)
(* has t, and the rows of the levels that are over have t.                 *)
Seen(k, t) ==
  /\ Shunk[task[k].level][t] = task[k].shunk
  /\ task[k].stage \in Acked \ {"due"} =>
       t \in task[k].value \/ Overtaken(CellOf(k))
  /\ \A l \in Level : Passed(k, l) => Known(l, t)

AllSeen == \A k \in Line : \A t \in Own(k) : Seen(k, t)

(* Lines start at the first level when their message is stored, and end at *)
(* the last one.                                                           *)
Started ==
  \A k \in Line : /\ task[k].stage = "none" <=> at[k[1]] # "stored"
                  /\ task[k].stage = "none" => task[k].level = 1
                  /\ task[k].stage = "done" => task[k].level = Levels

(* Unless a crash interferes, what is stored belongs to messages that are  *)
(* not lost.                                                               *)
Accounted ==
  crashes = 0 =>
    /\ \A m \in Message : at[m] \in {"unsent", "topic", "writing", "stored"}
    /\ \A m \in Message, t \in Moment :
         <<m, t>> \in flight => t \in Stamps[m] /\ at[m] \in {"writing", "stored"}
    /\ \A t \in raw : \E m \in Message :
         t \in Stamps[m] /\ at[m] \in {"writing", "stored"}

(* A cell overtaken at one level is overtaken at the next one.             *)
LEMMA OvertakenUp ==
  ASSUME TypeOK, NEW l \in Level, l + 1 \in Level, NEW t \in Moment,
         Overtaken(<<l, Shunk[l][t]>>)
  PROVE  Overtaken(<<l + 1, Shunk[l + 1][t]>>)
<1>1. PICK d \in regressed : Within(d, <<l, Shunk[l][t]>>)
  BY DEF Overtaken
<1>2. d \in Cell /\ d[1] \in Level /\ d[2] \in Moment
  BY DEF TypeOK, Cell
<1>3. d[1] <= l + 1
  <2>1. d[1] \in Nat /\ l \in Nat
    BY <1>2, LevelType
  <2>2. d[1] <= l
    BY <1>1 DEF Within
  <2> QED
    BY <2>1, <2>2
<1>4. Shunk[l][t] \in Moment /\ Shunk[l + 1][Shunk[l][t]] = Shunk[l + 1][t]
  BY ShunkType, NestingAssumption
<1>5. Shunk[l + 1][d[2]] = Shunk[l + 1][t]
  <2>1. CASE d = <<l, Shunk[l][t]>>
    BY <1>4, <2>1
  <2>2. CASE Shunk[l][d[2]] = Shunk[l][t]
    BY <1>2, <1>4, <2>2, NestingAssumption
  <2> QED
    BY <1>1, <2>1, <2>2 DEF Within
<1> QED
  BY <1>3, <1>5 DEF Overtaken, Within

(* A cell whose own writes were issued out of order is overtaken.          *)
LEMMA OwnOvertaken ==
  ASSUME NEW c \in Cell, c \in regressed
  PROVE  Overtaken(c)
<1>1. c[1] \in Nat
  BY LevelType DEF Cell
<1>2. c[1] <= c[1]
  BY <1>1
<1> QED
  BY <1>2 DEF Overtaken, Within

(* What is known stays known.                                              *)
LEMMA StillKnown ==
  ASSUME TypeOK, TypeOK', BatchLanded, NewerKnowsMore, [Next]_vars
  PROVE  /\ \A c \in Cell : Overtaken(c) => Overtaken(c)'
         /\ \A l \in Level, t \in Moment : Known(l, t) => Known(l, t)'
<1>1. regressed \subseteq regressed'
  BY RowsGrow
<1>2. ASSUME NEW c, Overtaken(c) PROVE Overtaken(c)'
  BY <1>1, <1>2 DEF Overtaken, Within
<1>3. ASSUME NEW l \in Level, NEW t \in Moment, Known(l, t) PROVE Known(l, t)'
  <2> DEFINE c == <<l, Shunk[l][t]>>
  <2>0. c \in Cell
    BY ShunkType DEF Cell
  <2>1. CASE Overtaken(c)
    BY <1>2, <2>1 DEF Known
  <2>2. CASE t \in rows[c].value /\ c \in regressed'
    <3>1. l <= l
      BY LevelType
    <3>2. Within(c, c) /\ Overtaken(c)'
      BY <2>2, <3>1 DEF Overtaken, Within
    <3> QED
      BY <3>2 DEF Known
  <2>3. CASE t \in rows[c].value /\ c \notin regressed'
    <3>1. t \in rows'[c].value
      BY <2>0, <2>3, RowsGrow
    <3> QED
      BY <3>1 DEF Known
  <2> QED
    BY <1>3, <2>1, <2>2, <2>3 DEF Known
<1> QED
  BY <1>2, <1>3

(* An observation of a line is a moment.                                   *)
LEMMA OwnType ==
  ASSUME NEW k \in Line, NEW t \in Own(k)
  PROVE  t \in Moment /\ t \in Stamps[k[1]] /\ Shunk[1][t] = k[2]
BY LineType, StampsAssumption DEF Own

(* Steps that move an update forward within a level, or lose it.           *)
LEMMA SeenKept ==
  ASSUME TypeOK, TypeOK', BatchLanded, NewerKnowsMore, [Next]_vars,
         NEW j \in Line, NEW t \in Own(j), Seen(j, t), Kept(j),
         task'[j].stage \in Acked \ {"due"} => task[j].stage \in Acked \ {"due"},
         task'[j].stage \in Acked \cup {"done"} =>
           task[j].stage \in Acked \cup {"done"},
         task'[j].stage \in {"landed", "done"} => task[j].stage \in {"landed", "done"}
  PROVE  Seen(j, t)'
<1>0. /\ task[j].level \in Level /\ CellOf(j) \in Cell /\ CellOf(j)' = CellOf(j)
      /\ t \in Moment
  BY TaskType, CellOfType, KeptCell, OwnType DEF Kept, Task
<1>1. Shunk[task'[j].level][t] = task'[j].shunk
  BY DEF Seen, Kept
<1>2. task'[j].stage \in Acked \ {"due"} =>
        t \in task'[j].value \/ Overtaken(CellOf(j))'
  <2>1. Overtaken(CellOf(j)) => \E d \in regressed' : Within(d, CellOf(j))
    BY <1>0, RowsGrow DEF Overtaken
  <2>2. (\E d \in regressed' : Within(d, CellOf(j))) => Overtaken(CellOf(j))'
    BY <1>0 DEF Overtaken, Within
  <2> QED
    BY <2>1, <2>2 DEF Seen, Kept
<1>3. \A l \in Level : Known(l, t) => Known(l, t)'
  BY <1>0, StillKnown
<1>4. \A l \in Level : Passed(j, l)' => Passed(j, l)
  BY DEF Passed, Kept
<1> QED
  BY <1>1, <1>2, <1>3, <1>4 DEF Seen

(* A line is started by the acknowledgement of its message only.           *)
LEMMA NextStarted ==
  ASSUME TypeOK, BatchLanded, Started, [Next]_vars
  PROVE  Started'
<1>1. ASSUME at' = at, task' = task PROVE Started'
  BY <1>1 DEF Started
<1>2. ASSUME at' = at, NEW k \in Line, task[k].stage # "none",
             \A j \in Line : j # k => task'[j] = task[j],
             task'[k].stage # "none",
             task'[k].stage = "done" => task'[k].level = Levels
      PROVE  Started'
  BY <1>2 DEF Started
<1>3. ASSUME NEW m \in Message, Send(m) \/ MessageStep(m) PROVE Started'
  <2>1. CASE AckMessage(m)
    <3>1. at[m] = "writing" /\ \A n \in Message : at'[n] = IF n = m THEN "stored" ELSE at[n]
      BY <2>1 DEF AckMessage, TypeOK
    <3>2. ASSUME NEW k \in Line
          PROVE  /\ task'[k].stage = "none" <=> at'[k[1]] # "stored"
                 /\ task'[k].stage = "none" => task'[k].level = 1
                 /\ task'[k].stage = "done" => task'[k].level = Levels
      <4>1. CASE k[1] = m
        <5>1. task'[k].stage = "due" /\ at'[k[1]] = "stored"
          BY <2>1, <3>1, <4>1, AckMessageFrame
        <5> QED
          BY <5>1
      <4>2. CASE k[1] # m
        <5>1. task'[k] = task[k] /\ at'[k[1]] = at[k[1]]
          BY <2>1, <3>1, <4>2, AckMessageFrame, LineType
        <5> QED
          BY <5>1 DEF Started
      <4> QED
        BY <4>1, <4>2
    <3> QED
      BY <3>2 DEF Started
  <2>2. CASE ~ AckMessage(m)
    <3>1. task' = task
      BY <1>3, <2>2 DEF MessageStep, Send, Consume, LandObservation
    <3>2. \A n \in Message : at'[n] = "stored" <=> at[n] = "stored"
      BY <1>3, <2>2 DEF MessageStep, Send, Consume, LandObservation, TypeOK
    <3> QED
      BY <3>1, <3>2, LineType DEF Started
  <2> QED
    BY <2>1, <2>2
<1>4. ASSUME NEW k \in Line, StartRead(k) PROVE Started'
  <2>1. at' = at
    BY <1>4 DEF StartRead, msgVars
  <2> QED
    BY <1>2, <1>4, <2>1, StartReadFrame
<1>5. ASSUME NEW k \in Line, NEW s \in {"queued", "landed", "lost"},
             Moves(k, s), at' = at, task[k].stage # "none"
      PROVE  Started'
  BY <1>5 DEF Moves, Kept, Started
<1>6. ASSUME NEW k \in Line, FinishRead(k) PROVE Started'
  <2>1. at' = at /\ task[k].stage = "reading" /\ GoTo(k, "queued")
    BY <1>6 DEF FinishRead, msgVars
  <2> QED
    BY <1>5, <2>1, GoToMoves
<1>7. ASSUME NEW k \in Line, IssueWrite(k) PROVE Started'
  <2>1. at' = at
    BY <1>7 DEF IssueWrite, msgVars
  <2> QED
    BY <1>2, <1>7, <2>1, IssueFrame
<1>8. ASSUME NEW k \in Line, LandWrite(k) PROVE Started'
  <2>1. at' = at
    BY <1>8 DEF LandWrite, msgVars
  <2> QED
    BY <1>5, <1>8, <2>1, LandFrame
<1>9. ASSUME NEW k \in Line, AckWrite(k) PROVE Started'
  <2>1. at' = at
    BY <1>9 DEF AckWrite, msgVars
  <2> QED
    BY <1>2, <1>9, <2>1, AckFrame DEF Kept
<1>10. CASE Crash
  <2>1. \A n \in Message : at'[n] = "stored" <=> at[n] = "stored"
    BY <1>10 DEF Crash
  <2>2. \A j \in Line : /\ task'[j].level = task[j].level
                        /\ task'[j].stage = "none" <=> task[j].stage = "none"
                        /\ task'[j].stage = "done" => task[j].stage = "done"
    <3>1. \A j \in Line : task[j].stage \in Stage
      BY TaskType DEF Task
    <3> QED
      BY <1>10, <3>1, CrashFrame DEF Stage, Kept
  <2> QED
    BY <2>1, <2>2, LineType DEF Started
<1>11. CASE UNCHANGED vars
  BY <1>1, <1>11 DEF vars
<1> QED
  BY <1>3, <1>4, <1>6, <1>7, <1>8, <1>9, <1>10, <1>11 DEF Next, Idle, LineStep

(* Observations come from messages that are written.                       *)
LEMMA NextAccounted ==
  ASSUME TypeOK, Accounted, [Next]_vars
  PROVE  Accounted'
<1>0. /\ \A m \in Message : Stamps[m] \subseteq Moment
      /\ flight \subseteq Message \X Moment
  BY StampsAssumption DEF TypeOK
<1>1. ASSUME at' = at, flight' = flight, raw' = raw, crashes' = crashes
      PROVE  Accounted'
  BY <1>1 DEF Accounted
<1>2. ASSUME NEW m \in Message, Send(m) \/ MessageStep(m) PROVE Accounted'
  <2>1. CASE Send(m)
    <3>1. /\ flight' = flight /\ raw' = raw /\ crashes' = crashes
          /\ at[m] = "unsent"
          /\ \A n \in Message : at'[n] = IF n = m THEN "topic" ELSE at[n]
      BY <2>1 DEF Send, TypeOK
    <3> QED
      BY <3>1 DEF Accounted
  <2>2. CASE Consume(m)
    <3>1. /\ flight' = flight \cup ({m} \X Stamps[m])
          /\ raw' = raw /\ crashes' = crashes /\ at[m] = "topic"
          /\ \A n \in Message : at'[n] = IF n = m THEN "writing" ELSE at[n]
      BY <2>2 DEF Consume, TypeOK
    <3> QED
      BY <3>1 DEF Accounted
  <2>3. CASE AckMessage(m)
    <3>1. /\ flight' = flight /\ raw' = raw /\ crashes' = crashes
          /\ \A n \in Message : at'[n] = IF n = m THEN "stored" ELSE at[n]
      BY <2>3 DEF AckMessage, TypeOK
    <3> QED
      BY <3>1 DEF Accounted
  <2>4. ASSUME NEW t \in Stamps[m], LandObservation(m, t) PROVE Accounted'
    <3>1. /\ <<m, t>> \in flight /\ flight' \subseteq flight
          /\ raw' = raw \cup {t} /\ crashes' = crashes /\ at' = at
      BY <2>4 DEF LandObservation
    <3> QED
      BY <1>0, <3>1 DEF Accounted
  <2> QED
    BY <1>2, <2>1, <2>2, <2>3, <2>4 DEF MessageStep
<1>3. ASSUME NEW k \in Line, LineStep(k) PROVE Accounted'
  <2>1. crashes' = crashes
    BY <1>3 DEF LineStep, StartRead, FinishRead, IssueWrite, LandWrite, AckWrite
  <2> QED
    BY <1>1, <1>3, <2>1, LineStepFrame
<1>4. CASE Crash
  <2>1. crashes' # 0
    BY <1>4, SlotsAssumption DEF Crash, TypeOK
  <2> QED
    BY <2>1 DEF Accounted
<1>5. CASE UNCHANGED vars
  BY <1>1, <1>5 DEF vars
<1> QED
  BY <1>2, <1>3, <1>4, <1>5 DEF Next, Idle

(* The observations of a line that are read at the first level are those   *)
(* of the table of observations; at the next ones, those that the rows of  *)
(* the previous level know.                                                *)
LEMMA HistoryKnows ==
  ASSUME TypeOK, BatchLanded, NEW k \in Line, NEW t \in Own(k), Seen(k, t),
         task[k].stage \in Acked
  PROVE  t \in History(task[k].level, task[k].shunk) \/ Overtaken(CellOf(k))
<1> DEFINE l == task[k].level
           s == task[k].shunk
<1>0. /\ l \in Level /\ s \in Moment /\ t \in Moment /\ t \in Stamps[k[1]]
      /\ Shunk[l][t] = s
  BY TaskType, OwnType DEF Task, Seen
<1>1. CASE l = 1
  <2>1. t \in raw
    BY <1>0, LineType DEF BatchLanded
  <2> QED
    BY <1>0, <1>1, <2>1 DEF History
<1>2. CASE l # 1
  <2> DEFINE d == Shunk[l - 1][t]
  <2>1. l - 1 \in Level /\ (l - 1) + 1 = l /\ l - 1 < l
    <3> HIDE DEF l
    <3>1. l \in Level /\ l \in Nat /\ l # 1
      BY <1>0, <1>2, LevelType
    <3> QED
      BY <3>1, LevelType
  <2>2. d \in Moment /\ Shunk[l][d] = s
    <3>1. d \in Moment
      BY <1>0, <2>1, ShunkType
    <3>2. Shunk[(l - 1) + 1][Shunk[l - 1][t]] = Shunk[(l - 1) + 1][t]
      BY <1>0, <2>1, NestingAssumption
    <3> QED
      BY <1>0, <2>1, <3>1, <3>2
  <2>3. Known(l - 1, t)
    BY <2>1 DEF Seen, Passed
  <2>4. CASE t \in rows[<<l - 1, d>>].value
    BY <1>2, <2>2, <2>4 DEF History
  <2>5. CASE Overtaken(<<l - 1, d>>)
    <3>1. Overtaken(<<(l - 1) + 1, Shunk[(l - 1) + 1][t]>>)
      BY <1>0, <2>1, <2>5, OvertakenUp
    <3> QED
      BY <1>0, <2>1, <3>1 DEF CellOf
  <2> QED
    BY <2>3, <2>4, <2>5 DEF Known
<1> QED
  BY <1>1, <1>2

(* Each step of a line passes on what its value stands for.                *)
LEMMA NextAllSeen ==
  ASSUME TypeOK, TypeOK', BatchLanded, Started, NewerKnowsMore, AllSeen,
         [Next]_vars
  PROVE  AllSeen'
<1> SUFFICES ASSUME NEW j \in Line, NEW t \in Own(j) PROVE Seen(j, t)'
  BY DEF AllSeen, Own
<1> USE DEF Acked
<1>0. /\ Seen(j, t) /\ t \in Moment /\ t \in Stamps[j[1]] /\ Shunk[1][t] = j[2]
      /\ task[j].level \in Level /\ task[j].shunk \in Moment
      /\ CellOf(j) \in Cell
      /\ task[j].stage \in Stage
      /\ \A l \in Level : Known(l, t) => Known(l, t)'
  BY OwnType, TaskType, CellOfType, StillKnown DEF AllSeen, Task
<1>1. ASSUME task'[j] = task[j] PROVE Seen(j, t)'
  BY <1>0, <1>1, SeenKept DEF Kept
<1>2. ASSUME NEW m \in Message, Send(m) \/ MessageStep(m) PROVE Seen(j, t)'
  <2>1. CASE AckMessage(m) /\ j[1] = m
    <3>1. task[j].stage = "none" /\ task[j].level = 1
      BY <2>1 DEF AckMessage, Started
    <3>2. Kept(j) /\ task'[j].stage = "due"
      BY <2>1, AckMessageFrame
    <3>3. Shunk[task'[j].level][t] = task'[j].shunk
      BY <1>0, <3>2 DEF Seen, Kept
    <3>4. \A l \in Level : ~ Passed(j, l)'
      BY <3>1, <3>2, LevelType DEF Passed, Kept, Level
    <3> QED
      BY <3>2, <3>3, <3>4 DEF Seen
  <2>2. CASE AckMessage(m) /\ j[1] # m
    BY <1>1, <2>2, AckMessageFrame
  <2>3. CASE ~ AckMessage(m)
    BY <1>1, <1>2, <2>3 DEF MessageStep, Send, Consume, LandObservation
  <2> QED
    BY <2>1, <2>2, <2>3
<1>3. ASSUME NEW k \in Line, LineStep(k), j # k PROVE Seen(j, t)'
  BY <1>1, <1>3, LineStepFrame
<1>4. CASE StartRead(j)
  <2>1. /\ task[j].stage = "due" /\ task'[j].stage = "reading"
        /\ task'[j].level = task[j].level /\ task'[j].shunk = task[j].shunk
        /\ task'[j].value = History(task[j].level, task[j].shunk)
    BY <1>4, StartReadFrame
  <2>2. CellOf(j)' = CellOf(j) /\ regressed' = regressed
    BY <1>4, <2>1, KeptCell DEF StartRead, rowVars
  <2>3. t \in task'[j].value \/ Overtaken(CellOf(j))'
    <3>1. t \in task'[j].value \/ Overtaken(CellOf(j))
      BY <1>0, <2>1, HistoryKnows
    <3> QED
      BY <2>2, <3>1 DEF Overtaken, Within
  <2>4. \A l \in Level : Passed(j, l)' => Passed(j, l)
    BY <2>1 DEF Passed
  <2> QED
    BY <1>0, <2>1, <2>3, <2>4 DEF Seen
<1>5. CASE FinishRead(j)
  <2>1. task[j].stage = "reading" /\ Moves(j, "queued")
    BY <1>5, GoToMoves DEF FinishRead
  <2>2. Kept(j) /\ task'[j].stage = "queued"
    BY <2>1 DEF Moves
  <2> QED
    BY <1>0, <2>1, <2>2, SeenKept
<1>6. CASE IssueWrite(j)
  <2>1. /\ task[j].stage = "queued" /\ task'[j].stage = "writing"
        /\ task'[j].level = task[j].level /\ task'[j].shunk = task[j].shunk
        /\ task'[j].value = task[j].value /\ CellOf(j)' = CellOf(j)
    BY <1>6, IssueFrame, KeptCell
  <2>2. Overtaken(CellOf(j)) => Overtaken(CellOf(j))'
    <3>1. Overtaken(CellOf(j)) => \E d \in regressed' : Within(d, CellOf(j))
      BY <1>0, RowsGrow DEF Overtaken
    <3> QED
      BY <2>1, <3>1 DEF Overtaken, Within
  <2>3. \A l \in Level : Passed(j, l)' => Passed(j, l)
    BY <2>1 DEF Passed
  <2> QED
    BY <1>0, <2>1, <2>2, <2>3 DEF Seen
<1>7. CASE LandWrite(j)
  <2>1. CASE task[j].stage = "orphan"
    <3>1. Kept(j) /\ task'[j].stage = "lost"
      BY <1>7, <2>1, LandFrame DEF Moves
    <3> QED
      BY <1>0, <3>1, SeenKept
  <2>2. CASE task[j].stage # "orphan"
    <3>1. /\ task[j].stage = "writing" /\ Kept(j) /\ task'[j].stage = "landed"
          /\ CellOf(j)' = CellOf(j) /\ regressed' = regressed
      BY <1>7, <2>2, LandFrame, KeptCell DEF Moves, Kept, LandWrite
    <3>2. CellOf(j) = <<task[j].level, Shunk[task[j].level][t]>>
      BY <1>0 DEF CellOf, Seen
    <3>3. ASSUME NEW l \in Level, l = task[j].level PROVE Known(l, t)'
      <4> DEFINE c == <<l, Shunk[l][t]>>
      <4>1. c = CellOf(j)
        BY <3>2, <3>3
      <4>2. t \in task[j].value \/ Overtaken(c)
        BY <1>0, <3>1, <4>1 DEF Seen
      <4>3. CASE Overtaken(c)
        BY <1>0, <4>3 DEF Known
      <4>4. CASE c \in regressed
        BY <1>0, <4>1, <4>4, OwnOvertaken DEF Known
      <4>5. CASE c \notin regressed /\ t \in task[j].value
        <5>1. t \in rows'[c].value
          BY <1>7, <4>1, <4>5, LandedIsKnown
        <5> QED
          BY <5>1 DEF Known
      <4> QED
        BY <4>2, <4>3, <4>4, <4>5
    <3>4. ASSUME NEW l \in Level, Passed(j, l)' PROVE Known(l, t)'
      <4>1. CASE l = task[j].level
        BY <3>3, <4>1
      <4>2. CASE l # task[j].level
        <5>1. Passed(j, l)
          BY <3>1, <3>4, <4>2 DEF Passed, Kept
        <5> QED
          BY <1>0, <5>1 DEF Seen
      <4> QED
        BY <4>1, <4>2
    <3>5. t \in task'[j].value \/ Overtaken(CellOf(j))'
      <4>1. t \in task[j].value \/ Overtaken(CellOf(j))
        BY <1>0, <3>1 DEF Seen
      <4> QED
        BY <3>1, <4>1 DEF Kept, Overtaken, Within
    <3>6. Shunk[task'[j].level][t] = task'[j].shunk
      BY <1>0, <3>1 DEF Seen, Kept
    <3> QED
      BY <3>4, <3>5, <3>6 DEF Seen
  <2> QED
    BY <2>1, <2>2
<1>8. CASE AckWrite(j)
  <2>1. task[j].stage = "landed"
    BY <1>8, AckFrame
  <2>2. CASE task'[j].stage = "done" /\ Kept(j)
    BY <1>0, <2>1, <2>2, SeenKept
  <2>3. CASE /\ task[j].level + 1 \in Level
             /\ task'[j].stage = "due" /\ task'[j].level = task[j].level + 1
             /\ task'[j].shunk = Shunk[task[j].level + 1][task[j].shunk]
    <3>1. Shunk[task'[j].level][t] = task'[j].shunk
      <4>1. Shunk[task[j].level + 1][Shunk[task[j].level][t]]
              = Shunk[task[j].level + 1][t]
        BY <1>0, <2>3, NestingAssumption
      <4> QED
        BY <1>0, <2>3, <4>1 DEF Seen
    <3>2. \A l \in Level : Passed(j, l)' => Passed(j, l)
      <4> SUFFICES ASSUME NEW l \in Level, l < task[j].level + 1
                   PROVE  l < task[j].level \/ l = task[j].level
        BY <2>1, <2>3 DEF Passed
      <4> QED
        BY <1>0, LevelType
    <3> QED
      BY <1>0, <2>3, <3>1, <3>2 DEF Seen
  <2> QED
    BY <1>8, <2>2, <2>3, AckFrame
<1>9. CASE Crash
  <2>1. Kept(j)
    BY <1>9, CrashFrame
  <2>2. task'[j].stage \in Acked \cup {"done"} => task[j].stage = "done"
                                                 /\ task'[j].stage = "done"
    BY <1>0, <1>9, CrashFrame DEF Stage
  <2> QED
    BY <1>0, <2>1, <2>2, SeenKept
<1>10. CASE UNCHANGED vars
  BY <1>1, <1>10 DEF vars
<1> QED
  BY <1>2, <1>3, <1>4, <1>5, <1>6, <1>7, <1>8, <1>9, <1>10
     DEF Next, Idle, LineStep

(* The invariant behind StaleOnlyIfOvertaken.                              *)
SeenInv ==
  /\ WriteInv /\ NewerKnowsMore
  /\ Started /\ Accounted /\ AllSeen

(* It holds of an empty database.                                          *)
LEMMA InitSeenInv == Init => SeenInv
<1> SUFFICES ASSUME Init PROVE SeenInv
  OBVIOUS
<1>1. WriteInv
  BY InitWriteInv
<1>2. \A j \in Line : /\ task[j].stage = "none" /\ task[j].level = 1
                      /\ task[j].shunk = j[2] /\ at[j[1]] = "unsent"
  BY LineType DEF Init
<1>3. NewerKnowsMore
  BY <1>2 DEF Init, NewerKnowsMore, Newer, At, Submitted
<1>4. Started
  BY <1>2 DEF Started
<1>5. Accounted
  BY DEF Init, Accounted
<1>6. AllSeen
  BY <1>2, LevelType, OwnType DEF AllSeen, Seen, Passed, Acked
<1> QED
  BY <1>1, <1>3, <1>4, <1>5, <1>6 DEF SeenInv

(* All of it is inductive.                                                 *)
LEMMA NextSeenInv == SeenInv /\ [Next]_vars => SeenInv'
<1> SUFFICES ASSUME SeenInv, [Next]_vars PROVE SeenInv'
  OBVIOUS
<1>1. /\ OwnDataInv /\ TypeOK /\ BatchLanded
      /\ StampsOrdered /\ LatestLands /\ NewerKnowsMore
      /\ Started /\ Accounted /\ AllSeen
  BY DEF SeenInv, WriteInv, OwnDataInv
<1>2. OwnDataInv' /\ TypeOK'
  BY <1>1, NextOwnData DEF OwnDataInv
<1>3. StampsOrdered' /\ LatestLands'
  BY <1>1, NextStampsOrdered, NextLatestLands
<1>4. NewerKnowsMore'
  BY <1>1, NextNewerKnowsMore
<1>5. Started' /\ Accounted'
  BY <1>1, NextStarted, NextAccounted
<1>6. AllSeen'
  BY <1>1, <1>2, NextAllSeen
<1> QED
  BY <1>2, <1>3, <1>4, <1>5, <1>6 DEF SeenInv, WriteInv

(* Every behaviour keeps it.                                               *)
LEMMA SeenInvariance == Spec => []SeenInv
BY InitSeenInv, NextSeenInv, PTL DEF Spec

(* Reordered reads are the only way to a wrong aggregate, at any level:    *)
(* once all is processed without a crash, a cell that misses an            *)
(* observation had a write issued out of order, or a finer one inside had. *)
THEOREM StaleOnlyWhenOvertaken == Spec => []StaleOnlyIfOvertaken
<1>1. SeenInv => StaleOnlyIfOvertaken
  <2> SUFFICES ASSUME SeenInv, AtRest, crashes = 0, NEW c \in Cell,
                      ~ Overtaken(c)
               PROVE  Accurate(c)
    BY DEF StaleOnlyIfOvertaken, Overtaken
  <2>1. rows[c].value \subseteq raw \cap Covers(c)
    BY DEF SeenInv, WriteInv, OwnDataInv, NoPhantom
  <2>2. ASSUME NEW t \in raw, t \in Covers(c) PROVE t \in rows[c].value
    <3>1. t \in Moment /\ Shunk[c[1]][t] = c[2] /\ c[1] \in Level
      BY <2>2 DEF Covers, Cell
    <3>2. PICK m \in Message : t \in Stamps[m] /\ at[m] = "stored"
      BY <2>2 DEF SeenInv, Accounted, AtRest
    <3> DEFINE k == <<m, Shunk[1][t]>>
    <3>3. k \in Line /\ t \in Own(k) /\ k[1] = m
      BY <3>1, <3>2, LevelType, ShunkType DEF Line, FirstShunks, Own
    <3>4. task[k].stage = "done" /\ task[k].level = Levels
      <4>1. task[k].stage \in {"none", "done", "orphan", "lost"}
        BY <3>3 DEF AtRest
      <4>2. task[k].stage \notin {"orphan", "lost"}
        BY <3>3 DEF SeenInv, WriteInv, LatestLands
      <4>3. task[k].stage # "none"
        BY <3>2, <3>3 DEF SeenInv, Started
      <4>4. task[k].stage = "done"
        BY <4>1, <4>2, <4>3
      <4> QED
        BY <3>3, <4>4 DEF SeenInv, Started
    <3>5. Passed(k, c[1])
      BY <3>1, <3>4, LevelsAssumption DEF Passed, Level
    <3>6. Known(c[1], t)
      BY <3>1, <3>3, <3>5 DEF SeenInv, AllSeen, Seen
    <3>7. c = <<c[1], Shunk[c[1]][t]>>
      BY <3>1 DEF Cell
    <3> QED
      BY <3>6, <3>7 DEF Known
  <2> QED
    BY <2>1, <2>2 DEF Accurate
<1> QED
  BY <1>1, SeenInvariance, PTL

-----------------------------------------------------------------------------
(* CoarseBackedByFine: what a coarse aggregate stands for, a finer one     *)
(* stands for, unless it was overtaken.                                    *)

(* The finer cell of moment t, one level below l, stands for t, or it was  *)
(* overtaken.                                                              *)
Fine(l, t) == <<l - 1, Shunk[l - 1][t]>>

Backed(r, overtaken, l, t) ==
  t \in r[Fine(l, t)].value \/ Fine(l, t) \in overtaken

(* Every update of a coarse level is backed, read or written.              *)
UpdatesBacked ==
  \A k \in Line : task[k].level # 1 =>
    \A t \in task[k].value : Backed(rows, regressed, task[k].level, t)

RowsBacked ==
  \A c \in Cell : c[1] # 1 => \A t \in rows[c].value : Backed(rows, regressed, c[1], t)

(* What is backed stays so: a row loses an observation only if its cell    *)
(* was overtaken.                                                          *)
LEMMA BackedStays ==
  ASSUME TypeOK, BatchLanded, NewerKnowsMore, [Next]_vars,
         NEW l \in Level \ {1}, NEW t \in Moment, Backed(rows, regressed, l, t)
  PROVE  Backed(rows', regressed', l, t)
<1> DEFINE fine == Fine(l, t)
<1>1. fine \in Cell
  BY LevelType, ShunkType DEF Cell, Fine
<1>2. \/ fine \in regressed'
      \/ rows[fine].value \subseteq rows'[fine].value
  BY <1>1, RowsGrow
<1>3. regressed \subseteq regressed'
  BY RowsGrow
<1> QED
  BY <1>2, <1>3 DEF Backed

(* The history of a coarse period comes from the rows of finer ones, which *)
(* stand for observations of their own periods only.                       *)
LEMMA HistoryBacked ==
  ASSUME TypeOK, NoPhantom, NEW l \in Level \ {1}, NEW s \in Moment,
         NEW t \in History(l, s)
  PROVE  t \in Moment /\ Backed(rows, regressed, l, t)
<1>1. PICK d \in Moment : t \in rows[<<l - 1, d>>].value
  BY DEF History
<1>2. <<l - 1, d>> \in Cell
  BY LevelType DEF Cell
<1>3. t \in Moment /\ Shunk[l - 1][t] = d
  BY <1>1, <1>2 DEF NoPhantom, Covers
<1> QED
  BY <1>1, <1>3 DEF Backed, Fine

(* No step makes an update or a row of a coarse level stand for something  *)
(* that is not backed.                                                     *)
LEMMA NextBacked ==
  ASSUME TypeOK, NoPhantom, BatchLanded, NewerKnowsMore,
         UpdatesBacked, RowsBacked, [Next]_vars
  PROVE  UpdatesBacked' /\ RowsBacked'
<1>1. \A j \in Line : /\ task[j].level \in Level /\ task[j].shunk \in Moment
                      /\ task[j].value \subseteq Moment
  BY TaskType DEF Task
<1>2. ASSUME NEW j \in Line, Kept(j)
      PROVE  task'[j].level # 1 =>
                \A t \in task'[j].value : Backed(rows', regressed', task'[j].level, t)
  BY <1>1, <1>2, BackedStays DEF Kept, UpdatesBacked
<1>3. ASSUME NEW c \in Cell, rows'[c] = rows[c]
      PROVE  c[1] # 1 => \A t \in rows'[c].value : Backed(rows', regressed', c[1], t)
  <2>1. c[1] \in Level /\ rows[c].value \subseteq Moment
    BY DEF Cell, TypeOK
  <2> QED
    BY <1>3, <2>1, BackedStays DEF RowsBacked
<1>4. ASSUME \A j \in Line : Kept(j) PROVE UpdatesBacked'
  BY <1>2, <1>4 DEF UpdatesBacked
<1>5. ASSUME UNCHANGED rows PROVE RowsBacked'
  BY <1>3, <1>5 DEF RowsBacked
<1>6. ASSUME NEW k \in Line, StartRead(k) PROVE UpdatesBacked'
  <2> SUFFICES ASSUME NEW j \in Line, task'[j].level # 1, NEW t \in task'[j].value
               PROVE  Backed(rows', regressed', task'[j].level, t)
    BY DEF UpdatesBacked
  <2>1. CASE j = k
    <3>1. task[k].level \in Level \ {1} /\ task'[k].level = task[k].level
      BY <1>1, <1>6, <2>1, StartReadFrame
    <3>2. t \in History(task[k].level, task[k].shunk)
      BY <1>6, <2>1, StartReadFrame
    <3>3. t \in Moment /\ Backed(rows, regressed, task[k].level, t)
      BY <1>1, <3>1, <3>2, HistoryBacked
    <3> QED
      BY <2>1, <3>1, <3>3, BackedStays
  <2>2. CASE j # k
    BY <1>2, <1>6, <2>2, StartReadFrame DEF Kept
  <2> QED
    BY <2>1, <2>2
<1>7. ASSUME NEW k \in Line, AckWrite(k) PROVE UpdatesBacked'
  <2>1. \A j \in Line : Kept(j) \/ task'[j].value = {}
    BY <1>7, AckFrame DEF Kept
  <2> QED
    BY <1>2, <2>1 DEF UpdatesBacked
<1>8. ASSUME NEW k \in Line, LandWrite(k) PROVE RowsBacked'
  <2> SUFFICES ASSUME NEW c \in Cell, c[1] # 1, NEW t \in rows'[c].value
               PROVE  Backed(rows', regressed', c[1], t)
    BY DEF RowsBacked
  <2>1. CASE c = CellOf(k) /\ rows[c].stamp < task[k].stamp
    <3>1. c[1] = task[k].level /\ t \in task[k].value
      BY <1>8, <2>1, LandFrame DEF CellOf
    <3>2. Backed(rows, regressed, c[1], t) /\ c[1] \in Level /\ t \in Moment
      BY <1>1, <3>1 DEF UpdatesBacked
    <3> QED
      BY <3>2, BackedStays
  <2>2. CASE ~ (c = CellOf(k) /\ rows[c].stamp < task[k].stamp)
    <3>1. rows'[c] = rows[c]
      BY <1>8, <2>2, LandFrame
    <3> QED
      BY <1>3, <3>1
  <2> QED
    BY <2>1, <2>2
<1>9. ASSUME NEW m \in Message, Send(m) \/ MessageStep(m)
      PROVE  UNCHANGED rows /\ \A j \in Line : Kept(j)
  BY <1>9, AckMessageFrame DEF Send, MessageStep, Consume, AckMessage, LandObservation,
                               rowVars, Kept
<1>10. ASSUME NEW k \in Line, FinishRead(k) \/ LandWrite(k)
       PROVE  \A j \in Line : Kept(j)
  BY <1>10, GoToMoves, LandFrame DEF FinishRead, Moves
<1>11. ASSUME NEW k \in Line, IssueWrite(k) PROVE \A j \in Line : Kept(j) \/ j = k
  BY <1>11, IssueFrame DEF Kept
<1>12. ASSUME NEW k \in Line, IssueWrite(k) PROVE UpdatesBacked'
  <2> SUFFICES ASSUME NEW j \in Line, task'[j].level # 1, NEW t \in task'[j].value
               PROVE  Backed(rows', regressed', task'[j].level, t)
    BY DEF UpdatesBacked
  <2>1. task'[j].level = task[j].level /\ task'[j].value = task[j].value
    BY <1>11, <1>12, IssueFrame DEF Kept
  <2> QED
    BY <1>1, <2>1, BackedStays DEF UpdatesBacked
<1>13. ASSUME NEW k \in Line,
              StartRead(k) \/ FinishRead(k) \/ IssueWrite(k) \/ AckWrite(k)
       PROVE  UNCHANGED rows
  BY <1>13 DEF StartRead, FinishRead, IssueWrite, AckWrite, rowVars
<1>14. CASE Crash
  BY <1>4, <1>5, <1>14, CrashFrame DEF Crash, rowVars
<1>15. CASE UNCHANGED vars
  BY <1>4, <1>5, <1>15 DEF vars, Kept
<1> QED
  BY <1>4, <1>5, <1>6, <1>7, <1>8, <1>9, <1>10, <1>12, <1>13, <1>14, <1>15
     DEF Next, Idle, LineStep

BackedInv == SeenInv /\ UpdatesBacked /\ RowsBacked

(* Every behaviour keeps it.                                               *)
LEMMA BackedInvariance == Spec => []BackedInv
<1>1. Init => BackedInv
  <2> SUFFICES ASSUME Init PROVE UpdatesBacked /\ RowsBacked
    BY InitSeenInv DEF BackedInv
  <2> QED
    BY DEF Init, UpdatesBacked, RowsBacked
<1>2. BackedInv /\ [Next]_vars => BackedInv'
  <2> SUFFICES ASSUME BackedInv, [Next]_vars PROVE BackedInv'
    OBVIOUS
  <2>1. TypeOK /\ NoPhantom /\ BatchLanded /\ NewerKnowsMore
    BY DEF BackedInv, SeenInv, WriteInv, OwnDataInv
  <2> QED
    BY <2>1, NextSeenInv, NextBacked DEF BackedInv
<1> QED
  BY <1>1, <1>2, PTL DEF Spec

(* Whatever the number of reads and writes under way, and after crashes, a *)
(* coarse row stands for nothing that the finer rows inside do not know,   *)
(* unless one of them was overtaken (CoarseBackedByFine;                   *)
(* DataTypeSupport.scala:88-112 reads coarse histories from finer rows).   *)
THEOREM CoarseIsBacked == Spec => []CoarseBackedByFine
<1>1. BackedInv => CoarseBackedByFine
  <2> SUFFICES ASSUME BackedInv, NEW c \in Cell, c[1] > 1, NEW t \in rows[c].value
               PROVE  Backed(rows, regressed, c[1], t)
    BY DEF CoarseBackedByFine, Backed, Fine
  <2>1. c[1] # 1
    BY LevelType DEF Cell
  <2> QED
    BY <2>1 DEF BackedInv, RowsBacked
<1> QED
  BY <1>1, BackedInvariance, PTL

(* The Processor keeps the promise of Rollup, whatever the number of reads *)
(* and writes under way and after crashes: each step stores an             *)
(* observation, orders a refreshment that was overtaken, refreshes one     *)
(* aggregate, without losing any observation unless it was overtaken, or   *)
(* changes nothing that a reader sees (Grows; Cassandra.scala:155-169).    *)
THEOREM ProcessorGrows == Spec => Grows
<1> DEFINE summary == [c \in Cell |-> rows[c].value]
<1>1. Init => Promise!Init
  BY DEF Init, Promise!Init
<1>2. SeenInv /\ [Next]_vars => [Promise!Next]_(Promise!vars)
  <2> SUFFICES ASSUME SeenInv, [Next]_vars
               PROVE  Promise!Next \/ UNCHANGED Promise!vars
    OBVIOUS
  <2>1. TypeOK /\ NoPhantom /\ NewerKnowsMore
    BY DEF SeenInv, WriteInv, OwnDataInv
  <2>2. ASSUME raw' = raw, rows' = rows, regressed' = regressed
        PROVE  UNCHANGED Promise!vars
    BY <2>2 DEF Promise!vars
  <2>3. ASSUME NEW m \in Message, NEW t \in Stamps[m], LandObservation(m, t)
        PROVE  Promise!Next
    <3>1. t \in Moment /\ raw' = raw \cup {t} /\ rows' = rows /\ regressed' = regressed
      BY <2>3, StampsAssumption DEF LandObservation, rowVars
    <3>2. Promise!Store(t)
      BY <3>1 DEF Promise!Store
    <3> QED
      BY <3>1, <3>2 DEF Promise!Next
  <2>4. ASSUME NEW k \in Line, LandWrite(k)
        PROVE  Promise!Next
    <3>1. PICK c \in Cell : c = CellOf(k)
      BY <2>1, CellOfType
    <3>2. /\ raw' = raw /\ regressed' = regressed
          /\ \A d \in Cell \ {c} : rows'[d] = rows[d]
          /\ c \in regressed \/ rows[c].value \subseteq rows'[c].value
          /\ rows'[c].value \subseteq raw \cap Covers(c)
      <4>1. /\ raw' = raw /\ regressed' = regressed
            /\ \A d \in Cell \ {c} : rows'[d] = rows[d]
        BY <2>1, <2>4, <3>1, LandFrame DEF LandWrite, msgVars
      <4>2. rows[c].value \subseteq raw \cap Covers(c)
             /\ task[k].value \subseteq raw \cap Covers(c)
        BY <2>1, <3>1 DEF NoPhantom
      <4>3. rows'[c].value \subseteq raw \cap Covers(c)
        BY <2>1, <2>4, <3>1, <4>2, LandFrame
      <4>4. \/ c \in regressed
            \/ rows[c].stamp < task[k].stamp => rows[c].value \subseteq task[k].value
        <5>1. At(k, c)
          BY <2>4, <3>1 DEF LandWrite, At, Submitted
        <5> QED
          BY <2>1, <5>1 DEF NewerKnowsMore, Newer
      <4>5. c \in regressed \/ rows[c].value \subseteq rows'[c].value
        BY <2>1, <2>4, <3>1, <4>4, LandFrame
      <4> QED
        BY <4>1, <4>3, <4>5
    <3>3. summary' = [summary EXCEPT ![c] = rows'[c].value]
      BY <3>2
    <3>4. Promise!Refresh(c)
      BY <3>2, <3>3 DEF Promise!Refresh
    <3> QED
      BY <3>4 DEF Promise!Next
  <2>5. ASSUME NEW k \in Line, IssueWrite(k)
        PROVE  Promise!Next \/ UNCHANGED Promise!vars
    <3>1. PICK c \in Cell : c = CellOf(k)
      BY <2>1, CellOfType
    <3>2. raw' = raw /\ rows' = rows
      BY <2>5 DEF IssueWrite, msgVars
    <3>3. regressed' = regressed \/ regressed' = regressed \cup {c}
      BY <2>5, <3>1 DEF IssueWrite
    <3>4. CASE regressed' = regressed \cup {c}
      <4>1. Promise!Overtake(c)
        BY <3>2, <3>4 DEF Promise!Overtake
      <4> QED
        BY <4>1 DEF Promise!Next
    <3> QED
      BY <2>2, <3>2, <3>3, <3>4
  <2>6. ASSUME NEW m \in Message, Send(m) \/ Consume(m) \/ AckMessage(m)
        PROVE  raw' = raw /\ rows' = rows /\ regressed' = regressed
    BY <2>6 DEF Send, Consume, AckMessage, rowVars
  <2>7. ASSUME NEW k \in Line, StartRead(k) \/ FinishRead(k) \/ AckWrite(k)
        PROVE  raw' = raw /\ rows' = rows /\ regressed' = regressed
    BY <2>7 DEF StartRead, FinishRead, AckWrite, msgVars, rowVars
  <2>8. CASE Crash \/ UNCHANGED vars
    BY <2>2, <2>8 DEF Crash, vars, rowVars
  <2> QED
    BY <2>2, <2>3, <2>4, <2>5, <2>6, <2>7, <2>8
       DEF Next, Idle, MessageStep, LineStep
<1> QED
  BY <1>1, <1>2, SeenInvariance, PTL DEF Spec, Grows, Promise!Spec

-----------------------------------------------------------------------------
(* FollowUpExact: sums over finite sets, in any order and part by part.    *)

(* The element with which a sum over S begins.                             *)
First(S) == CHOOSE x \in S : TRUE

(* The sum of g is computed by a function on the subsets of its domain.    *)
LEMMA SumDefinition ==
  ASSUME NEW S, IsFiniteSet(S), NEW g \in [S -> Int]
  PROVE  \E F \in [SUBSET S -> Int] :
           /\ F[{}] = 0
           /\ \A s \in SUBSET S :
                s # {} => F[s] = g[First(s)] + F[s \ {First(s)}]
           /\ Sum(g) = F[S]
<1> DEFINE X == SUBSET S
           W == [s \in X |-> Cardinality(s)]
           G == [p \in X \X [X -> Int] |->
                   IF p[1] = {} THEN 0
                   ELSE g[First(p[1])] + p[2][p[1] \ {First(p[1])}]]
<1>1. ASSUME NEW s \in X, s # {}
      PROVE  /\ First(s) \in s /\ First(s) \in S /\ s \ {First(s)} \in X
             /\ W[s \ {First(s)}] < W[s]
  <2>1. First(s) \in s
    BY <1>1 DEF First
  <2>2. IsFiniteSet(s)
    BY FS_Subset
  <2>3. /\ Cardinality(s \ {First(s)}) = Cardinality(s) - 1
        /\ Cardinality(s) \in Nat
    BY <2>1, <2>2, FS_RemoveElement, FS_CardinalityType
  <2> QED BY <2>1, <2>3
<1>2. W \in [X -> Nat]
  BY FS_Subset, FS_CardinalityType
<1>3. ASSUME NEW s \in X, NEW a \in [X -> Int]
      PROVE  G[<<s, a>>] = IF s = {} THEN 0
                           ELSE g[First(s)] + a[s \ {First(s)}]
  OBVIOUS
<1>4. G \in [X \X [X -> Int] -> Int]
  <2>1. ASSUME NEW s \in X, NEW a \in [X -> Int] PROVE G[<<s, a>>] \in Int
    <3>1. s # {} => g[First(s)] + a[s \ {First(s)}] \in Int
      <4> SUFFICES ASSUME s # {} PROVE g[First(s)] + a[s \ {First(s)}] \in Int
        OBVIOUS
      <4>1. First(s) \in S /\ s \ {First(s)} \in X
        BY <1>1
      <4>2. g[First(s)] \in Int /\ a[s \ {First(s)}] \in Int
        BY <4>1
      <4> QED BY <4>2
    <3> DEFINE v == G[<<s, a>>]
               w == g[First(s)] + a[s \ {First(s)}]
    <3>2. v = IF s = {} THEN 0 ELSE w
      BY <1>3
    <3> HIDE DEF v, w
    <3>3. v = 0 \/ (s # {} /\ v = w)
      BY <3>2
    <3>4. v \in Int
      BY <3>1, <3>3 DEF w
    <3> QED BY <3>4 DEF v
  <2> QED BY <2>1
<1>5. ASSUME NEW s \in X, NEW a \in [X -> Int], NEW b \in [X -> Int],
             \A r \in X : W[r] < W[s] => a[r] = b[r]
      PROVE  G[<<s, a>>] = G[<<s, b>>]
  <2> HIDE DEF G, W
  <2>1. s # {} => a[s \ {First(s)}] = b[s \ {First(s)}]
    BY <1>1, <1>5
  <2> QED BY <1>3, <2>1
<1>6. PICK e \in [X -> Int] : \A s \in X : e[s] = G[<<s, e>>]
  <2> DEFINE P == Int
  <2>1. G \in Steps(X, W, P)
    <3> HIDE DEF G, W, X
    <3> QED BY <1>4, <1>5 DEF Steps
  <2>2. P # {}
    OBVIOUS
  <2> HIDE DEF G, W, X, P
  <2>3. \E e \in [X -> P] : \A s \in X : e[s] = G[<<s, e>>]
    BY <1>2, <2>1, <2>2, WeightRecursion
  <2> QED BY <2>3 DEF P
<1> DEFINE d == CHOOSE a : a = [s \in SUBSET S |->
                  IF s = {} THEN 0
                  ELSE g[First(s)] + a[s \ {First(s)}]]
<1>7. e = [s \in SUBSET S |-> IF s = {} THEN 0
                              ELSE g[First(s)] + e[s \ {First(s)}]]
  <2>1. \A s \in X : e[s] = IF s = {} THEN 0
                            ELSE g[First(s)] + e[s \ {First(s)}]
    <3> HIDE DEF G
    <3> QED BY <1>3, <1>6
  <2> QED BY <2>1
<1>8. d = [s \in SUBSET S |-> IF s = {} THEN 0
                              ELSE g[First(s)] + d[s \ {First(s)}]]
  <2> HIDE DEF G, W
  <2> QED BY <1>7
<1>9. Sum(g) = d[S]
  BY DEF Sum, MapThenSumSet, MapThenFoldSet, First
<1> HIDE DEF d, G
<1>10. \A s \in X : d[s] \in Int
  <2> DEFINE T == {s \in X : d[s] \in Int}
  <2>1. ASSUME NEW s \in X, \A r \in X : W[r] < W[s] => r \in T
        PROVE  s \in T
    <3>1. CASE s = {}
      BY <1>8, <3>1
    <3>2. CASE s # {}
      <4>1. d[s] = g[First(s)] + d[s \ {First(s)}]
        BY <1>8, <3>2
      <4>2. s \ {First(s)} \in T /\ g[First(s)] \in Int
        <5> HIDE DEF W, T
        <5> QED BY <1>1, <2>1, <3>2
      <4> QED BY <4>1, <4>2
    <3> QED BY <3>1, <3>2
  <2>2. X \subseteq T
    <3> HIDE DEF X, T, W
    <3> QED BY <1>2, <2>1, WeightInduction
  <2> QED BY <2>2
<1>11. d \in [SUBSET S -> Int]
  BY <1>8, <1>10
<1> QED BY <1>8, <1>9, <1>11

(* The sum of g over a part of its domain.                                 *)
SumOn(g, s) == Sum([x \in s |-> g[x]])

(* Subsets of a finite set are weighed by their cardinality.               *)
LEMMA Sizes ==
  ASSUME NEW S, IsFiniteSet(S)
  PROVE  /\ [s \in SUBSET S |-> Cardinality(s)] \in [SUBSET S -> Nat]
         /\ \A s \in SUBSET S : IsFiniteSet(s)
         /\ \A s \in SUBSET S : \A x \in s :
              Cardinality(s) \in Nat /\ Cardinality(s \ {x}) < Cardinality(s)
<1>1. \A s \in SUBSET S : IsFiniteSet(s) /\ Cardinality(s) \in Nat
  BY FS_Subset, FS_CardinalityType
<1>2. ASSUME NEW s \in SUBSET S, NEW x \in s
      PROVE  Cardinality(s \ {x}) < Cardinality(s)
  <2>1. Cardinality(s \ {x}) = Cardinality(s) - 1 /\ Cardinality(s) \in Nat
    BY <1>1, FS_RemoveElement
  <2> QED BY <2>1
<1> QED BY <1>1, <1>2

(* What holds of a part of S as soon as it holds of it without any of its  *)
(* elements.                                                               *)
Hereditary(S) ==
  {T \in SUBSET SUBSET S :
     \A s \in SUBSET S : (\A x \in s : s \ {x} \in T) => s \in T}

(* It holds of all the parts of a finite set.                              *)
LEMMA SubsetInduction ==
  ASSUME NEW S, IsFiniteSet(S), NEW T \in Hereditary(S)
  PROVE  \A s \in SUBSET S : s \in T
<1> DEFINE X == SUBSET S
           W == [s \in X |-> Cardinality(s)]
<1>1. W \in [X -> Nat]
  BY Sizes
<1>2. \A s \in X : (\A r \in X : W[r] < W[s] => r \in T) => s \in T
  <2> SUFFICES ASSUME NEW s \in X, \A r \in X : W[r] < W[s] => r \in T
               PROVE  \A x \in s : s \ {x} \in T
    BY DEF Hereditary
  <2> SUFFICES ASSUME NEW x \in s PROVE s \ {x} \in T
    OBVIOUS
  <2>1. s \ {x} \in X /\ W[s \ {x}] < W[s]
    BY Sizes
  <2> HIDE DEF W
  <2> QED BY <2>1
<1> HIDE DEF X, W
<1>3. X \subseteq T
  BY <1>1, <1>2, WeightInduction
<1> QED BY <1>3 DEF X

(* The elements may be taken in any order: a sum is the sum without one of *)
(* them, and that one.                                                     *)
LEMMA SumOnFacts ==
  ASSUME NEW S, IsFiniteSet(S), NEW g \in [S -> Int]
  PROVE  /\ SumOn(g, {}) = 0
         /\ \A s \in SUBSET S : SumOn(g, s) \in Int
         /\ \A s \in SUBSET S : \A x \in s :
              SumOn(g, s) = g[x] + SumOn(g, s \ {x})
<1>1. PICK F \in [SUBSET S -> Int] :
        /\ F[{}] = 0
        /\ \A s \in SUBSET S :
             s # {} => F[s] = g[First(s)] + F[s \ {First(s)}]
        /\ Sum(g) = F[S]
  BY SumDefinition
<1>2. ASSUME NEW s \in SUBSET S PROVE SumOn(g, s) = F[s]
  <2> DEFINE h == [x \in s |-> g[x]]
  <2>0. IsFiniteSet(s) /\ h \in [s -> Int]
    BY Sizes
  <2> HIDE DEF h
  <2>1. PICK E \in [SUBSET s -> Int] :
          /\ E[{}] = 0
          /\ \A r \in SUBSET s :
               r # {} => E[r] = h[First(r)] + E[r \ {First(r)}]
          /\ Sum(h) = E[s]
    BY <2>0, SumDefinition
  <2> DEFINE Same == {r \in SUBSET s : E[r] = F[r]}
  <2>2. ASSUME NEW r \in SUBSET s, \A x \in r : r \ {x} \in Same
        PROVE  r \in Same
    <3>1. CASE r = {}
      BY <1>1, <2>1, <3>1
    <3>2. CASE r # {}
      <4>1. First(r) \in r
        BY <3>2 DEF First
      <4>2. h[First(r)] = g[First(r)]
        BY <4>1 DEF h
      <4>3. E[r \ {First(r)}] = F[r \ {First(r)}]
        BY <2>2, <4>1
      <4>4. E[r] = h[First(r)] + E[r \ {First(r)}]
        BY <2>1, <3>2
      <4>5. F[r] = g[First(r)] + F[r \ {First(r)}]
        BY <1>1, <3>2
      <4> QED BY <4>2, <4>3, <4>4, <4>5
    <3> QED BY <3>1, <3>2
  <2>3. Same \in Hereditary(s)
    BY <2>2 DEF Hereditary
  <2>4. E[s] = F[s]
    <3>1. s \in Same
      <4> HIDE DEF Same
      <4> QED BY <2>0, <2>3, SubsetInduction
    <3> QED BY <3>1
  <2> QED BY <2>1, <2>4 DEF SumOn, h
<1> DEFINE T == {s \in SUBSET S : \A x \in s : F[s] = g[x] + F[s \ {x}]}
<1>3. ASSUME NEW s \in SUBSET S, \A x \in s : s \ {x} \in T
      PROVE  s \in T
  <2> SUFFICES ASSUME NEW x \in s PROVE F[s] = g[x] + F[s \ {x}]
    OBVIOUS
  <2> DEFINE c == First(s)
  <2>1. c \in s /\ F[s] = g[c] + F[s \ {c}]
    <3>1. s # {}
      OBVIOUS
    <3> QED BY <1>1, <3>1 DEF First
  <2> HIDE DEF c
  <2>2. CASE c = x
    BY <2>1, <2>2
  <2>3. CASE c # x
    <3>1. x \in s \ {c} /\ c \in s \ {x} /\ s \ {c} \in SUBSET S /\ s \ {x} \in SUBSET S
      BY <2>1, <2>3
    <3>2. F[s \ {c}] = g[x] + F[(s \ {c}) \ {x}]
      BY <1>3, <2>1, <3>1
    <3>3. F[s \ {x}] = g[c] + F[(s \ {x}) \ {c}]
      BY <1>3, <3>1
    <3>4. (s \ {c}) \ {x} = (s \ {x}) \ {c}
      OBVIOUS
    <3> DEFINE a == g[c]
               b == g[x]
               r == F[(s \ {x}) \ {c}]
    <3>5. a \in Int /\ b \in Int /\ r \in Int
      BY <2>1
    <3>6. F[s] = a + (b + r) /\ F[s \ {x}] = a + r
      BY <2>1, <3>2, <3>3, <3>4
    <3> HIDE DEF a, b, r
    <3>7. a + (b + r) = b + (a + r)
      BY <3>5
    <3> QED BY <3>6, <3>7 DEF b
  <2> QED BY <2>2, <2>3
<1>4. \A s \in SUBSET S : s \in T
  <2>1. T \in Hereditary(S)
    BY <1>3 DEF Hereditary
  <2> HIDE DEF T
  <2> QED BY <2>1, SubsetInduction
<1>5. ASSUME NEW s \in SUBSET S, NEW x \in s
      PROVE  SumOn(g, s) = g[x] + SumOn(g, s \ {x})
  <2>1. s \ {x} \in SUBSET S /\ F[s] = g[x] + F[s \ {x}]
    BY <1>4
  <2> QED BY <1>2, <2>1
<1>6. SumOn(g, {}) = 0
  BY <1>1, <1>2
<1> QED BY <1>2, <1>5, <1>6

(* The sum over two parts that are apart.                                  *)
LEMMA SumOfUnion ==
  ASSUME NEW S, IsFiniteSet(S), NEW g \in [S -> Int],
         NEW P \in SUBSET S, NEW Q \in SUBSET S, P \cap Q = {}
  PROVE  SumOn(g, P \cup Q) = SumOn(g, P) + SumOn(g, Q)
<1> DEFINE T == {p \in SUBSET P :
                   SumOn(g, p \cup Q) = SumOn(g, p) + SumOn(g, Q)}
<1>1. ASSUME NEW p \in SUBSET P, \A x \in p : p \ {x} \in T PROVE p \in T
  <2>1. CASE p = {}
    <3>1. p \cup Q = Q
      BY <2>1
    <3>2. SumOn(g, p) = 0 /\ SumOn(g, Q) \in Int
      BY <2>1, SumOnFacts
    <3>3. SumOn(g, p \cup Q) = SumOn(g, Q)
      BY <3>1
    <3>4. SumOn(g, p \cup Q) = SumOn(g, p) + SumOn(g, Q)
      BY <3>2, <3>3
    <3> QED BY <3>4
  <2>2. CASE p # {}
    <3>1. PICK x \in p : TRUE
      BY <2>2
    <3>2. (p \cup Q) \ {x} = (p \ {x}) \cup Q
      BY <3>1
    <3>3. SumOn(g, p \cup Q) = g[x] + SumOn(g, (p \ {x}) \cup Q)
      <4>1. p \cup Q \in SUBSET S /\ x \in p \cup Q
        BY <3>1
      <4> QED BY <3>2, <4>1, SumOnFacts
    <3>4. SumOn(g, p) = g[x] + SumOn(g, p \ {x})
      <4>1. p \in SUBSET S
        OBVIOUS
      <4> QED BY <3>1, <4>1, SumOnFacts
    <3>5. SumOn(g, (p \ {x}) \cup Q) = SumOn(g, p \ {x}) + SumOn(g, Q)
      BY <1>1, <3>1
    <3>6. /\ g[x] \in Int /\ SumOn(g, p \ {x}) \in Int
          /\ SumOn(g, Q) \in Int
      <4>1. p \ {x} \in SUBSET S /\ x \in S
        BY <3>1
      <4> QED BY <4>1, SumOnFacts
    <3> DEFINE a == g[x]
               b == SumOn(g, p \ {x})
               c == SumOn(g, Q)
    <3>7. SumOn(g, p \cup Q) = a + (b + c) /\ SumOn(g, p) = a + b
      BY <3>3, <3>4, <3>5
    <3> HIDE DEF a, b
    <3>8. a + (b + c) = (a + b) + c
      BY <3>6 DEF a, b
    <3>9. SumOn(g, p \cup Q) = SumOn(g, p) + SumOn(g, Q)
      BY <3>7, <3>8
    <3> QED BY <3>9
  <2> QED BY <2>1, <2>2
<1>2. T \in Hereditary(P) /\ IsFiniteSet(P)
  BY <1>1, Sizes DEF Hereditary
<1>3. P \in T
  <2> HIDE DEF T
  <2> QED BY <1>2, SubsetInduction
<1> QED BY <1>3

(* The functions from D to parts of S that are apart.                      *)
Partitions(D, S) ==
  {v \in [D -> SUBSET S] : \A d, e \in D : d # e => v[d] \cap v[e] = {}}

(* The sum over a partition of the sums over its parts.                    *)
LEMMA SumOfParts ==
  ASSUME NEW S, IsFiniteSet(S), NEW g \in [S -> Int],
         NEW D, IsFiniteSet(D), NEW v \in Partitions(D, S)
  PROVE  Sum([d \in D |-> SumOn(g, v[d])]) = SumOn(g, UNION {v[d] : d \in D})
<1> DEFINE h == [d \in D |-> SumOn(g, v[d])]
           U(e) == UNION {v[d] : d \in e}
           T == {e \in SUBSET D : SumOn(h, e) = SumOn(g, U(e))}
<1>0. /\ v \in [D -> SUBSET S]
      /\ \A d, e \in D : d # e => v[d] \cap v[e] = {}
  BY DEF Partitions
<1>1. h \in [D -> Int]
  BY <1>0, SumOnFacts
<1>2. ASSUME NEW e \in SUBSET D, \A x \in e : e \ {x} \in T PROVE e \in T
  <2>1. CASE e = {}
    <3>1. U(e) = {}
      BY <2>1
    <3>2. SumOn(h, {}) = 0 /\ SumOn(g, {}) = 0
      <4> HIDE DEF h
      <4> QED BY <1>1, SumOnFacts
    <3> HIDE DEF h, U
    <3> QED BY <2>1, <3>1, <3>2
  <2>2. CASE e # {}
    <3>1. PICK x \in e : TRUE
      BY <2>2
    <3>2. /\ U(e) = v[x] \cup U(e \ {x}) /\ v[x] \cap U(e \ {x}) = {}
          /\ v[x] \in SUBSET S /\ U(e \ {x}) \in SUBSET S
      BY <1>0, <3>1
    <3>3. SumOn(h, e) = h[x] + SumOn(h, e \ {x})
      <4> HIDE DEF h
      <4> QED BY <1>1, <3>1, SumOnFacts
    <3>4. h[x] = SumOn(g, v[x])
      BY <3>1
    <3>5. SumOn(h, e \ {x}) = SumOn(g, U(e \ {x}))
      <4>1. e \ {x} \in T
        BY <1>2, <3>1
      <4> HIDE DEF h, U
      <4> QED BY <4>1
    <3> HIDE DEF h, U
    <3>6. SumOn(g, U(e)) = SumOn(g, v[x]) + SumOn(g, U(e \ {x}))
      <4> DEFINE a == v[x]
                 b == U(e \ {x})
      <4>1. a \in SUBSET S /\ b \in SUBSET S /\ a \cap b = {}
        BY <3>2
      <4> HIDE DEF a, b
      <4>2. SumOn(g, a \cup b) = SumOn(g, a) + SumOn(g, b)
        BY <4>1, SumOfUnion
      <4> QED BY <3>2, <4>2 DEF a, b
    <3> QED BY <3>3, <3>4, <3>5, <3>6
  <2> QED BY <2>1, <2>2
<1>3. T \in Hereditary(D)
  BY <1>2 DEF Hereditary
<1>4. D \in T
  <2> HIDE DEF T
  <2> QED BY <1>3, SubsetInduction
<1>5. SumOn(h, D) = Sum(h)
  BY DEF SumOn
<1>6. SumOn(h, D) = SumOn(g, U(D))
  <2> HIDE DEF h, U
  <2> QED BY <1>4
<1> QED BY <1>5, <1>6

(* A cardinality is a sum of ones.                                         *)
LEMMA CountIsSum ==
  ASSUME NEW S, IsFiniteSet(S)
  PROVE  \A s \in SUBSET S : SumOn([x \in S |-> 1], s) = Cardinality(s)
<1> DEFINE g == [x \in S |-> 1]
           T == {s \in SUBSET S : SumOn(g, s) = Cardinality(s)}
<1>1. g \in [S -> Int] /\ \A x \in S : g[x] = 1
  OBVIOUS
<1>2. ASSUME NEW s \in SUBSET S, \A x \in s : s \ {x} \in T PROVE s \in T
  <2> HIDE DEF g
  <2>1. CASE s = {}
    BY <1>1, <2>1, SumOnFacts, FS_EmptySet
  <2>2. CASE s # {}
    <3>1. PICK x \in s : TRUE
      BY <2>2
    <3>2. SumOn(g, s) = 1 + SumOn(g, s \ {x})
      BY <1>1, <3>1, SumOnFacts
    <3>3. SumOn(g, s \ {x}) = Cardinality(s \ {x})
      BY <1>2, <3>1
    <3>4. /\ Cardinality(s \ {x}) = Cardinality(s) - 1
          /\ Cardinality(s) \in Nat
      BY <3>1, Sizes, FS_RemoveElement, FS_CardinalityType
    <3> QED BY <3>2, <3>3, <3>4
  <2> QED BY <2>1, <2>2
<1>3. T \in Hereditary(S)
  BY <1>2 DEF Hereditary
<1>4. \A s \in SUBSET S : s \in T
  <2> HIDE DEF T
  <2> QED BY <1>3, SubsetInduction
<1> HIDE DEF g
<1>5. \A s \in SUBSET S : SumOn(g, s) = Cardinality(s)
  BY <1>4
<1> QED BY <1>5 DEF g

-----------------------------------------------------------------------------
(* The least and the greatest of the numbers of a finite set.              *)

(* A finite set of numbers has a least and a greatest element.             *)
LEMMA Extremes ==
  ASSUME NEW S, IsFiniteSet(S), S \subseteq Int, S # {}
  PROVE  /\ Min(S) \in S /\ \A y \in S : Min(S) <= y
         /\ Max(S) \in S /\ \A y \in S : Max(S) >= y
<1> DEFINE T == {s \in SUBSET S :
                   s # {} => /\ \E x \in s : \A y \in s : x <= y
                             /\ \E x \in s : \A y \in s : x >= y}
<1>1. ASSUME NEW s \in SUBSET S, \A x \in s : s \ {x} \in T PROVE s \in T
  <2> SUFFICES ASSUME NEW x \in s
               PROVE  /\ \E z \in s : \A y \in s : z <= y
                      /\ \E z \in s : \A y \in s : z >= y
    OBVIOUS
  <2>1. CASE s \ {x} = {}
    BY <2>1
  <2>2. CASE s \ {x} # {}
    <3>1. PICK lo \in s \ {x} : \A y \in s \ {x} : lo <= y
      BY <1>1, <2>2
    <3>2. PICK hi \in s \ {x} : \A y \in s \ {x} : hi >= y
      BY <1>1, <2>2
    <3>3. \A y \in s : y \in Int
      OBVIOUS
    <3>4. \E z \in s : \A y \in s : z <= y
      <4>1. CASE x <= lo
        BY <3>1, <3>3, <4>1
      <4>2. CASE ~ (x <= lo)
        BY <3>1, <3>3, <4>2
      <4> QED BY <4>1, <4>2
    <3>5. \E z \in s : \A y \in s : z >= y
      <4>1. CASE x >= hi
        BY <3>2, <3>3, <4>1
      <4>2. CASE ~ (x >= hi)
        BY <3>2, <3>3, <4>2
      <4> QED BY <4>1, <4>2
    <3> QED BY <3>4, <3>5
  <2> QED BY <2>1, <2>2
<1>2. T \in Hereditary(S)
  BY <1>1 DEF Hereditary
<1>3. S \in T
  <2> HIDE DEF T
  <2> QED BY <1>2, SubsetInduction
<1>4. /\ \E x \in S : \A y \in S : x <= y
      /\ \E x \in S : \A y \in S : x >= y
  BY <1>3
<1> QED BY <1>4 DEF Min, Max

(* The elements of the parts, the least ones and the greatest ones.        *)
Whole(D, v) == UNION {v[d] : d \in D}
Lows(D, v) == {Min(v[d]) : d \in D}
Highs(D, v) == {Max(v[d]) : d \in D}

(* The least number of all is the least one of those of the parts.         *)
LEMMA ExtremesOfParts ==
  ASSUME NEW S, IsFiniteSet(S), S \subseteq Int,
         NEW D, D # {}, NEW v \in [D -> (SUBSET S) \ {{}}]
  PROVE  /\ Min(Lows(D, v)) = Min(Whole(D, v))
         /\ Max(Highs(D, v)) = Max(Whole(D, v))
<1> DEFINE U == UNION {v[d] : d \in D}
           lows == {Min(v[d]) : d \in D}
           highs == {Max(v[d]) : d \in D}
<1>1. \A d \in D : /\ v[d] \subseteq U
                   /\ Min(v[d]) \in v[d] /\ \A y \in v[d] : Min(v[d]) <= y
                   /\ Max(v[d]) \in v[d] /\ \A y \in v[d] : Max(v[d]) >= y
  <2> SUFFICES ASSUME NEW d \in D
               PROVE  /\ v[d] \subseteq U
                      /\ Min(v[d]) \in v[d] /\ \A y \in v[d] : Min(v[d]) <= y
                      /\ Max(v[d]) \in v[d] /\ \A y \in v[d] : Max(v[d]) >= y
    OBVIOUS
  <2> DEFINE w == v[d]
  <2>1. w \subseteq U /\ w \subseteq S /\ w # {} /\ w \subseteq Int
    OBVIOUS
  <2>2. IsFiniteSet(w)
    BY <2>1, FS_Subset
  <2> HIDE DEF w, U
  <2>3. /\ Min(w) \in w /\ \A y \in w : Min(w) <= y
        /\ Max(w) \in w /\ \A y \in w : Max(w) >= y
    BY <2>1, <2>2, Extremes
  <2> QED BY <2>1, <2>3 DEF w
<1>2. /\ U \subseteq S /\ U # {} /\ U \subseteq Int
      /\ lows \subseteq U /\ lows # {}
      /\ highs \subseteq U /\ highs # {}
  <2>1. U \subseteq S
    OBVIOUS
  <2>2. lows \subseteq U /\ highs \subseteq U
    <3> HIDE DEF U
    <3> QED BY <1>1
  <2>3. PICK d \in D : TRUE
    OBVIOUS
  <2>4. Min(v[d]) \in lows /\ Max(v[d]) \in highs
    OBVIOUS
  <2> HIDE DEF U, lows, highs
  <2> QED BY <2>1, <2>2, <2>4
<1>3. IsFiniteSet(U) /\ IsFiniteSet(lows) /\ IsFiniteSet(highs)
  <2> HIDE DEF U, lows, highs
  <2>1. lows \subseteq S /\ highs \subseteq S
    BY <1>2
  <2> QED BY <1>2, <2>1, FS_Subset
<1>4. \A y \in U : \E d \in D : y \in v[d]
  OBVIOUS
<1>5. \A d \in D : Min(v[d]) \in lows /\ Max(v[d]) \in highs
  OBVIOUS
<1> HIDE DEF U, lows, highs
<1>6. /\ Min(U) \in U /\ \A y \in U : Min(U) <= y
      /\ Max(U) \in U /\ \A y \in U : Max(U) >= y
  BY <1>2, <1>3, Extremes
<1>7. /\ Min(lows) \in U /\ Min(lows) \in lows /\ \A y \in lows : Min(lows) <= y
      /\ Max(highs) \in U /\ Max(highs) \in highs /\ \A y \in highs : Max(highs) >= y
  BY <1>2, <1>3, Extremes
<1>8. Min(lows) = Min(U)
  <2>1. PICK d \in D : Min(U) \in v[d]
    BY <1>4, <1>6
  <2>2. Min(v[d]) <= Min(U) /\ Min(lows) <= Min(v[d]) /\ Min(U) <= Min(lows)
    BY <1>1, <1>5, <1>6, <1>7, <2>1
  <2>3. Min(U) \in Int /\ Min(lows) \in Int /\ Min(v[d]) \in Int
    BY <1>1, <1>2, <1>6, <1>7
  <2> QED BY <2>2, <2>3
<1>9. Max(highs) = Max(U)
  <2>1. PICK d \in D : Max(U) \in v[d]
    BY <1>4, <1>6
  <2>2. Max(v[d]) >= Max(U) /\ Max(highs) >= Max(v[d]) /\ Max(U) >= Max(highs)
    BY <1>1, <1>5, <1>6, <1>7, <2>1
  <2>3. Max(U) \in Int /\ Max(highs) \in Int /\ Max(v[d]) \in Int
    BY <1>1, <1>2, <1>6, <1>7
  <2> QED BY <2>2, <2>3
<1> QED BY <1>8, <1>9 DEF U, lows, highs, Whole, Lows, Highs

-----------------------------------------------------------------------------
(* Derivators.                                                             *)

(* What raw derivators make of a history that is not empty.                *)
LEMMA RawOf ==
  ASSUME NEW S
  PROVE  /\ Raw("count", S) = Cardinality(S)
         /\ Raw("sum", S) = Sum([t \in S |-> Value[t]])
         /\ Raw("s_sum", S) = Sum([t \in S |-> Value[t] * Value[t]])
         /\ S # {} => /\ Raw("first", S) = Min(S)
                      /\ Raw("last", S) = Max(S)
                      /\ Raw("min", S) = Min({Value[t] : t \in S})
                      /\ Raw("max", S) = Max({Value[t] : t \in S})
<1> DEFINE f == [t \in S |-> Value[t]]
           g == [t \in S |-> Value[t] * Value[t]]
           V == {Value[t] : t \in S}
<1>1. \A a : Raw(a, S) =
        IF S = {} /\ a \notin Additive THEN Undefined
        ELSE CASE a = "count" -> Cardinality(S)
               [] a = "sum"   -> Sum(f)
               [] a = "s_sum" -> Sum(g)
               [] a = "first" -> Min(S)
               [] a = "last"  -> Max(S)
               [] a = "min"   -> Min(V)
               [] a = "max"   -> Max(V)
  BY DEF Raw
<1> HIDE DEF f, g, V
<1>2. /\ Raw("count", S) = Cardinality(S)
      /\ Raw("sum", S) = Sum(f)
      /\ Raw("s_sum", S) = Sum(g)
      /\ S # {} => /\ Raw("first", S) = Min(S)
                   /\ Raw("last", S) = Max(S)
                   /\ Raw("min", S) = Min(V)
                   /\ Raw("max", S) = Max(V)
  BY <1>1 DEF Additive
<1> QED BY <1>2 DEF f, g, V

(* What follow-up derivators make of numbers.                              *)
LEMMA FollowUpOf ==
  ASSUME NEW n
  PROVE  /\ \A a \in Additive : FollowUp(a, n) = Sum(n)
         /\ DOMAIN n # {} =>
              /\ \A a \in {"first", "min"} :
                   FollowUp(a, n) = Min({n[d] : d \in DOMAIN n})
              /\ \A a \in {"last", "max"} :
                   FollowUp(a, n) = Max({n[d] : d \in DOMAIN n})
<1> DEFINE N == {n[d] : d \in DOMAIN n}
<1>1. \A a : FollowUp(a, n) =
        IF DOMAIN n = {} /\ a \notin Additive THEN Undefined
        ELSE CASE a \in Additive -> Sum(n)
               [] a \in {"first", "min"} -> Min(N)
               [] a \in {"last", "max"} -> Max(N)
  BY DEF FollowUp
<1> HIDE DEF N
<1>2. /\ \A a \in Additive : FollowUp(a, n) = Sum(n)
      /\ DOMAIN n # {} => /\ \A a \in {"first", "min"} : FollowUp(a, n) = Min(N)
                          /\ \A a \in {"last", "max"} : FollowUp(a, n) = Max(N)
  BY <1>1 DEF Additive
<1> QED BY <1>2 DEF N

(* The numbers that raw derivators find for each of several histories, put *)
(* together by a follow-up derivator, are the numbers that they find for   *)
(* all the histories at once, when these are apart and none is empty.      *)
LEMMA FollowUpOfParts ==
  ASSUME NEW S, S \subseteq Moment, IsFiniteSet(S),
         NEW D, IsFiniteSet(D), D # {},
         NEW v \in Partitions(D, S), \A d \in D : v[d] # {},
         NEW a \in Aggregation
  PROVE  FollowUp(a, [d \in D |-> Raw(a, v[d])]) = Raw(a, UNION {v[d] : d \in D})
<1> DEFINE U == UNION {v[d] : d \in D}
           n == [d \in D |-> Raw(a, v[d])]
           ones == [t \in S |-> 1]
           values == [t \in S |-> Value[t]]
           squares == [t \in S |-> Value[t] * Value[t]]
<1>0. /\ v \in [D -> SUBSET S] /\ \A d \in D : v[d] \subseteq S
      /\ U \subseteq S
  BY DEF Partitions
<1>1. \A t \in S : Value[t] \in Int /\ t \in Int
  BY ValueAssumption, MomentAssumption
<1>2. /\ ones \in [S -> Int] /\ values \in [S -> Int]
      /\ squares \in [S -> Int]
  BY <1>1
<1>3. U # {}
  <2>1. PICK d \in D : TRUE
    OBVIOUS
  <2>2. v[d] # {} /\ v[d] \subseteq U
    OBVIOUS
  <2> QED BY <2>2
<1>4. DOMAIN n = D /\ {n[d] : d \in DOMAIN n} = {Raw(a, v[d]) : d \in D}
  OBVIOUS
<1>5. ASSUME NEW g \in [S -> Int],
             \A d \in D : Raw(a, v[d]) = SumOn(g, v[d]),
             Raw(a, U) = SumOn(g, U)
      PROVE  Sum(n) = Raw(a, U)
  <2>1. n = [d \in D |-> SumOn(g, v[d])]
    BY <1>5
  <2>2. Sum([d \in D |-> SumOn(g, v[d])]) = SumOn(g, U)
    BY SumOfParts
  <2> QED BY <1>5, <2>1, <2>2
<1>6. CASE a = "count"
  <2>1. \A s \in SUBSET S : Raw(a, s) = SumOn(ones, s)
    BY <1>6, CountIsSum, RawOf
  <2>2. Sum(n) = Raw(a, U)
    <3> HIDE DEF ones, U, n
    <3> QED BY <1>0, <1>2, <1>5, <2>1
  <2> HIDE DEF n, U
  <2>3. FollowUp(a, n) = Sum(n)
    BY <1>6, FollowUpOf DEF Additive
  <2> QED BY <2>2, <2>3 DEF n, U
<1>7. CASE a = "sum"
  <2>1. ASSUME NEW s \in SUBSET S PROVE Raw(a, s) = SumOn(values, s)
    <3>1. [t \in s |-> Value[t]] = [t \in s |-> values[t]]
      OBVIOUS
    <3>2. Raw(a, s) = Sum([t \in s |-> Value[t]])
      BY <1>7, RawOf
    <3> QED BY <3>1, <3>2 DEF SumOn
  <2>2. Sum(n) = Raw(a, U)
    <3> HIDE DEF values, U, n
    <3> QED BY <1>0, <1>2, <1>5, <2>1
  <2> HIDE DEF n, U
  <2>3. FollowUp(a, n) = Sum(n)
    BY <1>7, FollowUpOf DEF Additive
  <2> QED BY <2>2, <2>3 DEF n, U
<1>8. CASE a = "s_sum"
  <2>1. ASSUME NEW s \in SUBSET S PROVE Raw(a, s) = SumOn(squares, s)
    <3>1. [t \in s |-> Value[t] * Value[t]] = [t \in s |-> squares[t]]
      OBVIOUS
    <3>2. Raw(a, s) = Sum([t \in s |-> Value[t] * Value[t]])
      BY <1>8, RawOf
    <3> QED BY <3>1, <3>2 DEF SumOn
  <2>2. Sum(n) = Raw(a, U)
    <3> HIDE DEF squares, U, n
    <3> QED BY <1>0, <1>2, <1>5, <2>1
  <2> HIDE DEF n, U
  <2>3. FollowUp(a, n) = Sum(n)
    BY <1>8, FollowUpOf DEF Additive
  <2> QED BY <2>2, <2>3 DEF n, U
<1>9. S \subseteq Int /\ v \in [D -> (SUBSET S) \ {{}}]
  BY <1>0, <1>1
<1>10. /\ Min({Min(v[d]) : d \in D}) = Min(U)
       /\ Max({Max(v[d]) : d \in D}) = Max(U)
  <2>1. /\ Min(Lows(D, v)) = Min(Whole(D, v))
        /\ Max(Highs(D, v)) = Max(Whole(D, v))
    BY <1>9, ExtremesOfParts
  <2> QED BY <2>1 DEF Lows, Highs, Whole
<1>11. CASE a = "first"
  <2>1. \A s : s # {} => Raw(a, s) = Min(s)
    BY <1>11, RawOf
  <2>2. {Raw(a, v[d]) : d \in D} = {Min(v[d]) : d \in D} /\ Raw(a, U) = Min(U)
    <3> HIDE DEF U
    <3> QED BY <1>3, <2>1
  <2> HIDE DEF n, U
  <2>3. FollowUp(a, n) = Min({n[d] : d \in DOMAIN n})
    BY <1>4, <1>11, FollowUpOf
  <2> QED BY <1>4, <1>10, <2>2, <2>3 DEF n, U
<1>12. CASE a = "last"
  <2>1. \A s : s # {} => Raw(a, s) = Max(s)
    BY <1>12, RawOf
  <2>2. {Raw(a, v[d]) : d \in D} = {Max(v[d]) : d \in D} /\ Raw(a, U) = Max(U)
    <3> HIDE DEF U
    <3> QED BY <1>3, <2>1
  <2> HIDE DEF n, U
  <2>3. FollowUp(a, n) = Max({n[d] : d \in DOMAIN n})
    BY <1>4, <1>12, FollowUpOf
  <2> QED BY <1>4, <1>10, <2>2, <2>3 DEF n, U
<1> DEFINE V == {Value[t] : t \in S}
           w == [d \in D |-> {Value[t] : t \in v[d]}]
<1>13. /\ IsFiniteSet(V) /\ V \subseteq Int
       /\ w \in [D -> (SUBSET V) \ {{}}]
       /\ UNION {w[d] : d \in D} = {Value[t] : t \in U}
  <2>1. IsFiniteSet(V)
    <3>1. V = {values[t] : t \in S}
      OBVIOUS
    <3>2. IsFiniteSet({values[t] : t \in S})
      <4> DEFINE W == {values[t] : t \in S}
      <4>1. values \in Surjection(S, W)
        BY DEF Surjection
      <4> HIDE DEF values, W
      <4>2. IsFiniteSet(W)
        BY <4>1, FS_Surjection
      <4> QED BY <4>2 DEF W
    <3> HIDE DEF values, V
    <3> QED BY <3>1, <3>2
  <2>2. V \subseteq Int
    BY <1>1
  <2>3. ASSUME NEW d \in D PROVE w[d] \in (SUBSET V) \ {{}}
    <3>1. w[d] = {Value[t] : t \in v[d]}
      OBVIOUS
    <3>2. w[d] \subseteq V
      BY <1>0, <3>1
    <3>3. PICK t \in v[d] : TRUE
      OBVIOUS
    <3>4. Value[t] \in w[d]
      BY <3>1, <3>3
    <3> QED BY <3>2, <3>4
  <2>4. UNION {w[d] : d \in D} = {Value[t] : t \in U}
    OBVIOUS
  <2> QED BY <2>1, <2>2, <2>3, <2>4
<1>14. /\ Min({Min(w[d]) : d \in D}) = Min({Value[t] : t \in U})
       /\ Max({Max(w[d]) : d \in D}) = Max({Value[t] : t \in U})
  <2> HIDE DEF w, V
  <2>1. /\ Min(Lows(D, w)) = Min(Whole(D, w))
        /\ Max(Highs(D, w)) = Max(Whole(D, w))
    BY <1>13, ExtremesOfParts
  <2> QED BY <1>13, <2>1 DEF Lows, Highs, Whole
<1>15. CASE a = "min"
  <2>1. \A s : s # {} => Raw(a, s) = Min({Value[t] : t \in s})
    BY <1>15, RawOf
  <2>2. {Raw(a, v[d]) : d \in D} = {Min(w[d]) : d \in D}
    <3>1. \A d \in D : Raw(a, v[d]) = Min(w[d])
      BY <2>1
    <3> QED BY <3>1
  <2>3. Raw(a, U) = Min({Value[t] : t \in U})
    <3> HIDE DEF U
    <3> QED BY <1>3, <2>1
  <2> HIDE DEF n, U, w
  <2>4. FollowUp(a, n) = Min({n[d] : d \in DOMAIN n})
    BY <1>4, <1>15, FollowUpOf
  <2> QED BY <1>4, <1>14, <2>2, <2>3, <2>4 DEF n, U
<1>16. CASE a = "max"
  <2>1. \A s : s # {} => Raw(a, s) = Max({Value[t] : t \in s})
    BY <1>16, RawOf
  <2>2. {Raw(a, v[d]) : d \in D} = {Max(w[d]) : d \in D}
    <3>1. \A d \in D : Raw(a, v[d]) = Max(w[d])
      BY <2>1
    <3> QED BY <3>1
  <2>3. Raw(a, U) = Max({Value[t] : t \in U})
    <3> HIDE DEF U
    <3> QED BY <1>3, <2>1
  <2> HIDE DEF n, U, w
  <2>4. FollowUp(a, n) = Max({n[d] : d \in DOMAIN n})
    BY <1>4, <1>16, FollowUpOf
  <2> QED BY <1>4, <1>14, <2>2, <2>3, <2>4 DEF n, U
<1> QED BY <1>6, <1>7, <1>8, <1>11, <1>12, <1>15, <1>16 DEF Aggregation

-----------------------------------------------------------------------------
(* What an update reads.                                                   *)

(* A row is written when it has a timestamp.                               *)
Written(c) == rows[c].stamp > 0

Holding == {"reading", "queued", "writing", "landed", "orphan"}

(* Update k was triggered by a row of a finer period, and has a value once *)
(* its history is read.                                                    *)
Loaded(k) ==
  /\ task[k].level = 1 => task[k].shunk = k[2]
  /\ task[k].stage = "due" /\ task[k].level > 1 =>
       \E d \in Moment : /\ Shunk[task[k].level][d] = task[k].shunk
                         /\ Written(<<task[k].level - 1, d>>)
  /\ task[k].stage \in Holding => task[k].value # {}
  /\ task[k].stage \in {"writing", "orphan"} => task[k].stamp > 0
  /\ task[k].stage = "landed" => Written(CellOf(k))

(* The rows that are written are those that stand for observations, of     *)
(* which the database has finitely many.                                   *)
Filled ==
  /\ IsFiniteSet(raw)
  /\ \A c \in Cell : Written(c) <=> rows[c].value # {}
  /\ \A k \in Line : Loaded(k)

(* Written rows are never deleted.                                         *)
LEMMA WrittenStays ==
  ASSUME TypeOK, BatchLanded, [Next]_vars, NEW c \in Cell, Written(c)
  PROVE  rows'[c].stamp > 0
<1>1. CASE Quiet
  BY <1>1 DEF Quiet, rowVars, Written
<1>2. ASSUME NEW k \in Line, IssueWrite(k) PROVE rows'[c].stamp > 0
  BY <1>2 DEF IssueWrite, Written
<1>3. ASSUME NEW k \in Line, LandWrite(k) PROVE rows'[c].stamp > 0
  <2>1. rows[c].stamp \in Nat /\ task[k].stamp \in Nat
    BY StampTypes
  <2>2. rows'[c].stamp = rows[c].stamp \/
        (rows'[c].stamp = task[k].stamp /\ rows[c].stamp < task[k].stamp)
    BY <1>3, LandFrame
  <2> QED
    BY <2>1, <2>2 DEF Written
<1> QED
  BY <1>1, <1>2, <1>3, QuietSteps

(* Steps that change no more than the stage of an update, and take none    *)
(* past a read, an issue or a landing.                                     *)
LEMMA LoadedKept ==
  ASSUME TypeOK, BatchLanded, [Next]_vars, NEW j \in Line, Loaded(j), Kept(j),
         task'[j].stage = "due" => task[j].stage = "due" \/ task[j].level = 1,
         task'[j].stage \in Holding => task[j].stage \in Holding,
         task'[j].stage \in {"writing", "orphan"} =>
           task[j].stage \in {"writing", "orphan"},
         task'[j].stage = "landed" =>
           task[j].stage = "landed" \/ rows'[CellOf(j)].stamp > 0
  PROVE  Loaded(j)'
<1>0. /\ task[j].level \in Level /\ task[j].shunk \in Moment
      /\ CellOf(j) \in Cell /\ CellOf(j)' = CellOf(j)
  BY TaskType, CellOfType, KeptCell DEF Kept, Task
<1>1. task'[j].level = 1 => task'[j].shunk = j[2]
  BY DEF Loaded, Kept
<1>2. ASSUME task'[j].stage = "due", task'[j].level > 1
      PROVE  \E d \in Moment : /\ Shunk[task'[j].level][d] = task'[j].shunk
                               /\ rows'[<<task'[j].level - 1, d>>].stamp > 0
  <2>1. /\ task[j].level > 1 /\ task'[j].level = task[j].level
        /\ task'[j].shunk = task[j].shunk /\ task[j].level # 1
    BY <1>0, <1>2, LevelType DEF Kept
  <2>2. task[j].stage = "due"
    BY <1>2, <2>1
  <2>3. PICK d \in Moment : /\ Shunk[task[j].level][d] = task[j].shunk
                            /\ Written(<<task[j].level - 1, d>>)
    BY <2>1, <2>2 DEF Loaded
  <2>4. <<task[j].level - 1, d>> \in Cell
    BY <1>0, <2>1, LevelType DEF Cell
  <2>5. rows'[<<task[j].level - 1, d>>].stamp > 0
    BY <2>3, <2>4, WrittenStays
  <2> QED
    BY <2>1, <2>3, <2>5
<1>3. task'[j].stage \in Holding => task'[j].value # {}
  BY DEF Loaded, Kept
<1>4. task'[j].stage \in {"writing", "orphan"} => task'[j].stamp > 0
  BY DEF Loaded, Kept
<1>5. task'[j].stage = "landed" => rows'[CellOf(j)].stamp > 0
  BY <1>0, WrittenStays DEF Loaded
<1> QED
  BY <1>0, <1>1, <1>2, <1>3, <1>4, <1>5 DEF Loaded, Written

(* An update that is about to read finds something.                        *)
LEMMA HistoryFound ==
  ASSUME TypeOK, BatchLanded, Filled, NEW k \in Line, task[k].stage = "due"
  PROVE  History(task[k].level, task[k].shunk) # {}
<1>0. task[k].level \in Level /\ raw \subseteq Moment
  BY TaskType DEF Task, TypeOK
<1>1. CASE task[k].level = 1
  <2>1. Stamps[k[1]] \subseteq raw
    BY LineType DEF BatchLanded, Acked
  <2>2. PICK t \in Stamps[k[1]] : Shunk[1][t] = k[2]
    BY DEF Line, FirstShunks
  <2>3. task[k].shunk = k[2]
    BY <1>1 DEF Filled, Loaded
  <2> QED
    BY <1>1, <2>1, <2>2, <2>3 DEF History
<1>2. CASE task[k].level # 1
  <2>1. task[k].level > 1
    BY <1>0, <1>2, LevelsAssumption DEF Level
  <2>2. PICK d \in Moment : /\ Shunk[task[k].level][d] = task[k].shunk
                            /\ Written(<<task[k].level - 1, d>>)
    BY <2>1 DEF Filled, Loaded
  <2>3. <<task[k].level - 1, d>> \in Cell
    BY <1>0, <1>2, LevelType DEF Cell
  <2>4. rows[<<task[k].level - 1, d>>].value # {}
    BY <2>2, <2>3 DEF Filled
  <2> QED
    BY <1>2, <2>2, <2>4 DEF History
<1> QED
  BY <1>1, <1>2

(* Steps of messages.                                                      *)
LEMMA MessageStepFilled ==
  ASSUME TypeOK, BatchLanded, Started, Filled, [Next]_vars,
         NEW m \in Message, Send(m) \/ MessageStep(m)
  PROVE  Filled'
<1>1. rows' = rows
  BY DEF MessageStep, Send, Consume, LandObservation, AckMessage, rowVars
<1>2. IsFiniteSet(raw')
  <2>1. ASSUME NEW t, LandObservation(m, t) PROVE IsFiniteSet(raw')
    BY <2>1, FS_AddElement DEF LandObservation, Filled
  <2>2. CASE Send(m) \/ Consume(m) \/ AckMessage(m)
    BY <2>2 DEF Send, Consume, AckMessage, msgVars, Filled
  <2> QED
    BY <2>1, <2>2 DEF MessageStep
<1>3. ASSUME NEW j \in Line PROVE Loaded(j)'
  <2>0. Loaded(j)
    BY DEF Filled
  <2>1. CASE AckMessage(m)
    <3>1. Kept(j) /\ (j[1] = m => task'[j].stage = "due")
                  /\ (j[1] # m => task'[j] = task[j])
      BY <2>1, AckMessageFrame
    <3>2. j[1] = m => task[j].level = 1
      BY <2>1 DEF AckMessage, Started
    <3> QED
      BY <2>0, <3>1, <3>2, LoadedKept DEF Holding
  <2>2. CASE ~ AckMessage(m)
    <3>1. task' = task
      BY <2>2 DEF MessageStep, Send, Consume, LandObservation
    <3> QED
      BY <2>0, <3>1, LoadedKept DEF Kept
  <2> QED
    BY <2>1, <2>2
<1> QED
  BY <1>1, <1>2, <1>3 DEF Filled, Written

(* Steps of an update, but the one that changes a row.                     *)
LEMMA LineStepFilled ==
  ASSUME TypeOK, BatchLanded, Filled, [Next]_vars,
         NEW k \in Line, StartRead(k) \/ FinishRead(k) \/ IssueWrite(k) \/ AckWrite(k)
  PROVE  Filled'
<1>1. rows' = rows /\ raw' = raw
  BY DEF StartRead, FinishRead, IssueWrite, AckWrite, rowVars, msgVars
<1>2. \A j \in Line : j # k => task'[j] = task[j]
  BY LineStepFrame DEF LineStep
<1>3. ASSUME NEW j \in Line, j # k PROVE Loaded(j)'
  BY <1>2, <1>3, LoadedKept DEF Kept, Filled
<1>4. Loaded(k)
  BY DEF Filled
<1>5. /\ task[k].level \in Level /\ task[k].shunk \in Moment
      /\ CellOf(k) \in Cell
  BY TaskType, CellOfType DEF Task
<1>6. ASSUME StartRead(k) PROVE Loaded(k)'
  <2>1. /\ task[k].stage = "due" /\ task'[k].stage = "reading"
        /\ task'[k].level = task[k].level /\ task'[k].shunk = task[k].shunk
        /\ task'[k].value = History(task[k].level, task[k].shunk)
    BY <1>6, StartReadFrame
  <2>2. task'[k].value # {}
    BY <2>1, HistoryFound
  <2> QED
    BY <1>4, <2>1, <2>2 DEF Loaded
<1>7. ASSUME FinishRead(k) PROVE Loaded(k)'
  <2>1. task[k].stage = "reading" /\ GoTo(k, "queued")
    BY <1>7 DEF FinishRead
  <2>2. Kept(k) /\ task'[k].stage = "queued"
    BY <2>1, GoToMoves DEF Moves
  <2> QED
    BY <1>4, <2>1, <2>2, LoadedKept DEF Holding
<1>8. ASSUME IssueWrite(k) PROVE Loaded(k)'
  <2>1. /\ task[k].stage = "queued" /\ task'[k].stage = "writing"
        /\ task'[k].level = task[k].level /\ task'[k].shunk = task[k].shunk
        /\ task'[k].value = task[k].value
        /\ task'[k].stamp = issued[CellOf(k)] + 1
    BY <1>8, IssueFrame
  <2>2. task'[k].stamp > 0
    BY <2>1, StampTypes
  <2> QED
    BY <1>4, <2>1, <2>2 DEF Loaded, Holding
<1>9. ASSUME AckWrite(k) PROVE Loaded(k)'
  <2>1. task[k].stage = "landed"
    BY <1>9, AckFrame
  <2>2. CASE /\ task[k].level + 1 \in Level
             /\ task'[k].stage = "due" /\ task'[k].level = task[k].level + 1
             /\ task'[k].shunk = Shunk[task[k].level + 1][task[k].shunk]
    <3>1. Written(<<task[k].level, task[k].shunk>>)
      BY <1>4, <2>1 DEF Loaded, CellOf
    <3>2. task'[k].level # 1 /\ task'[k].level - 1 = task[k].level
      BY <1>5, <2>2, LevelsAssumption DEF Level
    <3>3. \E d \in Moment : /\ Shunk[task'[k].level][d] = task'[k].shunk
                            /\ rows'[<<task'[k].level - 1, d>>].stamp > 0
      BY <1>1, <1>5, <2>2, <3>1, <3>2 DEF Written
    <3> QED
      BY <2>2, <3>2, <3>3 DEF Loaded, Written, Holding
  <2>3. CASE task'[k].stage = "done" /\ Kept(k)
    BY <1>4, <2>3, LoadedKept DEF Holding
  <2> QED
    BY <1>9, <2>2, <2>3, AckFrame
<1>10. Loaded(k)'
  BY <1>6, <1>7, <1>8, <1>9
<1> QED
  BY <1>1, <1>3, <1>10 DEF Filled, Written

(* A row is filled with the value of an update.                            *)
LEMMA LandWriteFilled ==
  ASSUME TypeOK, BatchLanded, Filled, [Next]_vars, NEW k \in Line, LandWrite(k)
  PROVE  Filled'
<1>1. raw' = raw
  BY DEF LandWrite, msgVars
<1>2. /\ task[k].stage \in {"writing", "orphan"}
      /\ Moves(k, IF task[k].stage = "orphan" THEN "lost" ELSE "landed")
      /\ \A d \in Cell :
           IF d = CellOf(k) /\ rows[d].stamp < task[k].stamp
           THEN rows'[d].value = task[k].value /\ rows'[d].stamp = task[k].stamp
           ELSE rows'[d] = rows[d]
  BY LandFrame
<1>3. task[k].value # {} /\ task[k].stamp > 0
  BY <1>2 DEF Filled, Loaded, Holding
<1>4. \A d \in Cell : rows'[d].stamp > 0 <=> rows'[d].value # {}
  BY <1>2, <1>3 DEF Filled, Written
<1>5. rows'[CellOf(k)].stamp > 0
  <2>1. /\ CellOf(k) \in Cell /\ task[k].stamp \in Nat
        /\ rows[CellOf(k)].stamp \in Nat
    BY StampTypes
  <2> QED
    BY <1>2, <1>3, <2>1
<1>6. ASSUME NEW j \in Line PROVE Loaded(j)'
  <2>1. Loaded(j)
    BY DEF Filled
  <2>2. Kept(j)
    BY <1>2 DEF Moves
  <2>3. CASE j = k
    <3>1. task'[j].stage \in {"lost", "landed"}
      BY <1>2, <2>3 DEF Moves
    <3> QED
      BY <1>2, <1>5, <2>1, <2>2, <2>3, <3>1, LoadedKept DEF Holding
  <2>4. CASE j # k
    <3>1. task'[j].stage = task[j].stage
      BY <1>2, <2>4 DEF Moves
    <3> QED
      BY <2>1, <2>2, <3>1, LoadedKept
  <2> QED
    BY <2>3, <2>4
<1> QED
  BY <1>1, <1>4, <1>6 DEF Filled, Written

FilledInv == OwnDataInv /\ Started /\ Filled

(* Nothing is filled in an empty database.                                 *)
LEMMA InitFilled == Init => FilledInv
<1> SUFFICES ASSUME Init PROVE FilledInv
  OBVIOUS
<1>1. OwnDataInv /\ Started
  BY InitSeenInv DEF SeenInv, WriteInv
<1>2. \A j \in Line : /\ task[j].stage = "none" /\ task[j].level = 1
                      /\ task[j].shunk = j[2]
  BY DEF Init
<1>3. \A c \in Cell : rows[c].stamp = 0 /\ rows[c].value = {}
  BY DEF Init
<1>4. IsFiniteSet(raw)
  BY FS_EmptySet DEF Init
<1>5. \A j \in Line : Loaded(j)
  BY <1>2 DEF Loaded, Holding
<1> QED
  BY <1>1, <1>3, <1>4, <1>5 DEF FilledInv, Filled, Written

(* All of it is inductive.                                                 *)
LEMMA NextFilled == FilledInv /\ [Next]_vars => FilledInv'
<1> SUFFICES ASSUME FilledInv, [Next]_vars PROVE FilledInv'
  OBVIOUS
<1>1. TypeOK /\ BatchLanded /\ Started /\ Filled
  BY DEF FilledInv, OwnDataInv
<1>2. OwnDataInv' /\ Started'
  BY <1>1, NextOwnData, NextStarted DEF FilledInv
<1>3. ASSUME raw' = raw, rows' = rows,
             \A j \in Line : /\ Kept(j)
                             /\ \/ task'[j].stage = task[j].stage
                                \/ task'[j].stage = "lost"
                                \/ /\ task[j].stage = "writing"
                                   /\ task'[j].stage = "orphan"
      PROVE  Filled'
  <2>1. ASSUME NEW j \in Line PROVE Loaded(j)'
    BY <1>1, <1>3, LoadedKept DEF Filled, Holding
  <2> QED
    BY <1>1, <1>3, <2>1 DEF Filled, Written
<1>4. ASSUME Crash PROVE Filled'
  <2>1. raw' = raw /\ rows' = rows
    BY <1>4 DEF Crash, rowVars
  <2>2. \A j \in Line : task[j].stage \in Stage
    BY <1>1, TaskType DEF Task
  <2> QED
    BY <1>1, <1>3, <1>4, <2>1, <2>2, CrashFrame DEF Stage
<1>5. ASSUME UNCHANGED vars PROVE Filled'
  BY <1>3, <1>5 DEF vars, msgVars, rowVars, Kept
<1>6. Filled'
  <2>1. ASSUME NEW m \in Message, Send(m) \/ MessageStep(m) PROVE Filled'
    BY <1>1, <2>1, MessageStepFilled
  <2>2. ASSUME NEW k \in Line, LineStep(k) PROVE Filled'
    BY <1>1, <2>2, LineStepFilled, LandWriteFilled DEF LineStep
  <2> QED
    BY <1>4, <1>5, <2>1, <2>2 DEF Next, Idle
<1> QED
  BY <1>2, <1>6 DEF FilledInv

(* The rows of the finer periods of a period, put in a function, are apart *)
(* and none is empty.                                                      *)
LEMMA RowsAreParts ==
  ASSUME TypeOK, NoPhantom, Filled, NEW c \in Cell, c[1] > 1
  PROVE  LET D == RowsRead(c)
             v == [d \in D |-> rows[<<c[1] - 1, d>>].value]
         IN  /\ IsFiniteSet(D) /\ v \in Partitions(D, raw)
             /\ \A d \in D : v[d] # {}
             /\ UNION {v[d] : d \in D} = History(c[1], c[2])
<1> DEFINE l == c[1] - 1
           D == RowsRead(c)
           v == [d \in D |-> rows[<<l, d>>].value]
<1>1. c[1] \in Level /\ l \in Level /\ c[1] # 1
  BY LevelType, LevelsAssumption DEF Cell, Level
<1>2. \A d \in Moment : <<l, d>> \in Cell
  BY <1>1 DEF Cell
<1>3. \A d \in Moment : rows[<<l, d>>].value \subseteq
        {t \in raw : t \in Moment /\ Shunk[l][t] = d}
  <2>1. ASSUME NEW d \in Moment
        PROVE  rows[<<l, d>>].value \subseteq
                 {t \in raw : t \in Moment /\ Shunk[l][t] = d}
    <3>1. rows[<<l, d>>].value \subseteq raw \cap Covers(<<l, d>>)
      BY <1>2 DEF NoPhantom
    <3> QED
      BY <3>1 DEF Covers
  <2> QED
    BY <2>1
<1>4. D \subseteq Moment /\ \A d \in D : Shunk[c[1]][d] = c[2] /\ Written(<<l, d>>)
  BY DEF RowsRead, Written
<1>5. \A d \in D : rows[<<l, d>>].value # {}
  BY <1>2, <1>4 DEF Filled
<1>6. IsFiniteSet(D)
  <2> DEFINE f == [t \in raw |-> Shunk[l][t]]
             E == {f[t] : t \in raw}
  <2>1. f \in Surjection(raw, E)
    BY DEF Surjection
  <2>2. IsFiniteSet(E)
    <3> HIDE DEF f, E
    <3> QED
      BY <2>1, FS_Surjection DEF Filled
  <2>3. ASSUME NEW d \in D PROVE d \in E
    <3>1. PICK t \in rows[<<l, d>>].value : TRUE
      BY <1>5
    <3>2. t \in raw /\ Shunk[l][t] = d
      BY <1>3, <1>4, <3>1
    <3>3. f[t] = d
      BY <3>2
    <3> QED
      BY <3>2, <3>3
  <2>4. D \subseteq E
    BY <2>3
  <2> HIDE DEF D, E
  <2> QED
    BY <2>2, <2>4, FS_Subset
<1>7. v \in Partitions(D, raw)
  <2>1. v \in [D -> SUBSET raw]
    BY <1>3, <1>4
  <2>2. ASSUME NEW d \in D, NEW e \in D, d # e PROVE v[d] \cap v[e] = {}
    <3>1. \A t \in v[d] : Shunk[l][t] = d
      BY <1>3, <1>4
    <3>2. \A t \in v[e] : Shunk[l][t] = e
      BY <1>3, <1>4
    <3> HIDE DEF v
    <3> QED
      BY <2>2, <3>1, <3>2
  <2> HIDE DEF v, D
  <2> QED
    BY <2>1, <2>2 DEF Partitions
<1>8. \A d \in D : v[d] # {}
  BY <1>5
<1>9. UNION {v[d] : d \in D} = History(c[1], c[2])
  <2> DEFINE P == {d \in Moment : Shunk[c[1]][d] = c[2]}
  <2>1. History(c[1], c[2]) = UNION {rows[<<l, d>>].value : d \in P}
    BY <1>1 DEF History
  <2>2. D \subseteq P /\ \A d \in D : v[d] = rows[<<l, d>>].value
    BY <1>4
  <2>3. ASSUME NEW d \in P, d \notin D PROVE rows[<<l, d>>].value = {}
    <3>1. ~ Written(<<l, d>>)
      BY <2>3 DEF RowsRead, Written
    <3> QED
      BY <1>2, <3>1 DEF Filled
  <2> HIDE DEF D, v, P, l
  <2> QED
    BY <2>1, <2>2, <2>3
<1> QED
  BY <1>6, <1>7, <1>8, <1>9

(* Each number that a follow-up derivator computes from the numbers of the *)
(* finer periods is the one that raw derivators would find for the         *)
(* observations behind them, for any values and periods, and an update     *)
(* that is about to read always finds something: minBy and maxBy never get *)
(* an empty list.                                                          *)
THEOREM NumbersAreExact == Spec => []FollowUpExact
<1>1. FilledInv => FollowUpExact
  <2> SUFFICES ASSUME FilledInv, NEW k \in Line, task[k].stage = "due"
               PROVE  LET known == History(task[k].level, task[k].shunk) IN
                      /\ known # {}
                      /\ task[k].level > 1 => \A a \in Aggregation :
                           FollowUp(a, Numbers(a, CellOf(k))) = Raw(a, known)
    BY DEF FollowUpExact
  <2>1. TypeOK /\ NoPhantom /\ BatchLanded /\ Filled
    BY DEF FilledInv, OwnDataInv
  <2>2. History(task[k].level, task[k].shunk) # {}
    BY <2>1, HistoryFound
  <2>3. ASSUME task[k].level > 1, NEW a \in Aggregation
        PROVE  FollowUp(a, Numbers(a, CellOf(k))) =
                 Raw(a, History(task[k].level, task[k].shunk))
    <3> DEFINE c == CellOf(k)
               D == RowsRead(c)
               v == [d \in D |-> rows[<<c[1] - 1, d>>].value]
    <3>1. c \in Cell /\ c[1] = task[k].level /\ c[2] = task[k].shunk
      BY <2>1, CellOfType DEF CellOf
    <3> HIDE DEF c
    <3>2. /\ IsFiniteSet(D) /\ v \in Partitions(D, raw)
          /\ \A d \in D : v[d] # {}
          /\ UNION {v[d] : d \in D} = History(c[1], c[2])
      BY <2>1, <2>3, <3>1, RowsAreParts
    <3>3. Numbers(a, c) = [d \in D |-> Raw(a, v[d])]
      BY DEF Numbers
    <3>4. raw \subseteq Moment /\ IsFiniteSet(raw)
      BY <2>1 DEF TypeOK, Filled
    <3>5. D # {}
      BY <2>2, <3>1, <3>2
    <3> HIDE DEF D, v
    <3>6. FollowUp(a, [d \in D |-> Raw(a, v[d])]) = Raw(a, UNION {v[d] : d \in D})
      BY <3>2, <3>4, <3>5, FollowUpOfParts
    <3> QED
      BY <3>1, <3>2, <3>3, <3>6 DEF c
  <2> QED
    BY <2>2, <2>3
<1> QED
  BY <1>1, InitFilled, NextFilled, PTL DEF Spec
=============================================================================
