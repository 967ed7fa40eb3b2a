---------------------- MODULE AggregationLoop_proofs ----------------------
(***************************************************************************)
(* Proofs about AggregationLoop, for any number of updates and levels and  *)
(* any capacities that meet the assumptions of the module: the cycle       *)
(* through the merge keeps a spare place, and so it never wedges.          *)
(***************************************************************************)
EXTENDS AggregationLoop, FiniteSetTheorems, TLAPS

(* Where an update may be.                                                 *)
Place == LoopStage \cup {"upstream", "admitted", "done"}

-----------------------------------------------------------------------------
(* Loads are numbers, and a stage with no update has load zero.            *)
LEMMA LoadType ==
  ASSUME NEW s
  PROVE  /\ IsFiniteSet(At(s))
         /\ Load(s) \in Nat
         /\ Load(s) = 0 <=> At(s) = {}
<1>1. IsFiniteSet(Token)
  BY FS_Interval, UpdatesAssumption DEF Token
<1>2. At(s) \in SUBSET Token
  BY DEF At
<1>3. IsFiniteSet(At(s))
  BY <1>1, <1>2, FS_Subset
<1> QED
  BY <1>3, FS_CardinalityType, FS_EmptySet DEF Load

(* When an update moves from a to b, the load of a falls by one, the load  *)
(* of b grows by one and no other load changes.                            *)
LEMMA MoveLoads ==
  ASSUME TypeOK, NEW t \in Token, NEW a, NEW b,
         loc[t] = a, a # b, Move(t, b)
  PROVE  /\ Load(a)' = Load(a) - 1
         /\ Load(b)' = Load(b) + 1
         /\ \A s : s # a /\ s # b => Load(s)' = Load(s)
         /\ Load(a) >= 1
<1>1. loc \in [Token -> Place] /\ loc' = [loc EXCEPT ![t] = b]
  BY DEF TypeOK, Place, Move
<1>2. At(a)' = At(a) \ {t} /\ t \in At(a)
  BY <1>1 DEF At
<1>3. At(b)' = At(b) \cup {t} /\ t \notin At(b)
  BY <1>1 DEF At
<1>4. ASSUME NEW s, s # a, s # b
      PROVE  At(s)' = At(s)
  BY <1>1, <1>4 DEF At
<1>5. Load(a)' = Load(a) - 1
  BY <1>2, LoadType, FS_RemoveElement DEF Load
<1>6. Load(b)' = Load(b) + 1
  BY <1>3, LoadType, FS_AddElement DEF Load
<1>7. \A s : s # a /\ s # b => Load(s)' = Load(s)
  BY <1>4 DEF Load
<1>8. Load(a) >= 1
  BY <1>2, LoadType
<1> QED
  BY <1>5, <1>6, <1>7, <1>8

(* Steps that leave loc alone leave every load alone.                      *)
LEMMA SameLoads ==
  ASSUME loc' = loc
  PROVE  \A s : At(s)' = At(s) /\ Load(s)' = Load(s)
BY DEF At, Load

(* Every stage of the cycle has at least one place, and the merge two.     *)
LEMMA CapacityType ==
  /\ \A s \in LoopStage : Capacity[s] \in Nat /\ Capacity[s] >= 1
  /\ Capacity["merging"] >= 2
  /\ LoopCapacity \in Nat
BY CapacityAssumption, MergeAssumption DEF LoopStage, LoopCapacity

-----------------------------------------------------------------------------
(* The inductive invariant.                                                *)
IInv == TypeOK /\ FollowedUp /\ WithinCapacity /\ SpareRoom

(* The invariant holds of an empty block.                                  *)
LEMMA InitIInv == Init => IInv
<1> SUFFICES ASSUME Init PROVE IInv
  OBVIOUS
<1>1. TypeOK
  BY LevelsAssumption, OutletAssumption DEF Init, TypeOK
<1>2. FollowedUp
  BY DEF Init, FollowedUp
<1>3. \A s \in LoopStage \cup {"admitted"} : Load(s) = 0
  <2>1. \A s \in LoopStage \cup {"admitted"} : At(s) = {}
    BY DEF Init, At, LoopStage
  <2> QED
    BY <2>1, LoadType
<1>4. WithinCapacity
  BY <1>3, CapacityType DEF WithinCapacity
<1>5. SpareRoom
  BY <1>3, CapacityType DEF SpareRoom, LoopLoad, LoopStage
<1> QED
  BY <1>1, <1>2, <1>4, <1>5 DEF IInv

(* A move between two places of the cycle keeps its load, and the counts   *)
(* stay within the capacities when the place it enters has room.           *)
LEMMA MoveKeepsRoom ==
  ASSUME IInv, NEW t \in Token, NEW a \in LoopStage \cup {"admitted"},
         NEW b \in LoopStage \cup {"done"},
         loc[t] = a, a # b, Move(t, b), b \in LoopStage => Room(b)
  PROVE  WithinCapacity' /\ SpareRoom'
<1> USE DEF IInv
<1>1. /\ Load(a)' = Load(a) - 1
      /\ Load(b)' = Load(b) + 1
      /\ \A s : s # a /\ s # b => Load(s)' = Load(s)
      /\ Load(a) >= 1
  BY MoveLoads
<1>2. \A s : Load(s) \in Nat
  BY LoadType
<1>3. WithinCapacity'
  <2>1. ASSUME NEW s \in LoopStage PROVE Load(s)' <= Capacity[s]
    <3>0. Load(s) <= Capacity[s] /\ Capacity[s] \in Nat /\ Load(s) \in Nat
      BY <1>2, CapacityType DEF WithinCapacity
    <3>1. CASE s = a
      BY <3>0, <3>1, <1>1
    <3>2. CASE s = b
      BY <3>0, <3>2, <1>1 DEF Room
    <3>3. CASE s # a /\ s # b
      BY <3>0, <3>3, <1>1
    <3> QED
      BY <3>1, <3>2, <3>3
  <2>2. Load("admitted")' <= 1
    <3>1. b # "admitted" /\ Load("admitted") <= 1
      BY DEF LoopStage, WithinCapacity
    <3> QED
      BY <3>1, <1>1, <1>2
  <2> QED
    BY <2>1, <2>2 DEF WithinCapacity
<1>4. SpareRoom'
  <2>1. /\ Load("port") \in Nat /\ Load("merging") \in Nat
        /\ Load("entry") \in Nat /\ Load("writing") \in Nat
        /\ Load("branch") \in Nat /\ Load("reading") \in Nat
        /\ Load("buffer") \in Nat /\ Load("admitted") \in Nat
    BY <1>2
  <2>2. LoopLoad' + Load("admitted")'
          <= LoopLoad + Load("admitted")
    BY <2>1, <1>1 DEF LoopLoad, LoopStage
  <2>3. LoopLoad' \in Nat /\ Load("admitted")' \in Int /\ LoopLoad \in Nat
    BY <2>1, <1>1, <1>2, LoadType DEF LoopLoad, LoopStage
  <2>4. LoopCapacity' = LoopCapacity
    BY DEF LoopCapacity
  <2> QED
    BY <2>1, <2>2, <2>3, <2>4, CapacityType DEF SpareRoom
<1> QED
  BY <1>3, <1>4

(* Admission is the one step that brings an update into the cycle: the     *)
(* merge is then empty, so the rest of the cycle bounds the load.          *)
LEMMA AdmitKeepsRoom ==
  ASSUME IInv, NEW t \in Token, Admit(t)
  PROVE  WithinCapacity' /\ SpareRoom'
<1> USE DEF IInv
<1>1. loc[t] = "upstream" /\ Move(t, "admitted")
  BY DEF Admit, NextUpstream
<1>2. /\ Load("admitted")' = Load("admitted") + 1
      /\ \A s \in LoopStage : Load(s)' = Load(s)
  BY <1>1, MoveLoads DEF LoopStage
<1>3. Load("merging") = 0 /\ Load("admitted") = 0
  BY LoadType DEF Admit
<1>4. \A s \in LoopStage : Load(s) \in Nat /\ Load(s) <= Capacity[s]
  BY LoadType DEF WithinCapacity
<1>5. WithinCapacity'
  BY <1>2, <1>3, <1>4 DEF WithinCapacity
<1>6. LoopLoad <= LoopCapacity /\ LoopLoad \in Nat
  BY <1>3, <1>4, CapacityType DEF LoopLoad, LoopCapacity, LoopStage
<1>7. LoopLoad' = LoopLoad /\ LoopCapacity' = LoopCapacity
  BY <1>2 DEF LoopLoad, LoopCapacity, LoopStage
<1>8. SpareRoom'
  BY <1>2, <1>3, <1>6, <1>7, CapacityType DEF SpareRoom
<1> QED
  BY <1>5, <1>8

(* Steps that move nothing.                                                *)
LEMMA StillKeepsRoom ==
  ASSUME IInv, loc' = loc
  PROVE  WithinCapacity' /\ SpareRoom'
BY SameLoads DEF IInv, WithinCapacity, SpareRoom, LoopLoad, LoopCapacity

(* The typing and level parts of the invariant, step by step.              *)
LEMMA StepType ==
  ASSUME IInv, NEW t \in Token, Step(t)
  PROVE  TypeOK' /\ FollowedUp'
<1> USE LevelsAssumption DEF IInv, TypeOK, FollowedUp, Move
<1>1. CASE Admit(t)
  BY <1>1 DEF Admit
<1>2. CASE GrabPreferred(t)
  BY <1>2 DEF GrabPreferred, LoopStage
<1>3. CASE Emit(t)
  BY <1>3 DEF Emit, LoopStage
<1>4. CASE StartWrite(t)
  <2>1. outlet' \in [Outlet -> 0 .. OutletSize]
    BY <1>4, OutletAssumption DEF StartWrite, Outlet, OutletRoom
  <2> QED
    BY <1>4, <2>1 DEF StartWrite, LoopStage
<1>5. CASE FinishWrite(t)
  BY <1>5 DEF FinishWrite, LoopStage
<1>6. CASE StartRead(t)
  <2>1. outlet' \in [Outlet -> 0 .. OutletSize]
    BY <1>6, OutletAssumption DEF StartRead, Outlet, OutletRoom
  <2> QED
    BY <1>6, <2>1 DEF StartRead, LoopStage
<1>7. CASE FinishRead(t)
  <2>1. level[t] + 1 \in 1 .. Levels
    BY <1>7 DEF FinishRead
  <2>2. level' \in [Token -> 1 .. Levels]
    BY <1>7, <2>1 DEF FinishRead
  <2> QED
    BY <1>7, <2>2 DEF FinishRead, LoopStage
<1>8. CASE HandOver(t)
  BY <1>8 DEF HandOver, LoopStage
<1> QED
  BY <1>1, <1>2, <1>3, <1>4, <1>5, <1>6, <1>7, <1>8 DEF Step

(* No step of an update overfills a stage or takes the spare place.        *)
LEMMA StepRoom ==
  ASSUME IInv, NEW t \in Token, Step(t)
  PROVE  WithinCapacity' /\ SpareRoom'
<1>1. CASE Admit(t)
  BY <1>1, AdmitKeepsRoom
<1>2. CASE GrabPreferred(t)
  BY <1>2, MoveKeepsRoom DEF GrabPreferred, LoopStage
<1>3. CASE Emit(t)
  <2>1. PICK a \in {"admitted", "merging"} : loc[t] = a
    BY <1>3 DEF Emit
  <2>2. a # "entry" /\ Room("entry") /\ Move(t, "entry")
    BY <1>3 DEF Emit
  <2> QED
    BY <2>1, <2>2, MoveKeepsRoom DEF LoopStage
<1>4. CASE StartWrite(t)
  BY <1>4, MoveKeepsRoom DEF StartWrite, LoopStage
<1>5. CASE FinishWrite(t)
  BY <1>5, MoveKeepsRoom DEF FinishWrite, LoopStage
<1>6. CASE StartRead(t)
  <2>1. PICK b \in {"reading", "done"} : Move(t, b)
    BY <1>6 DEF StartRead
  <2>2. loc[t] = "branch" /\ Room("reading")
    BY <1>6 DEF StartRead
  <2> QED
    BY <2>1, <2>2, MoveKeepsRoom DEF LoopStage
<1>7. CASE FinishRead(t)
  BY <1>7, MoveKeepsRoom DEF FinishRead, LoopStage
<1>8. CASE HandOver(t)
  BY <1>8, MoveKeepsRoom DEF HandOver, LoopStage
<1> QED
  BY <1>1, <1>2, <1>3, <1>4, <1>5, <1>6, <1>7, <1>8 DEF Step

(* Taking an element of a side channel disturbs nothing in the cycle.      *)
LEMMA DrainIInv ==
  ASSUME IInv, NEW o \in Outlet, Drain(o)
  PROVE  IInv'
<1>1. loc' = loc /\ level' = level
  BY DEF Drain
<1>2. outlet' \in [Outlet -> 0 .. OutletSize]
  BY OutletAssumption DEF Drain, IInv, TypeOK
<1>3. TypeOK' /\ FollowedUp'
  BY <1>1, <1>2 DEF IInv, TypeOK, FollowedUp
<1> QED
  BY <1>1, <1>3, StillKeepsRoom DEF IInv

(* The invariant is inductive.                                             *)
LEMMA NextIInv == IInv /\ [Next]_vars => IInv'
<1> SUFFICES ASSUME IInv, [Next]_vars PROVE IInv'
  OBVIOUS
<1>1. ASSUME NEW t \in Token, Step(t) PROVE IInv'
  BY <1>1, StepType, StepRoom DEF IInv
<1>2. ASSUME NEW o \in Outlet, Drain(o) PROVE IInv'
  BY <1>2, DrainIInv
<1>3. ASSUME UNCHANGED vars PROVE IInv'
  <2>1. loc' = loc /\ level' = level /\ outlet' = outlet
    BY <1>3 DEF vars
  <2>2. TypeOK' /\ FollowedUp'
    BY <2>1 DEF IInv, TypeOK, FollowedUp
  <2> QED
    BY <2>1, <2>2, StillKeepsRoom DEF IInv
<1> QED
  BY <1>1, <1>2, <1>3 DEF Next, Idle

-----------------------------------------------------------------------------
(* If no stage of the cycle that holds an update can pass it on, then the  *)
(* stages are all full, and the cycle holds more than SpareRoom allows.    *)
LEMMA SpareRoomUnwedges == IInv => NeverWedged
<1> SUFFICES ASSUME IInv,
                    NEW s0 \in LoopStage, At(s0) # {},
                    \A s \in LoopStage : At(s) # {} => ~ Room(Successor[s])
             PROVE  FALSE
  BY DEF NeverWedged
<1> USE CapacityType, LoadType
<1>1. \A s \in LoopStage : Room(s) \/ At(s) # {}
  BY DEF Room
<1>2. \A s \in LoopStage : At(s) # {} => At(Successor[s]) # {}
  <2>1. \A s \in LoopStage : Successor[s] \in LoopStage
    BY DEF Successor, LoopStage
  <2> QED
    BY <1>1, <2>1
<1>3. /\ Successor["port"] = "merging"  /\ Successor["merging"] = "entry"
      /\ Successor["entry"] = "writing" /\ Successor["writing"] = "branch"
      /\ Successor["branch"] = "reading" /\ Successor["reading"] = "buffer"
      /\ Successor["buffer"] = "port"
  BY DEF Successor, LoopStage
<1>4. \A s \in LoopStage : At(s) # {}
  BY <1>2, <1>3 DEF LoopStage
<1>5. \A s \in LoopStage : ~ Room(s)
  BY <1>3, <1>4 DEF LoopStage
<1>6. \A s \in LoopStage : Load(s) >= Capacity[s]
  BY <1>5 DEF Room
<1>7. LoopLoad >= LoopCapacity + 2
  BY <1>6 DEF LoopLoad, LoopCapacity, LoopStage
<1>8. LoopLoad \in Nat /\ Load("admitted") \in Nat
  BY DEF LoopLoad
<1> QED
  BY <1>7, <1>8 DEF IInv, SpareRoom

-----------------------------------------------------------------------------
(* Every behaviour of the block keeps the invariant.                       *)
LEMMA Invariance == Spec => []IInv
BY InitIInv, NextIInv, PTL DEF Spec

(* Type correctness: in particular no update is made for a level beyond    *)
(* the coarsest time aggregator.                                           *)
THEOREM TypeCorrect == Spec => []TypeOK
<1>1. IInv => TypeOK
  BY DEF IInv
<1> QED
  BY <1>1, Invariance, PTL

(* The preferred port of the merge keeps the cycle from filling up.        *)
THEOREM KeepsSpareRoom == Spec => []SpareRoom
<1>1. IInv => SpareRoom
  BY DEF IInv
<1> QED
  BY <1>1, Invariance, PTL

(* The aggregation block never wedges, whatever the slots and buffers.     *)
THEOREM NoWedge == Spec => []NeverWedged
BY SpareRoomUnwedges, Invariance, PTL

(* The tables of raw and follow-up derivators agree: each aggregation that *)
(* a raw derivator makes is followed up by one derivator, never by none    *)
(* and never by two that would overwrite each other.                       *)
THEOREM SingleFollowUp == FollowedUpOnce
<1> SUFFICES ASSUME NEW type \in SupportedType, NEW k \in RawKinds(type)
             PROVE  \E d \in FollowUpDerivators : FollowUps(k) = {d}
  BY DEF FollowedUpOnce
<1> USE DEF FollowUps, FollowUpDerivators, Matches, Plain, Dated
<1>1. CASE k.aggregation = "count"
  <2>1. FollowUps(k) = {"AggCount"}
    BY <1>1
  <2> QED
    BY <2>1
<1>2. CASE k = [type |-> Dated(type), aggregation |-> "first"]
  <2>1. FollowUps(k) = {"FirstAgg"}
    BY <1>2
  <2> QED
    BY <2>1
<1>3. CASE k = [type |-> Dated(type), aggregation |-> "last"]
  <2>1. FollowUps(k) = {"LastAgg"}
    BY <1>3
  <2> QED
    BY <2>1
<1>4. ASSUME NEW a \in {"max", "min", "sum", "s_sum"},
             k = [type |-> Plain("tdouble"), aggregation |-> a]
      PROVE  \E d \in FollowUpDerivators : FollowUps(k) = {d}
  <2>1. CASE a = "max"
    <3>1. FollowUps(k) = {"FollowUpDoubleMax"}
      BY <1>4, <2>1
    <3> QED
      BY <3>1
  <2>2. CASE a = "min"
    <3>1. FollowUps(k) = {"FollowUpDoubleMin"}
      BY <1>4, <2>2
    <3> QED
      BY <3>1
  <2>3. CASE a = "sum"
    <3>1. FollowUps(k) = {"FollowUpDoubleSum"}
      BY <1>4, <2>3
    <3> QED
      BY <3>1
  <2>4. CASE a = "s_sum"
    <3>1. FollowUps(k) = {"FollowUpDoubleSSum"}
      BY <1>4, <2>4
    <3> QED
      BY <3>1
  <2> QED
    BY <1>4, <2>1, <2>2, <2>3, <2>4
<1> QED
  BY <1>1, <1>2, <1>3, <1>4 DEF RawKinds

=============================================================================
