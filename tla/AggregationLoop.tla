-------------------------- MODULE AggregationLoop --------------------------
(***************************************************************************)
(* The backpressured cycle of the Processor's aggregation block: every     *)
(* aggregated update is written to Cassandra, and its follow-up updates,   *)
(* for the next coarser time aggregator, come back to the entry of the     *)
(* block through the preferred port of a MergePreferred.  All the buffers  *)
(* and slot pools of the cycle are bounded, so the block could wedge: the  *)
(* module says where updates sit and when the stages let them move.        *)
(*                                                                         *)
(* A token is an aggregated update of the first level together with its    *)
(* line of follow-up updates.  Exactly one derivator follows an update up  *)
(* (FollowedUpOnce), so the token moves around the cycle, one level        *)
(* coarser at every turn.                                                  *)
(***************************************************************************)
EXTENDS Naturals, FiniteSets

CONSTANTS
  Updates,      \* number of first-level updates that reach the block
  Levels,       \* number of configured time aggregators ("1m", "1h", "1d": 3)
  Capacity,     \* Capacity[s]: how many updates stage s of the cycle may hold
  OutletSize    \* how many elements the channel of a side outlet may hold

(* The cycle, in the order of the wiring: port is the channel to the       *)
(* preferred input of the merge, merging the updates of that input that    *)
(* the merge has grabbed and not emitted yet, entry the channel from the   *)
(* merge to the write, branch the channel to the second broadcast.         *)
LoopStage ==
  {"port", "merging", "entry", "writing", "branch", "reading", "buffer"}

Successor ==
  [s \in LoopStage \cup {"admitted"} |->
     CASE s = "port"     -> "merging"
       [] s = "merging"  -> "entry"
       [] s = "admitted" -> "entry"
       [] s = "entry"    -> "writing"
       [] s = "writing"  -> "branch"
       [] s = "branch"   -> "reading"
       [] s = "reading"  -> "buffer"
       [] s = "buffer"   -> "port"]

(* kafka and tu leave the first broadcast, processedAU leaves the second.  *)
Outlet == {"kafka", "tu", "processedAU"}

ASSUME UpdatesAssumption == Updates \in Nat
ASSUME LevelsAssumption == Levels \in Nat \ {0}
ASSUME CapacityAssumption == Capacity \in [LoopStage -> Nat \ {0}]
(* A MergePreferred grabs two elements of its preferred input at most.     *)
ASSUME MergeAssumption == Capacity["merging"] >= 2
ASSUME OutletAssumption == OutletSize \in Nat \ {0}

(* Tokens are named by the order in which they arrive.                     *)
Token == 1 .. Updates

VARIABLES
  loc,      \* where the token is: upstream, in a stage of the cycle, or done
  level,    \* index of the time aggregator of its current update
  outlet    \* number of elements waiting in each side channel

vars == <<loc, level, outlet>>

-----------------------------------------------------------------------------
(* Why one token is enough for an update and its follow-ups.               *)

(* The types of messages that pass the validation of the message block.    *)
SupportedType == {"tdouble", "tlong", "pos2d"}

(* The type of a plain value, and of a value paired with its date.         *)
Plain(type) == [dated |-> FALSE, base |-> type]
Dated(type) == [dated |-> TRUE, base |-> type]

(* What the raw derivators make of the history of a series of some type.   *)
RawKinds(type) ==
  {[type |-> Plain("tlong"), aggregation |-> "count"]}
    \cup {[type |-> Dated(type), aggregation |-> a] : a \in {"first", "last"}}
    \cup {[type |-> Plain("tdouble"), aggregation |-> a] :
            a \in IF type = "tdouble" THEN {"max", "min", "sum", "s_sum"} ELSE {}}

(* Matches(d, k): derivator d follows up an update of kind k.              *)
Matches(d, k) ==
  \/ d = "AggCount" /\ k.aggregation = "count"
  \/ d = "FirstAgg" /\ k.type.dated /\ k.aggregation = "first"
  \/ d = "LastAgg"  /\ k.type.dated /\ k.aggregation = "last"
  \/ d = "FollowUpDoubleMax"  /\ k.type = Plain("tdouble") /\ k.aggregation = "max"
  \/ d = "FollowUpDoubleMin"  /\ k.type = Plain("tdouble") /\ k.aggregation = "min"
  \/ d = "FollowUpDoubleSum"  /\ k.type = Plain("tdouble") /\ k.aggregation = "sum"
  \/ d = "FollowUpDoubleSSum" /\ k.type = Plain("tdouble") /\ k.aggregation = "s_sum"

FollowUpDerivators ==
  {"AggCount", "FirstAgg", "LastAgg", "FollowUpDoubleMax",
   "FollowUpDoubleMin", "FollowUpDoubleSum", "FollowUpDoubleSSum"}

(* The derivators that answer an update: each yields one follow-up update  *)
(* of the same kind.                                                       *)
FollowUps(k) == {d \in FollowUpDerivators : Matches(d, k)}

(* Each aggregation made by a raw derivator is followed up by exactly one  *)
(* derivator: never by none, never by two that would overwrite each other. *)
FollowedUpOnce ==
  \A type \in SupportedType : \A k \in RawKinds(type) :
    \E d \in FollowUpDerivators : FollowUps(k) = {d}

-----------------------------------------------------------------------------
At(s) == {t \in Token : loc[t] = s}
Load(s) == Cardinality(At(s))
Room(s) == Load(s) < Capacity[s]
OutletRoom(o) == outlet[o] < OutletSize

Move(t, s) == loc' = [loc EXCEPT ![t] = s]

Init ==
  /\ loc = [t \in Token |-> "upstream"]
  /\ level = [t \in Token |-> 1]
  /\ outlet = [o \in Outlet |-> 0]

NextUpstream(t) ==
  /\ loc[t] = "upstream"
  /\ \A u \in Token : loc[u] = "upstream" => t <= u

(* The merge grabs an element of its other input as soon as one is there.  *)
AdmitAtOnce(t) ==
  /\ NextUpstream(t)
  /\ At("admitted") = {}
  /\ Move(t, "admitted")
  /\ UNCHANGED <<level, outlet>>

(* The merge grabs an update of the message or observation block only when *)
(* it has emitted all it grabbed of its preferred input, and the previous  *)
(* update of those blocks.                                                 *)
Admit(t) ==
  /\ NextUpstream(t)
  /\ At("merging") = {}
  /\ At("admitted") = {}
  /\ Move(t, "admitted")
  /\ UNCHANGED <<level, outlet>>

GrabPreferred(t) ==
  /\ loc[t] = "port"
  /\ Room("merging")
  /\ Move(t, "merging")
  /\ UNCHANGED <<level, outlet>>

(* What the merge has grabbed, from either input, goes out on demand.      *)
Emit(t) ==
  /\ loc[t] \in {"admitted", "merging"}
  /\ Room("entry")
  /\ Move(t, "entry")
  /\ UNCHANGED <<level, outlet>>

(* The first broadcast pushes when its three consumers have demand: a free *)
(* write slot, the Kafka channel and the tag update channel.               *)
StartWrite(t) ==
  /\ loc[t] = "entry"
  /\ Room("writing")
  /\ OutletRoom("kafka") /\ OutletRoom("tu")
  /\ Move(t, "writing")
  /\ outlet' = [outlet EXCEPT !["kafka"] = @ + 1, !["tu"] = @ + 1]
  /\ UNCHANGED level

(* mapAsyncUnordered: any of the writes may be the next one acknowledged;  *)
(* it keeps its slot until the next stage takes it.                        *)
FinishWrite(t) ==
  /\ loc[t] = "writing"
  /\ Room("branch")
  /\ Move(t, "branch")
  /\ UNCHANGED <<level, outlet>>

(* The coarsest time aggregator too has a successor.                       *)
StartReadAtEveryLevel(t) ==
  /\ loc[t] = "branch"
  /\ Room("reading")
  /\ OutletRoom("processedAU")
  /\ Move(t, "reading")
  /\ outlet' = [outlet EXCEPT !["processedAU"] = @ + 1]
  /\ UNCHANGED level

(* The second broadcast pushes to the observation block and to the reading *)
(* stage.  No time aggregator follows the coarsest one: the update ends.   *)
StartRead(t) ==
  /\ loc[t] = "branch"
  /\ Room("reading")
  /\ OutletRoom("processedAU")
  /\ Move(t, IF level[t] < Levels THEN "reading" ELSE "done")
  /\ outlet' = [outlet EXCEPT !["processedAU"] = @ + 1]
  /\ UNCHANGED level

(* The follow-up keeps the interval of the update it follows.              *)
FinishReadSameLevel(t) ==
  /\ loc[t] = "reading"
  /\ Room("buffer")
  /\ Move(t, "buffer")
  /\ UNCHANGED <<level, outlet>>

(* The history is read and the matching derivator makes the follow-up,     *)
(* that waits in the buffer of the loop.                                   *)
FinishRead(t) ==
  /\ loc[t] = "reading"
  /\ Room("buffer")
  /\ Move(t, "buffer")
  /\ level' = [level EXCEPT ![t] = @ + 1]
  /\ UNCHANGED outlet

HandOver(t) ==
  /\ loc[t] = "buffer"
  /\ Room("port")
  /\ Move(t, "port")
  /\ UNCHANGED <<level, outlet>>

(* The Kafka sink, the tag block and the observation block take one element *)
(* of their channel.                                                       *)
Drain(o) ==
  /\ outlet[o] > 0
  /\ outlet' = [outlet EXCEPT ![o] = @ - 1]
  /\ UNCHANGED <<loc, level>>

(* Every update is handled: the block waits for more.                      *)
Idle ==
  /\ \A t \in Token : loc[t] = "done"
  /\ \A o \in Outlet : outlet[o] = 0
  /\ UNCHANGED vars

Step(t) ==
  \/ Admit(t)       \/ GrabPreferred(t)  \/ Emit(t)
  \/ StartWrite(t)  \/ FinishWrite(t)
  \/ StartRead(t)   \/ FinishRead(t)
  \/ HandOver(t)

Next ==
  \/ \E t \in Token : Step(t)
  \/ \E o \in Outlet : Drain(o)
  \/ Idle

(* Every stage is an actor that the dispatcher keeps scheduling, and the   *)
(* Cassandra futures complete: each stage that can move an update does.    *)
Fairness ==
  /\ WF_vars(\E t \in Token : Admit(t))
  /\ WF_vars(\E t \in Token : GrabPreferred(t))
  /\ WF_vars(\E t \in Token : Emit(t))
  /\ WF_vars(\E t \in Token : StartWrite(t))
  /\ WF_vars(\E t \in Token : FinishWrite(t))
  /\ WF_vars(\E t \in Token : StartRead(t))
  /\ WF_vars(\E t \in Token : FinishRead(t))
  /\ WF_vars(\E t \in Token : HandOver(t))
  /\ \A o \in Outlet : WF_vars(Drain(o))

Spec == Init /\ [][Next]_vars
FairSpec == Spec /\ Fairness

-----------------------------------------------------------------------------
(* Updates are in the stages of the cycle, at configured levels only.      *)
TypeOK ==
  /\ loc \in [Token -> LoopStage \cup {"upstream", "admitted", "done"}]
  /\ level \in [Token -> 1 .. Levels]
  /\ outlet \in [Outlet -> 0 .. OutletSize]

(* No stage holds more than its slots or its buffer.                       *)
WithinCapacity ==
  /\ \A s \in LoopStage : Load(s) <= Capacity[s]
  /\ Load("admitted") <= 1

(* Only an update with a coarser level to come is in the reading stage.    *)
FollowedUp == \A t \in Token : loc[t] = "reading" => level[t] < Levels

(* What the cycle can hold beside the merge.                               *)
LoopCapacity ==
  Capacity["port"] + Capacity["entry"] + Capacity["writing"]
    + Capacity["branch"] + Capacity["reading"] + Capacity["buffer"]

LoopLoad ==
  Load("port") + Load("merging") + Load("entry") + Load("writing")
    + Load("branch") + Load("reading") + Load("buffer")

(* Preferring the updates that come back leaves a place free in the merge, *)
(* or elsewhere in the cycle, for them to rotate.                          *)
SpareRoom == LoopLoad + Load("admitted") <= LoopCapacity + 1

(* The cycle never wedges: whatever it holds, some stage that holds an     *)
(* update has a successor with room for it.                                *)
NeverWedged ==
  (\E s \in LoopStage : At(s) # {})
    => \E s \in LoopStage : At(s) # {} /\ Room(Successor[s])

(* Every update offered to the block is admitted, written and followed up  *)
(* at every coarser level, until its line ends.                            *)
EveryUpdateHandled == \A t \in Token : <>(loc[t] = "done")

=============================================================================
