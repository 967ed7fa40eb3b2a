----------------------------- MODULE Derivators -----------------------------
(***************************************************************************)
(* The numbers that the Processor stores: RollupPipeline has the sets of   *)
(* observations behind the aggregates, and the code has a number for each  *)
(* aggregation.  At the first level raw derivators compute them from the   *)
(* observations; at each other level follow-up derivators compute them     *)
(* from the numbers of the previous level, without the observations.       *)
(*                                                                         *)
(* A history without any row makes minBy, maxBy, min and max throw, which  *)
(* fails the whole stream: Undefined.  Doubles are integers here: rounding *)
(* is left out.                                                            *)
(***************************************************************************)
EXTENDS RollupPipeline, Integers, FiniteSetsExt

CONSTANTS
  Value,       \* Value[t]: the value of the observation at t
  Undefined    \* what a derivator gives for an empty history

ASSUME ValueAssumption == Value \in [Moment -> Int] /\ Undefined \notin Int
(* Moments are ordered, as the timestamps that stand for them.             *)
ASSUME MomentAssumption == Moment \subseteq Int

Aggregation == {"count", "first", "last", "min", "max", "sum", "s_sum"}
(* Those that make something of an empty history.                          *)
Additive == {"count", "sum", "s_sum"}

Sum(f) == MapThenSumSet(LAMBDA x : f[x], DOMAIN f)

(* The derivators for a type tdouble.  "first" and "last" keep the datetime*)
(* of the observation with its value.                                      *)
Raw(a, S) ==
  IF S = {} /\ a \notin Additive THEN Undefined
  ELSE CASE a = "count" -> Cardinality(S)
         [] a = "sum"   -> Sum([t \in S |-> Value[t]])
         [] a = "s_sum" -> Sum([t \in S |-> Value[t] * Value[t]])
         [] a = "first" -> Min(S)
         [] a = "last"  -> Max(S)
         [] a = "min"   -> Min({Value[t] : t \in S})
         [] a = "max"   -> Max({Value[t] : t \in S})

(* A count of rows.                                                        *)
FollowUpRows(a, n) ==
  IF DOMAIN n = {} /\ a \notin Additive THEN Undefined
  ELSE CASE a = "count" -> Cardinality(DOMAIN n)
         [] a \in {"sum", "s_sum"} -> Sum(n)
         [] a \in {"first", "min"} -> Min({n[d] : d \in DOMAIN n})
         [] a \in {"last", "max"} -> Max({n[d] : d \in DOMAIN n})

(* n[d] is the number that is stored for aggregation a of the finer period *)
(* that ends at d.                                                         *)
FollowUp(a, n) ==
  IF DOMAIN n = {} /\ a \notin Additive THEN Undefined
  ELSE CASE a \in Additive -> Sum(n)
         [] a \in {"first", "min"} -> Min({n[d] : d \in DOMAIN n})
         [] a \in {"last", "max"} -> Max({n[d] : d \in DOMAIN n})

(* The rows that a follow-up reads: those of the finer periods that have   *)
(* been written.                                                           *)
RowsRead(c) == {d \in Moment : Shunk[c[1]][d] = c[2] /\ rows[<<c[1] - 1, d>>].stamp > 0}

Numbers(a, c) == [d \in RowsRead(c) |-> Raw(a, rows[<<c[1] - 1, d>>].value)]

-----------------------------------------------------------------------------
(* An update that is about to read never finds an empty history, and the   *)
(* numbers that it computes from numbers are those that raw derivators     *)
(* would find for the observations behind them: none counts twice, and     *)
(* minBy and maxBy have their row (FirstRawDerivator.scala:29,             *)
(* AggCountDerivator.scala:31).                                            *)
FollowUpExact ==
  \A k \in Line : task[k].stage = "due" =>
    LET known == History(task[k].level, task[k].shunk) IN
    /\ known # {}
    /\ task[k].level > 1 =>
         \A a \in Aggregation : FollowUp(a, Numbers(a, CellOf(k))) = Raw(a, known)
=============================================================================
