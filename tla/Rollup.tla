------------------------------- MODULE Rollup -------------------------------
(***************************************************************************)
(* What the roll-up of time series promises to its readers: a cell is a    *)
(* period (level and shunk) of the time series, and its aggregates stand   *)
(* for observations of that period.  Observations are never forgotten, and *)
(* the aggregates of a period take more and more of them into account,     *)
(* until a refreshment that knows less is ordered after one that knows     *)
(* more: nothing but that may make them lose an observation.               *)
(***************************************************************************)
CONSTANTS
  Moment,      \* timestamps of observations and ends of periods
  Cell,        \* the periods
  Covers(_)    \* Covers(c): the moments that belong to period c

VARIABLES
  stored,      \* the observations in the database
  summary,     \* summary[c]: the observations behind the aggregates of c
  overtaken    \* periods with a refreshment that knew less than a former one

vars == <<stored, summary, overtaken>>

Init ==
  /\ stored = {}
  /\ summary = [c \in Cell |-> {}]
  /\ overtaken = {}

Store(t) ==
  /\ stored' = stored \cup {t}
  /\ UNCHANGED <<summary, overtaken>>

(* A refreshment of c is ordered that knows less than a former one.        *)
Overtake(c) ==
  /\ overtaken' = overtaken \cup {c}
  /\ UNCHANGED <<stored, summary>>

(* New aggregates of a period that was not overtaken lose none of the      *)
(* observations of the former ones.                                        *)
Refresh(c) ==
  /\ \E seen \in SUBSET (stored \cap Covers(c)) :
        /\ c \in overtaken \/ summary[c] \subseteq seen
        /\ summary' = [summary EXCEPT ![c] = seen]
  /\ UNCHANGED <<stored, overtaken>>

Next ==
  \/ \E t \in Moment : Store(t)
  \/ \E c \in Cell : Overtake(c) \/ Refresh(c)

Spec == Init /\ [][Next]_vars
=============================================================================
