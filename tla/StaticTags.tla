------------------------------ MODULE StaticTags ------------------------------
(***************************************************************************)
(* The static tags of metrics. The hub answers requests that patch or      *)
(* replace the static tagset of a metric: a patch submits one write for    *)
(* each tag and answers without waiting for any, a replacement waits for   *)
(* the deletion of the tagset and goes on like a patch. Requests run side  *)
(* by side, and Cassandra applies their writes in any order: the stamp     *)
(* that the driver gives to a write decides which one a row keeps.         *)
(*                                                                         *)
(* The reverse table, from tags to metrics, has no writer in the code: it  *)
(* is taken for a view of the other one, that Cassandra refreshes later.   *)
(***************************************************************************)
EXTENDS Naturals

CONSTANTS
  Metric,
  Name,       \* names of tags
  Value,      \* values of tags
  Request,    \* the requests that clients will make
  Kind,       \* Kind[r]: "patch" or "put"
  Target,     \* Target[r]: the metric of r
  Tags,       \* Tags[r]: the tagset in the body of r
  Initial     \* Initial[m]: static tags that m has at first

(* A tagset gives a value to some names.                                   *)
Tagset == UNION {[S -> Value] : S \in SUBSET Name}

ASSUME RequestAssumption ==
  /\ Kind \in [Request -> {"patch", "put"}]
  /\ Target \in [Request -> Metric]
  /\ Tags \in [Request -> Tagset]
  /\ Initial \in [Metric -> Tagset]
  /\ Value # {}

VARIABLES
  phase,    \* phase[r]: progress of request r
  unsent,   \* unsent[r]: names that r has not submitted yet
  stamp,    \* stamp[r]: stamp of the deletion made by r
  flight,   \* updates submitted and not applied yet
  cells,    \* cells[m][n]: last update of a static tag, with its stamp
  tomb,     \* tomb[m]: stamp of the last deletion of the tagset of m
  view,     \* the reverse table
  clock,    \* next stamp
  prior,    \* history: prior[r], the requests finished when r began
  dropped   \* history: requests one of whose statements failed

requestVars == <<phase, unsent, stamp, prior>>
tableVars == <<cells, tomb>>
staticVars == <<phase, unsent, stamp, flight, cells, tomb, view, clock, prior,
                dropped>>

Phase == {"idle", "deleting", "sending", "answered", "failed"}
Finished(r) == phase[r] \in {"answered", "failed"}

Update == [request : Request, name : Name, value : Value, stamp : Nat]

(* What a reader of the table sees: what was written after the deletion.   *)
Present(m) == {n \in Name : cells[m][n].stamp > tomb[m]}
Static(m) == [n \in Present(m) |-> cells[m][n].value]
Pairs(f) == {<<n, f[n]>> : n \in DOMAIN f}
InView(m) == {<<e[2], e[3]>> : e \in {x \in view : x[1] = m}}

Init ==
  /\ phase = [r \in Request |-> "idle"]
  /\ unsent = [r \in Request |-> {}]
  /\ stamp = [r \in Request |-> 0]
  /\ flight = {}
  /\ cells = [m \in Metric |-> [n \in Name |->
                IF n \in DOMAIN Initial[m]
                THEN [value |-> Initial[m][n], stamp |-> 1]
                ELSE [value |-> CHOOSE v \in Value : TRUE, stamp |-> 0]]]
  /\ tomb = [m \in Metric |-> 0]
  /\ view = {e \in Metric \X Name \X Value : <<e[2], e[3]>> \in Pairs(Initial[e[1]])}
  /\ clock = 2
  /\ prior = [r \in Request |-> {}]
  /\ dropped = {}

-----------------------------------------------------------------------------
(* Requests.                                                               *)

Begin(r) ==
  /\ phase[r] = "idle"
  /\ prior' = [prior EXCEPT ![r] = {q \in Request : Finished(q)}]

StartSending(r) ==
  /\ phase' = [phase EXCEPT ![r] = "sending"]
  /\ unsent' = [unsent EXCEPT ![r] = DOMAIN Tags[r]]

Patch(r) ==
  /\ Kind[r] = "patch"
  /\ Begin(r)
  /\ StartSending(r)
  /\ UNCHANGED <<stamp, flight, tableVars, view, clock, dropped>>

Put(r) ==
  /\ Kind[r] = "put"
  /\ Begin(r)
  /\ phase' = [phase EXCEPT ![r] = "deleting"]
  /\ stamp' = [stamp EXCEPT ![r] = clock]
  /\ clock' = clock + 1
  /\ UNCHANGED <<unsent, flight, tableVars, view, dropped>>

Larger(a, b) == IF a > b THEN a ELSE b

Delete(r) == tomb' = [tomb EXCEPT ![Target[r]] = Larger(@, stamp[r])]

(* The deletion is waited for; the updates follow.                         *)
Deleted(r) ==
  /\ phase[r] = "deleting"
  /\ Delete(r)
  /\ StartSending(r)
  /\ UNCHANGED <<stamp, flight, cells, view, clock, prior, dropped>>

(* The deletion fails, and the request with it: the statement may have     *)
(* been applied all the same.                                              *)
DeletionFails(r) ==
  /\ phase[r] = "deleting"
  /\ phase' = [phase EXCEPT ![r] = "failed"]
  /\ Delete(r) \/ UNCHANGED tomb
  /\ dropped' = dropped \cup {r}
  /\ UNCHANGED <<unsent, stamp, flight, cells, view, clock, prior>>

(* All the updates of a request have the stamp of its deletion.            *)
SubmitWithOneStamp(r, n) ==
  /\ phase[r] = "sending"
  /\ n \in unsent[r]
  /\ unsent' = [unsent EXCEPT ![r] = @ \ {n}]
  /\ flight' = flight \cup {[request |-> r, name |-> n, value |-> Tags[r][n],
                             stamp |-> stamp[r]]}
  /\ UNCHANGED <<phase, stamp, tableVars, view, clock, prior, dropped>>

(* Updates are stamped one after the other, as they are submitted.         *)
Submit(r, n) ==
  /\ phase[r] = "sending"
  /\ n \in unsent[r]
  /\ unsent' = [unsent EXCEPT ![r] = @ \ {n}]
  /\ flight' = flight \cup {[request |-> r, name |-> n, value |-> Tags[r][n],
                             stamp |-> clock]}
  /\ clock' = clock + 1
  /\ UNCHANGED <<phase, stamp, tableVars, view, prior, dropped>>

Answer(r) ==
  /\ phase[r] = "sending"
  /\ unsent[r] = {}
  /\ phase' = [phase EXCEPT ![r] = "answered"]
  /\ UNCHANGED <<unsent, stamp, flight, tableVars, view, clock, prior, dropped>>

-----------------------------------------------------------------------------
(* Cassandra.                                                              *)

(* A write is stamped when it is applied.                                  *)
LandOnArrival(w) ==
  /\ w \in flight
  /\ flight' = flight \ {w}
  /\ cells' = [cells EXCEPT ![Target[w.request]][w.name] =
                 [value |-> w.value, stamp |-> clock]]
  /\ clock' = clock + 1
  /\ UNCHANGED <<requestVars, tomb, view, dropped>>

(* A write is kept if its stamp is later than that of the cell.            *)
Land(w) ==
  LET m == Target[w.request]
      cell == [value |-> w.value, stamp |-> w.stamp] IN
  /\ w \in flight
  /\ flight' = flight \ {w}
  /\ cells' = [cells EXCEPT ![m][w.name] =
                 IF w.stamp > @.stamp THEN cell ELSE @]
  /\ UNCHANGED <<requestVars, tomb, view, clock, dropped>>

(* Nobody looks at the outcome of an update: its failure goes unnoticed.   *)
Drop(w) ==
  /\ w \in flight
  /\ flight' = flight \ {w}
  /\ dropped' = dropped \cup {w.request}
  /\ UNCHANGED <<requestVars, tableVars, view, clock>>

(* External: the view follows the table, one metric at a time.             *)
Refresh(m) ==
  /\ InView(m) # Pairs(Static(m))
  /\ view' = {e \in view : e[1] # m}
               \cup {<<m, p[1], p[2]>> : p \in Pairs(Static(m))}
  /\ UNCHANGED <<requestVars, flight, tableVars, clock, dropped>>

RequestStep(r) ==
  Patch(r) \/ Put(r) \/ Deleted(r) \/ DeletionFails(r) \/ Answer(r)
    \/ \E n \in Name : Submit(r, n)

Next ==
  \/ \E r \in Request : RequestStep(r)
  \/ \E w \in flight : Land(w) \/ Drop(w)
  \/ \E m \in Metric : Refresh(m)

Spec == Init /\ [][Next]_staticVars

-----------------------------------------------------------------------------
TypeOK ==
  /\ phase \in [Request -> Phase]
  /\ unsent \in [Request -> SUBSET Name]
  /\ \A r \in Request : unsent[r] \subseteq DOMAIN Tags[r]
  /\ stamp \in [Request -> Nat]
  /\ flight \in SUBSET Update
  /\ cells \in [Metric -> [Name -> [value : Value, stamp : Nat]]]
  /\ tomb \in [Metric -> Nat]
  /\ view \in SUBSET (Metric \X Name \X Value)
  /\ clock \in Nat
  /\ prior \in [Request -> SUBSET Request]
  /\ dropped \in SUBSET Request

(* r began after all the other requests for its metric had finished.       *)
Latest(r) ==
  \A q \in Request \ {r} :
    Target[q] = Target[r] => phase[q] = "idle" \/ q \in prior[r]

(* Once the writes of the last request have landed, and none of them has   *)
(* failed, the metric has all the tags of that request, although an        *)
(* earlier request may have writes for the same tags under way.            *)
LastRequestStands ==
  \A r \in Request :
    (/\ phase[r] = "answered" /\ Latest(r) /\ r \notin dropped
     /\ \A w \in flight : w.request # r) =>
      Pairs(Tags[r]) \subseteq Pairs(Static(Target[r]))

(* A static tag of a metric was there at first, or a request asked for it, *)
(* and no replacement has discarded it: a tag that an answered replacement *)
(* did not list comes from a request that was not finished when that       *)
(* replacement began, although writes of earlier requests may land later.  *)
DiscardedForGood ==
  \A m \in Metric : \A n \in Present(m) :
    LET replaced == {q \in Request : /\ Kind[q] = "put" /\ Target[q] = m
                                     /\ phase[q] = "answered"}
        asked == {r \in Request : /\ Target[r] = m /\ phase[r] # "idle"
                                  /\ <<n, cells[m][n].value>> \in Pairs(Tags[r])} IN
    \/ replaced = {} /\ <<n, cells[m][n].value>> \in Pairs(Initial[m])
    \/ \E r \in asked : \A q \in replaced : r \notin prior[q]
=============================================================================
