---------------------------- MODULE Search_proofs ----------------------------
(***************************************************************************)
(* Theorems about StaticTags and Search, for any metrics, tags, requests,  *)
(* series and filters.                                                     *)
(*                                                                         *)
(*   1. Static tags: what the writes under way may still do to a cell.     *)
(*   2. Recursion on filters, by their weight: what Accepts and Eval are.  *)
(*   3. What the terms of a plan select, and that a plan selects what its  *)
(*      filter accepts.                                                    *)
(*   4. The invariant of queries, and the theorems about their answers.    *)
(***************************************************************************)
EXTENDS Search, Recursion, TLAPS

-----------------------------------------------------------------------------
(* 1. Static tags.                                                         *)

(* The requests whose updates may have been submitted.                     *)
Sent(r) == phase[r] \in {"sending", "answered"}

(* A write with stamp s is older than all the statements of q.             *)
Before(s, q) ==
  /\ Kind[q] = "put" => s < stamp[q]
  /\ \A w \in flight : w.request = q => s < w.stamp

(* A write with stamp s is later than the deletion of r, and than all the  *)
(* statements of the requests that had finished when r began.              *)
After(s, r) ==
  /\ s > 1
  /\ \A q \in prior[r] \cup {r} : Kind[q] = "put" => stamp[q] < s
  /\ \A w \in flight : w.request \in prior[r] => w.stamp < s

(* r asked for a value of tag n of metric m.                               *)
Asked(r, m, n, v) ==
  Target[r] = m /\ Sent(r) /\ n \in DOMAIN Tags[r] /\ Tags[r][n] = v

Requests ==
  \A r \in Request :
    /\ phase[r] = "deleting" => Kind[r] = "put"
    /\ r \notin prior[r]
    /\ \A q \in prior[r] : Finished(q)
    /\ phase[r] = "answered" => unsent[r] = {}

Stamps ==
  /\ clock > 1
  /\ \A r \in Request : stamp[r] < clock
  /\ \A r \in Request : Kind[r] = "put" /\ phase[r] # "idle" => stamp[r] > 1
  /\ \A w \in flight : w.stamp < clock /\ w.stamp > 1
  /\ \A m \in Metric, n \in Name : cells[m][n].stamp < clock

Flights ==
  \A w \in flight :
    /\ Asked(w.request, Target[w.request], w.name, w.value)
    /\ \A q \in Request : w.request \in prior[q] => Before(w.stamp, q)
    /\ \A q \in prior[w.request] \cup {w.request} :
         Kind[q] = "put" => stamp[q] < w.stamp

(* A cell has its first value, or one that a request asked for; it is      *)
(* older than the requests that began after the end of that one.           *)
Cells ==
  \A m \in Metric, n \in Name :
    \/ cells[m][n].stamp = 0
    \/ cells[m][n].stamp = 1 /\ <<n, cells[m][n].value>> \in Pairs(Initial[m])
    \/ \E o \in Request :
         /\ Asked(o, m, n, cells[m][n].value)
         /\ \A q \in Request : o \in prior[q] => Before(cells[m][n].stamp, q)

Tombs ==
  /\ \A m \in Metric :
       \/ tomb[m] = 0
       \/ \E q \in Request : /\ Kind[q] = "put" /\ Target[q] = m
                             /\ phase[q] # "idle" /\ tomb[m] = stamp[q]
  /\ \A q \in Request : Kind[q] = "put" /\ Sent(q) => tomb[Target[q]] >= stamp[q]

(* An update that was submitted and has not failed is under way, or landed *)
(* in the cell, where only later requests have replaced it.                *)
Landed ==
  \A r \in Request \ dropped : Sent(r) =>
    \A n \in DOMAIN Tags[r] \ unsent[r] :
      \/ \E w \in flight : w.request = r /\ w.name = n
      \/ /\ After(cells[Target[r]][n].stamp, r)
         /\ \E o \in Request :
              o \notin prior[r] /\ Asked(o, Target[r], n, cells[Target[r]][n].value)

IInv == TypeOK /\ Requests /\ Stamps /\ Flights /\ Cells /\ Tombs /\ Landed

-----------------------------------------------------------------------------
(* A tag of a tagset has a name and a value.                               *)
LEMMA TagsetFacts ==
  ASSUME NEW t \in Tagset
  PROVE  DOMAIN t \subseteq Name /\ \A n \in DOMAIN t : t[n] \in Value
BY DEF Tagset

(* The types of the model are an inductive invariant.                      *)
LEMMA TypeIsInductive ==
  (Init => TypeOK) /\ (TypeOK /\ [Next]_staticVars => TypeOK')
<1>1. Init => TypeOK
  <2> SUFFICES ASSUME Init PROVE TypeOK
    OBVIOUS
  <2>1. \A m \in Metric : \A n \in DOMAIN Initial[m] : Initial[m][n] \in Value
    BY TagsetFacts, RequestAssumption
  <2>2. (CHOOSE v \in Value : TRUE) \in Value
    BY RequestAssumption
  <2>3. cells \in [Metric -> [Name -> [value : Value, stamp : Nat]]]
    BY <2>1, <2>2 DEF Init
  <2> QED
    BY <2>3 DEF Init, TypeOK, Phase, Update
<1>2. ASSUME TypeOK, Next PROVE TypeOK'
  <2> USE <1>2 DEF TypeOK
  <2>1. ASSUME NEW r \in Request, Patch(r) PROVE TypeOK'
    BY <2>1, TagsetFacts, RequestAssumption
      DEF Patch, Begin, StartSending, tableVars, Phase
  <2>2. ASSUME NEW r \in Request, Put(r) PROVE TypeOK'
    BY <2>2 DEF Put, Begin, tableVars, Phase
  <2>3. ASSUME NEW r \in Request, Deleted(r) PROVE TypeOK'
    BY <2>3, TagsetFacts, RequestAssumption
      DEF Deleted, Delete, Larger, StartSending, Phase
  <2>4. ASSUME NEW r \in Request, DeletionFails(r) PROVE TypeOK'
    BY <2>4, RequestAssumption DEF DeletionFails, Delete, Larger, Phase
  <2>5. ASSUME NEW r \in Request, Answer(r) PROVE TypeOK'
    BY <2>5 DEF Answer, tableVars, Phase
  <2>6. ASSUME NEW r \in Request, NEW n \in Name, Submit(r, n) PROVE TypeOK'
    <3>1. Tags[r][n] \in Value
      BY <2>6, TagsetFacts, RequestAssumption DEF Submit
    <3> QED
      BY <2>6, <3>1 DEF Submit, tableVars, Update
  <2>7. ASSUME NEW w \in flight, Land(w) PROVE TypeOK'
    BY <2>7, RequestAssumption DEF Land, requestVars, Update
  <2>8. ASSUME NEW w \in flight, Drop(w) PROVE TypeOK'
    BY <2>8 DEF Drop, requestVars, tableVars, Update
  <2>9. ASSUME NEW m \in Metric, Refresh(m) PROVE TypeOK'
    BY <2>9 DEF Refresh, requestVars, tableVars, Pairs, Static, Present
  <2> QED
    BY <2>1, <2>2, <2>3, <2>4, <2>5, <2>6, <2>7, <2>8, <2>9
      DEF Next, RequestStep
<1>3. ASSUME TypeOK, UNCHANGED staticVars PROVE TypeOK'
  BY <1>3 DEF TypeOK, staticVars
<1> QED
  BY <1>1, <1>2, <1>3

-----------------------------------------------------------------------------
USE DEF Sent, Before, After, Asked, Finished

(* Each part of the invariant holds initially.                             *)
LEMMA InvariantInit == Init => IInv
<1> SUFFICES ASSUME Init PROVE IInv
  OBVIOUS
<1>1. TypeOK
  BY TypeIsInductive
<1>2. Requests /\ Stamps /\ Flights /\ Tombs /\ Landed
  BY DEF Init, Requests, Stamps, Flights, Tombs, Landed
<1>3. Cells
  BY DEF Init, Cells, Pairs
<1> QED
  BY <1>1, <1>2, <1>3 DEF IInv

(* A request begins: what was submitted before is older than its           *)
(* statements, of which there is none yet.                                 *)
LEMMA BeginKeeps ==
  ASSUME IInv, TypeOK', NEW r \in Request, Patch(r) \/ Put(r)
  PROVE  IInv'
<1>0. TypeOK /\ Requests /\ Stamps /\ Flights /\ Cells /\ Tombs /\ Landed
  BY DEF IInv
<1>1. phase[r] = "idle"
  BY DEF Patch, Put, Begin
<1>2. /\ phase'[r] \in {"deleting", "sending"}
      /\ \A q \in Request \ {r} :
           /\ phase'[q] = phase[q] /\ prior'[q] = prior[q]
           /\ stamp'[q] = stamp[q] /\ unsent'[q] = unsent[q]
      /\ prior'[r] = {q \in Request : Finished(q)}
      /\ flight' = flight /\ cells' = cells /\ tomb' = tomb /\ dropped' = dropped
  BY <1>0 DEF TypeOK, Patch, Put, Begin, StartSending, tableVars
<1>3. \/ /\ Kind[r] = "patch" /\ phase'[r] = "sending"
         /\ unsent'[r] = DOMAIN Tags[r] /\ stamp'[r] = stamp[r] /\ clock' = clock
      \/ /\ Kind[r] = "put" /\ phase'[r] = "deleting"
         /\ stamp'[r] = clock /\ clock' = clock + 1
  BY <1>0 DEF TypeOK, Patch, Put, Begin, StartSending
<1>4. \A q \in Request : r \notin prior[q] /\ r \notin prior'[q]
  BY <1>0, <1>1, <1>2 DEF Requests
<1>5. \A w \in flight : w.request \in Request /\ w.request # r
  BY <1>0, <1>1 DEF Flights, TypeOK, Update
<1>6. Requests'
  <2> SUFFICES ASSUME NEW p \in Request
               PROVE  /\ phase'[p] = "deleting" => Kind[p] = "put"
                      /\ p \notin prior'[p]
                      /\ \A q \in prior'[p] : Finished(q)'
                      /\ phase'[p] = "answered" => unsent'[p] = {}
    BY DEF Requests
  <2>1. prior'[p] \subseteq Request
    BY DEF TypeOK
  <2>2. CASE p = r
    BY <1>1, <1>2, <1>3, <1>4, <2>1, <2>2
  <2>3. CASE p # r
    BY <1>0, <1>2, <1>4, <2>1, <2>3 DEF Requests
  <2> QED
    BY <2>2, <2>3
<1>7. Stamps'
  <2>1. \A p \in Request : stamp[p] \in Nat
    BY <1>0 DEF TypeOK
  <2>2. clock \in Nat /\ clock > 1 /\ clock' > 1 /\ clock' >= clock
    BY <1>0, <1>3 DEF Stamps, TypeOK
  <2>3. \A p \in Request : stamp'[p] < clock'
    BY <1>0, <1>2, <1>3, <2>1, <2>2 DEF Stamps
  <2>4. \A p \in Request : Kind[p] = "put" /\ phase'[p] # "idle" => stamp'[p] > 1
    BY <1>0, <1>2, <1>3, <2>1, <2>2 DEF Stamps
  <2>5. \A w \in flight' : w.stamp < clock' /\ w.stamp > 1
    BY <1>0, <1>2, <2>2 DEF Stamps, TypeOK, Update
  <2>6. \A m \in Metric, n \in Name : cells'[m][n].stamp < clock'
    BY <1>0, <1>2, <2>2 DEF Stamps, TypeOK
  <2> QED
    BY <2>2, <2>3, <2>4, <2>5, <2>6 DEF Stamps
<1>8. \A s \in Nat : s < clock =>
        \A q \in Request : Before(s, q) => Before(s, q)'
  BY <1>2, <1>3
<1>9. \A s \in Nat : s < clock => Before(s, r)'
  BY <1>2, <1>3, <1>5
<1>10. Flights'
  BY <1>0, <1>2, <1>4, <1>5, <1>8, <1>9 DEF Flights, Stamps, TypeOK, Update
<1>11. Cells'
  <2> SUFFICES ASSUME NEW m \in Metric, NEW n \in Name,
                      cells[m][n].stamp # 0,
                      ~ (/\ cells[m][n].stamp = 1
                         /\ <<n, cells[m][n].value>> \in Pairs(Initial[m]))
               PROVE  \E o \in Request :
                        /\ Asked(o, m, n, cells[m][n].value)'
                        /\ \A q \in Request :
                             o \in prior'[q] => Before(cells[m][n].stamp, q)'
    BY <1>2 DEF Cells
  <2>1. PICK o \in Request :
          /\ Asked(o, m, n, cells[m][n].value)
          /\ \A q \in Request : o \in prior[q] => Before(cells[m][n].stamp, q)
    BY <1>0 DEF Cells
  <2>2. cells[m][n].stamp \in Nat /\ cells[m][n].stamp < clock
    BY <1>0 DEF TypeOK, Stamps
  <2>3. o # r /\ Asked(o, m, n, cells[m][n].value)'
    BY <1>1, <1>2, <2>1
  <2>4. \A q \in Request : o \in prior'[q] => Before(cells[m][n].stamp, q)'
    BY <1>2, <1>8, <1>9, <2>1, <2>2
  <2> QED
    BY <2>3, <2>4
<1>12. Tombs'
  BY <1>0, <1>1, <1>2, <1>3 DEF Tombs
<1>13. Landed'
  <2> SUFFICES ASSUME NEW p \in Request \ dropped, Sent(p)',
                      NEW n \in DOMAIN Tags[p] \ unsent'[p],
                      ~ \E w \in flight : w.request = p /\ w.name = n
               PROVE  /\ After(cells[Target[p]][n].stamp, p)'
                      /\ \E o \in Request : /\ o \notin prior'[p]
                           /\ Asked(o, Target[p], n, cells[Target[p]][n].value)'
    BY <1>2 DEF Landed
  <2>1. p # r /\ Sent(p) /\ n \in DOMAIN Tags[p] \ unsent[p]
    BY <1>2, <1>3
  <2>2. prior'[p] = prior[p] /\ prior[p] \subseteq Request \ {r}
    BY <1>0, <1>2, <1>4, <2>1 DEF TypeOK
  <2>3. After(cells[Target[p]][n].stamp, p)
    BY <1>0, <2>1 DEF Landed
  <2>4. PICK o \in Request :
          /\ o \notin prior[p]
          /\ Asked(o, Target[p], n, cells[Target[p]][n].value)
    BY <1>0, <2>1 DEF Landed
  <2>5. o # r
    BY <1>1, <2>4
  <2>6. After(cells[Target[p]][n].stamp, p)'
    BY <1>2, <2>1, <2>2, <2>3
  <2> QED
    BY <1>2, <2>2, <2>4, <2>5, <2>6
<1> QED
  BY <1>6, <1>7, <1>10, <1>11, <1>12, <1>13 DEF IInv

(* A replacement ends its deletion: it had no update under way, and the    *)
(* tombstone only moves up, to the stamp of a replacement.                 *)
LEMMA DeletionKeeps ==
  ASSUME IInv, TypeOK', NEW r \in Request, Deleted(r) \/ DeletionFails(r)
  PROVE  IInv'
<1>0. TypeOK /\ Requests /\ Stamps /\ Flights /\ Cells /\ Tombs /\ Landed
  BY DEF IInv
<1>1. phase[r] = "deleting" /\ Kind[r] = "put"
  BY <1>0 DEF Deleted, DeletionFails, Requests
<1>2. /\ \A q \in Request \ {r} : phase'[q] = phase[q] /\ unsent'[q] = unsent[q]
      /\ stamp' = stamp /\ prior' = prior /\ clock' = clock
      /\ flight' = flight /\ cells' = cells /\ dropped \subseteq dropped'
  BY <1>0 DEF TypeOK, Deleted, DeletionFails, StartSending
<1>3. \/ phase'[r] = "sending" /\ unsent'[r] = DOMAIN Tags[r]
         /\ tomb' = [tomb EXCEPT ![Target[r]] = Larger(@, stamp[r])]
      \/ phase'[r] = "failed"
         /\ (\/ tomb' = tomb
             \/ tomb' = [tomb EXCEPT ![Target[r]] = Larger(@, stamp[r])])
  BY <1>0 DEF TypeOK, Deleted, DeletionFails, Delete, StartSending
<1>4. \A o \in Request : \A m, n, v : Asked(o, m, n, v) => Asked(o, m, n, v)'
  BY <1>1, <1>2
<1>5. Requests'
  <2> SUFFICES ASSUME NEW p \in Request
               PROVE  /\ phase'[p] = "deleting" => Kind[p] = "put"
                      /\ p \notin prior'[p]
                      /\ \A q \in prior'[p] : Finished(q)'
                      /\ phase'[p] = "answered" => unsent'[p] = {}
    BY DEF Requests
  <2>1. prior[p] \subseteq Request /\ \A q \in prior[p] : Finished(q) /\ q # r
    BY <1>0, <1>1 DEF TypeOK, Requests
  <2>2. p \notin prior'[p] /\ \A q \in prior'[p] : Finished(q)'
    BY <1>0, <1>2, <2>1 DEF Requests
  <2> QED
    BY <1>0, <1>1, <1>2, <1>3, <2>2 DEF Requests
<1>6. Stamps'
  BY <1>0, <1>1, <1>2 DEF Stamps
<1>7. Flights'
  <2> SUFFICES ASSUME NEW w \in flight
               PROVE  /\ Asked(w.request, Target[w.request], w.name, w.value)'
                      /\ \A q \in Request :
                           w.request \in prior[q] => Before(w.stamp, q)'
                      /\ \A q \in prior[w.request] \cup {w.request} :
                           Kind[q] = "put" => stamp[q] < w.stamp
    BY <1>2 DEF Flights
  <2>1. w.request \in Request
    BY <1>0 DEF TypeOK, Update
  <2> QED
    BY <1>0, <1>2, <1>4, <2>1 DEF Flights
<1>8. Cells'
  BY <1>0, <1>2, <1>4 DEF Cells
<1>9. Tombs'
  <2>1. ASSUME NEW m \in Metric
        PROVE  tomb'[m] >= tomb[m] /\ tomb'[m] \in {tomb[m], stamp[r]}
               /\ (tomb'[m] = tomb[m] \/ m = Target[r])
    BY <1>0, <1>3 DEF TypeOK, Larger
  <2>2. phase'[r] = "sending" => tomb'[Target[r]] >= stamp[r]
    BY <1>0, <1>3, RequestAssumption DEF TypeOK, Larger
  <2>3. ASSUME NEW m \in Metric
        PROVE  \/ tomb'[m] = 0
               \/ \E q \in Request : /\ Kind[q] = "put" /\ Target[q] = m
                                     /\ phase'[q] # "idle" /\ tomb'[m] = stamp'[q]
    BY <1>0, <1>1, <1>2, <1>3, <2>1 DEF Tombs
  <2>4. ASSUME NEW q \in Request, Kind[q] = "put", Sent(q)'
        PROVE  tomb'[Target[q]] >= stamp'[q]
    <3>1. tomb'[Target[q]] \in Nat /\ tomb[Target[q]] \in Nat /\ stamp[q] \in Nat
      BY <1>0, RequestAssumption DEF TypeOK
    <3>2. tomb'[Target[q]] >= tomb[Target[q]]
      BY <2>1, RequestAssumption
    <3> QED
      BY <1>0, <1>2, <1>3, <2>2, <2>4, <3>1, <3>2 DEF Tombs
  <2> QED
    BY <2>3, <2>4 DEF Tombs
<1>10. Landed'
  <2> SUFFICES ASSUME NEW p \in Request \ dropped', Sent(p)',
                      NEW n \in DOMAIN Tags[p] \ unsent'[p],
                      ~ \E w \in flight : w.request = p /\ w.name = n
               PROVE  /\ After(cells[Target[p]][n].stamp, p)'
                      /\ \E o \in Request : /\ o \notin prior'[p]
                           /\ Asked(o, Target[p], n, cells[Target[p]][n].value)'
    BY <1>2 DEF Landed
  <2>1. p # r /\ p \notin dropped /\ Sent(p) /\ n \in DOMAIN Tags[p] \ unsent[p]
    BY <1>2, <1>3
  <2>2. /\ After(cells[Target[p]][n].stamp, p)
        /\ \E o \in Request : /\ o \notin prior[p]
             /\ Asked(o, Target[p], n, cells[Target[p]][n].value)
    BY <1>0, <2>1 DEF Landed
  <2> QED
    BY <1>2, <1>4, <2>2
<1> QED
  BY <1>5, <1>6, <1>7, <1>8, <1>9, <1>10 DEF IInv

(* An update is submitted: it is later than all that was submitted before, *)
(* and no request began after the end of its own, which goes on.           *)
LEMMA SubmitKeeps ==
  ASSUME IInv, TypeOK', NEW r \in Request, NEW n \in Name, Submit(r, n)
  PROVE  IInv'
<1> DEFINE u == [request |-> r, name |-> n, value |-> Tags[r][n], stamp |-> clock]
<1>0. TypeOK /\ Requests /\ Stamps /\ Flights /\ Cells /\ Tombs /\ Landed
  BY DEF IInv
<1>1. /\ phase[r] = "sending" /\ n \in DOMAIN Tags[r] /\ clock \in Nat
      /\ flight' = flight \cup {u} /\ clock' = clock + 1
      /\ unsent'[r] = unsent[r] \ {n}
      /\ \A q \in Request \ {r} : unsent'[q] = unsent[q]
      /\ phase' = phase /\ stamp' = stamp /\ prior' = prior
      /\ cells' = cells /\ tomb' = tomb /\ dropped' = dropped
  BY <1>0 DEF Submit, TypeOK, tableVars
<1>2. \A q \in Request : r \notin prior[q]
  BY <1>0, <1>1 DEF Requests
<1>3. \A s \in Nat : s < clock =>
        \A q \in Request : Before(s, q) => Before(s, q)'
  BY <1>1
<1>4. Requests'
  BY <1>0, <1>1 DEF Requests
<1>5. Stamps'
  <2>1. clock' > 1 /\ \A p \in Request : stamp[p] \in Nat /\ stamp'[p] < clock'
    BY <1>0, <1>1 DEF Stamps, TypeOK
  <2>2. \A w \in flight' : w.stamp < clock' /\ w.stamp > 1
    BY <1>0, <1>1 DEF Stamps, TypeOK, Update
  <2>3. \A m \in Metric, k \in Name : cells'[m][k].stamp < clock'
    BY <1>0, <1>1 DEF Stamps, TypeOK
  <2> QED
    BY <1>0, <1>1, <2>1, <2>2, <2>3 DEF Stamps
<1>6. Flights'
  <2> SUFFICES ASSUME NEW w \in flight'
               PROVE  /\ Asked(w.request, Target[w.request], w.name, w.value)'
                      /\ \A q \in Request :
                           w.request \in prior[q] => Before(w.stamp, q)'
                      /\ \A q \in prior[w.request] \cup {w.request} :
                           Kind[q] = "put" => stamp[q] < w.stamp
    BY <1>1 DEF Flights
  <2>1. CASE w \in flight
    BY <1>0, <1>1, <1>3, <2>1 DEF Flights, Stamps, TypeOK, Update
  <2>2. CASE w = u
    BY <1>0, <1>1, <1>2, <2>2 DEF Stamps, TypeOK
  <2> QED
    BY <1>1, <2>1, <2>2
<1>7. Cells'
  <2>1. \A m \in Metric, k \in Name :
          cells[m][k].stamp \in Nat /\ cells[m][k].stamp < clock
    BY <1>0 DEF TypeOK, Stamps
  <2> QED
    BY <1>0, <1>1, <1>3, <2>1 DEF Cells
<1>8. Tombs'
  BY <1>0, <1>1 DEF Tombs
<1>9. Landed'
  <2> SUFFICES ASSUME NEW p \in Request \ dropped, Sent(p),
                      NEW k \in DOMAIN Tags[p] \ unsent'[p],
                      ~ \E w \in flight' : w.request = p /\ w.name = k
               PROVE  /\ After(cells[Target[p]][k].stamp, p)'
                      /\ \E o \in Request : /\ o \notin prior[p]
                           /\ Asked(o, Target[p], k, cells[Target[p]][k].value)
    BY <1>1 DEF Landed
  <2>1. k \in DOMAIN Tags[p] \ unsent[p]
    <3>1. u \in flight' /\ u.request = r /\ u.name = n
      BY <1>1
    <3> HIDE DEF u
    <3>2. ~ (p = r /\ k = n)
      BY <3>1
    <3> QED
      BY <1>1, <3>2
  <2>2. /\ After(cells[Target[p]][k].stamp, p)
        /\ \E o \in Request : /\ o \notin prior[p]
             /\ Asked(o, Target[p], k, cells[Target[p]][k].value)
    BY <1>0, <1>1, <2>1 DEF Landed
  <2> QED
    BY <1>1, <1>2, <2>2
<1> QED
  BY <1>4, <1>5, <1>6, <1>7, <1>8, <1>9 DEF IInv

(* A request is answered: it has nothing left to submit.                   *)
LEMMA AnswerKeeps ==
  ASSUME IInv, TypeOK', NEW r \in Request, Answer(r)
  PROVE  IInv'
<1>0. TypeOK /\ Requests /\ Stamps /\ Flights /\ Cells /\ Tombs /\ Landed
  BY DEF IInv
<1>1. /\ phase[r] = "sending" /\ unsent[r] = {} /\ phase'[r] = "answered"
      /\ \A q \in Request \ {r} : phase'[q] = phase[q]
      /\ unsent' = unsent /\ stamp' = stamp /\ prior' = prior /\ clock' = clock
      /\ flight' = flight /\ cells' = cells /\ tomb' = tomb /\ dropped' = dropped
  BY <1>0 DEF Answer, TypeOK, tableVars
<1>2. \A q \in Request : Sent(q)' <=> Sent(q)
  BY <1>1
<1>3. Requests'
  BY <1>0, <1>1 DEF Requests, TypeOK
<1>4. Stamps'
  BY <1>0, <1>1 DEF Stamps
<1>5. Flights'
  <2>1. \A w \in flight : w.request \in Request
    BY <1>0 DEF TypeOK, Update
  <2> QED
    BY <1>0, <1>1, <1>2, <2>1 DEF Flights
<1>6. Cells'
  BY <1>0, <1>1, <1>2 DEF Cells
<1>7. Tombs'
  BY <1>0, <1>1, <1>2 DEF Tombs
<1>8. Landed'
  BY <1>0, <1>1, <1>2 DEF Landed
<1> QED
  BY <1>3, <1>4, <1>5, <1>6, <1>7, <1>8 DEF IInv

(* An update lands: the cell keeps the later of two values, and whatever   *)
(* is later than the statements of a request comes from a request that     *)
(* had not finished when it began.                                         *)
LEMMA LandKeeps ==
  ASSUME IInv, TypeOK', NEW u \in flight, Land(u)
  PROVE  IInv'
<1> DEFINE M == Target[u.request]
           Cell == cells[M][u.name]
<1>0. TypeOK /\ Requests /\ Stamps /\ Flights /\ Cells /\ Tombs /\ Landed
  BY DEF IInv
<1>1. /\ phase' = phase /\ unsent' = unsent /\ stamp' = stamp /\ prior' = prior
      /\ clock' = clock /\ tomb' = tomb /\ dropped' = dropped
      /\ flight' = flight \ {u}
  BY DEF Land, requestVars
<1>2. u.request \in Request /\ u.name \in Name /\ u.stamp \in Nat /\ M \in Metric
  BY <1>0, RequestAssumption DEF TypeOK, Update
<1>3. \A m \in Metric, n \in Name :
        IF m = M /\ n = u.name /\ u.stamp > Cell.stamp
        THEN cells'[m][n] = [value |-> u.value, stamp |-> u.stamp]
        ELSE cells'[m][n] = cells[m][n]
  BY <1>0, <1>2 DEF Land, TypeOK
<1>4. \A m \in Metric, n \in Name : cells[m][n].stamp \in Nat
  BY <1>0 DEF TypeOK
<1>5. \A q \in Request, s \in Nat :
        /\ Before(s, q) => Before(s, q)'
        /\ After(s, q) => After(s, q)'
  BY <1>1
<1>6. /\ Asked(u.request, M, u.name, u.value)
      /\ \A q \in Request : u.request \in prior[q] => Before(u.stamp, q)
      /\ u.request \notin prior[u.request] /\ u.stamp > 1 /\ u.stamp < clock
  BY <1>0, <1>2 DEF Flights, Requests, Stamps
<1>7. After(u.stamp, u.request)
  <2>1. ASSUME NEW w \in flight, w.request \in prior[u.request]
        PROVE  w.stamp < u.stamp
    BY <1>0, <1>2, <2>1 DEF Flights
  <2> QED
    BY <1>0, <1>6, <2>1 DEF Flights
<1>8. Requests' /\ Tombs'
  BY <1>0, <1>1 DEF Requests, Tombs
<1>9. Stamps'
  <2>1. \A m \in Metric, n \in Name : cells'[m][n].stamp < clock
    BY <1>0, <1>3, <1>6 DEF Stamps
  <2> QED
    BY <1>0, <1>1, <2>1 DEF Stamps
<1>10. Flights'
  <2>1. \A w \in flight : w.stamp \in Nat
    BY <1>0 DEF TypeOK, Update
  <2> QED
    BY <1>0, <1>1, <1>5, <2>1 DEF Flights
<1>11. Cells'
  <2> SUFFICES ASSUME NEW m \in Metric, NEW n \in Name
               PROVE  \/ cells'[m][n].stamp = 0
                      \/ /\ cells'[m][n].stamp = 1
                         /\ <<n, cells'[m][n].value>> \in Pairs(Initial[m])
                      \/ \E o \in Request :
                           /\ Asked(o, m, n, cells[m][n].value)'
                           /\ \A q \in Request :
                                o \in prior'[q] => Before(cells[m][n].stamp, q)'
    BY <1>1 DEF Cells
  <2>1. CASE m = M /\ n = u.name /\ u.stamp > Cell.stamp
    BY <1>1, <1>2, <1>3, <1>5, <1>6, <2>1
  <2>2. CASE ~ (m = M /\ n = u.name /\ u.stamp > Cell.stamp)
    BY <1>0, <1>1, <1>3, <1>4, <1>5, <2>2 DEF Cells
  <2> QED
    BY <2>1, <2>2
<1>12. Landed'
  <2> SUFFICES ASSUME NEW p \in Request \ dropped, Sent(p),
                      NEW n \in DOMAIN Tags[p] \ unsent[p],
                      ~ \E w \in flight' : w.request = p /\ w.name = n
               PROVE  /\ After(cells[Target[p]][n].stamp, p)'
                      /\ \E o \in Request : /\ o \notin prior[p]
                           /\ Asked(o, Target[p], n, cells'[Target[p]][n].value)
    BY <1>1 DEF Landed
  <2>0. Target[p] \in Metric /\ n \in Name
    BY TagsetFacts, RequestAssumption
  <2>1. CASE u.request = p /\ u.name = n /\ u.stamp > Cell.stamp
    BY <1>2, <1>3, <1>5, <1>6, <1>7, <2>0, <2>1
  <2>2. CASE u.request = p /\ u.name = n /\ ~ u.stamp > Cell.stamp
    <3>1. cells'[M][n] = Cell /\ Cell.stamp \in Nat /\ Cell.stamp >= u.stamp
      BY <1>2, <1>3, <1>4, <2>2
    <3>2. After(Cell.stamp, p)
      <4>1. \A w \in flight : w.stamp \in Nat
        BY <1>0 DEF TypeOK, Update
      <4>2. \A q \in prior[p] \cup {p} : stamp[q] \in Nat
        BY <1>0 DEF TypeOK
      <4> QED
        BY <1>2, <1>7, <2>2, <3>1, <4>1, <4>2
    <3>3. PICK o \in Request :
            /\ Asked(o, M, u.name, Cell.value)
            /\ \A q \in Request : o \in prior[q] => Before(Cell.stamp, q)
      <4>1. Cell.stamp # 0 /\ Cell.stamp # 1
        BY <1>2, <1>6, <3>1
      <4>2. \/ Cell.stamp = 0
            \/ /\ Cell.stamp = 1
               /\ <<u.name, Cell.value>> \in Pairs(Initial[M])
            \/ \E o \in Request :
                 /\ Asked(o, M, u.name, Cell.value)
                 /\ \A q \in Request : o \in prior[q] => Before(Cell.stamp, q)
        BY <1>0, <1>2 DEF Cells
      <4> QED
        BY <4>1, <4>2
    <3>4. o \notin prior[p]
      BY <1>2, <2>2, <3>1, <3>3
    <3> QED
      BY <1>5, <2>2, <3>1, <3>2, <3>3, <3>4
  <2>3. CASE ~ (u.request = p /\ u.name = n)
    <3> DEFINE old == cells[Target[p]][n]
    <3>1. ~ \E w \in flight : w.request = p /\ w.name = n
      BY <1>1, <2>3
    <3>2. /\ After(old.stamp, p)
          /\ \E o \in Request : o \notin prior[p] /\ Asked(o, Target[p], n, old.value)
      BY <1>0, <3>1 DEF Landed
    <3>3. CASE cells'[Target[p]][n] = old
      BY <1>4, <1>5, <2>0, <3>2, <3>3
    <3>4. CASE Target[p] = M /\ n = u.name /\ u.stamp > old.stamp
      <4>1. u.request \notin prior[p]
        BY <1>2, <1>4, <2>0, <3>2, <3>4
      <4>2. After(u.stamp, p)
        <5>1. \A w \in flight : w.stamp \in Nat
          BY <1>0 DEF TypeOK, Update
        <5>2. \A q \in prior[p] \cup {p} : stamp[q] \in Nat
          BY <1>0 DEF TypeOK
        <5> QED
          BY <1>2, <1>4, <2>0, <3>2, <3>4, <5>1, <5>2
      <4> QED
        BY <1>2, <1>3, <1>5, <1>6, <2>0, <3>4, <4>1, <4>2
    <3> QED
      BY <1>3, <2>0, <3>3, <3>4
  <2> QED
    BY <2>1, <2>2, <2>3
<1> QED
  BY <1>8, <1>9, <1>10, <1>11, <1>12 DEF IInv

(* An update fails: fewer are under way, and its request is known for it.  *)
LEMMA DropKeeps ==
  ASSUME IInv, TypeOK', NEW u \in flight, Drop(u)
  PROVE  IInv'
<1>0. TypeOK /\ Requests /\ Stamps /\ Flights /\ Cells /\ Tombs /\ Landed
  BY DEF IInv
<1>1. /\ phase' = phase /\ unsent' = unsent /\ stamp' = stamp /\ prior' = prior
      /\ clock' = clock /\ cells' = cells /\ tomb' = tomb
      /\ flight' = flight \ {u} /\ dropped' = dropped \cup {u.request}
  BY DEF Drop, requestVars, tableVars
<1>2. Requests' /\ Stamps' /\ Flights' /\ Tombs'
  BY <1>0, <1>1 DEF Requests, Stamps, Flights, Tombs
<1>3. Cells'
  BY <1>0, <1>1 DEF Cells
<1>4. Landed'
  <2> SUFFICES ASSUME NEW p \in Request \ dropped', Sent(p),
                      NEW n \in DOMAIN Tags[p] \ unsent[p],
                      ~ \E w \in flight' : w.request = p /\ w.name = n
               PROVE  /\ After(cells[Target[p]][n].stamp, p)'
                      /\ \E o \in Request : /\ o \notin prior[p]
                           /\ Asked(o, Target[p], n, cells[Target[p]][n].value)
    BY <1>1 DEF Landed
  <2>1. p \notin dropped /\ ~ \E w \in flight : w.request = p /\ w.name = n
    BY <1>1
  <2> QED
    BY <1>0, <1>1, <2>1 DEF Landed
<1> QED
  BY <1>2, <1>3, <1>4 DEF IInv

(* The invariant is inductive.                                             *)
LEMMA InvariantIsInductive == Init /\ [][Next]_staticVars => []IInv
<1>1. ASSUME IInv, Next PROVE IInv'
  <2>1. TypeOK'
    BY <1>1, TypeIsInductive DEF IInv
  <2>2. ASSUME NEW m \in Metric, Refresh(m) PROVE IInv'
    <3>1. UNCHANGED <<phase, unsent, stamp, flight, cells, tomb, clock, prior, dropped>>
      BY <2>2 DEF Refresh, requestVars, tableVars
    <3> QED
      BY <1>1, <2>1, <3>1
        DEF IInv, Requests, Stamps, Flights, Cells, Tombs, Landed
  <2> QED
    BY <1>1, <2>1, <2>2, BeginKeeps, DeletionKeeps, SubmitKeeps, AnswerKeeps,
       LandKeeps, DropKeeps
      DEF Next, RequestStep
<1>2. ASSUME IInv, UNCHANGED staticVars PROVE IInv'
  BY <1>2, TypeIsInductive
    DEF staticVars, IInv, Requests, Stamps, Flights, Cells, Tombs, Landed
<1> QED
  BY InvariantInit, <1>1, <1>2, PTL

-----------------------------------------------------------------------------
(* The variables keep their types.                                         *)
THEOREM TypeCorrect == Spec => []TypeOK
<1>1. IInv => TypeOK
  BY DEF IInv
<1> QED
  BY InvariantIsInductive, <1>1, PTL DEF Spec

(* A tag that an answered replacement discarded does not come back with    *)
(* the late write of an earlier request: that write is older than the      *)
(* deletion, whenever Cassandra applies it.                                *)
THEOREM NothingComesBack == Spec => []DiscardedForGood
<1>1. ASSUME IInv PROVE DiscardedForGood
  <2> USE DEF DiscardedForGood
  <2> TAKE m \in Metric
  <2> TAKE n \in Present(m)
  <2> DEFINE replaced == {q \in Request : /\ Kind[q] = "put" /\ Target[q] = m
                                          /\ phase[q] = "answered"}
             askers == {r \in Request :
                         /\ Target[r] = m /\ phase[r] # "idle"
                         /\ <<n, cells[m][n].value>> \in Pairs(Tags[r])}
  <2>0. TypeOK /\ Requests /\ Stamps /\ Flights /\ Cells /\ Tombs /\ Landed
    BY <1>1 DEF IInv
  <2>1. /\ n \in Name /\ cells[m][n].stamp > tomb[m]
        /\ cells[m][n].stamp \in Nat /\ tomb[m] \in Nat
    BY <2>0 DEF Present, TypeOK
  <2>2. \A q \in replaced :
          /\ q \in Request /\ Kind[q] = "put" /\ stamp[q] \in Nat /\ stamp[q] > 1
          /\ tomb[m] >= stamp[q]
    BY <2>0 DEF Tombs, Stamps, TypeOK
  <2>3. \/ cells[m][n].stamp = 1 /\ <<n, cells[m][n].value>> \in Pairs(Initial[m])
        \/ \E o \in Request :
             /\ Asked(o, m, n, cells[m][n].value)
             /\ \A q \in Request : o \in prior[q] => Before(cells[m][n].stamp, q)
    BY <2>0, <2>1 DEF Cells
  <2>4. CASE cells[m][n].stamp = 1 /\ <<n, cells[m][n].value>> \in Pairs(Initial[m])
    BY <2>1, <2>2, <2>4
  <2>5. ASSUME NEW o \in Request, Asked(o, m, n, cells[m][n].value),
               \A q \in Request : o \in prior[q] => Before(cells[m][n].stamp, q)
        PROVE  \E r \in askers : \A q \in replaced : r \notin prior[q]
    <3>1. o \in askers
      BY <2>5 DEF Pairs
    <3>2. \A q \in replaced : o \notin prior[q]
      BY <2>1, <2>2, <2>5
    <3> QED
      BY <3>1, <3>2
  <2> QED
    BY <2>3, <2>4, <2>5
<1> QED
  BY InvariantIsInductive, <1>1, PTL DEF Spec

(* Once the updates of the last request have landed, and none has failed,  *)
(* the metric has its tags, whatever the order in which Cassandra applied  *)
(* the updates of the requests before.                                     *)
THEOREM LastOneStands == Spec => []LastRequestStands
<1>1. ASSUME IInv PROVE LastRequestStands
  <2> SUFFICES ASSUME NEW r \in Request \ dropped,
                      phase[r] = "answered", Latest(r),
                      \A w \in flight : w.request # r,
                      NEW n \in DOMAIN Tags[r]
               PROVE  <<n, Tags[r][n]>> \in Pairs(Static(Target[r]))
    BY DEF LastRequestStands, Pairs
  <2> DEFINE cell == cells[Target[r]][n]
  <2>0. TypeOK /\ Requests /\ Stamps /\ Flights /\ Cells /\ Tombs /\ Landed
    BY <1>1 DEF IInv
  <2>1. /\ n \in Name /\ Target[r] \in Metric
        /\ cell.stamp \in Nat /\ tomb[Target[r]] \in Nat
    BY <2>0, TagsetFacts, RequestAssumption DEF TypeOK
  <2>2. unsent[r] = {}
    BY <2>0 DEF Requests
  <2>3. /\ After(cell.stamp, r)
        /\ \E o \in Request : o \notin prior[r] /\ Asked(o, Target[r], n, cell.value)
    BY <2>0, <2>2 DEF Landed
  <2>4. cell.value = Tags[r][n]
    BY <2>3 DEF Latest
  <2>5. cell.stamp > tomb[Target[r]]
    BY <2>0, <2>1, <2>3 DEF Tombs, Latest
  <2>6. n \in Present(Target[r])
    BY <2>1, <2>5 DEF Present
  <2> QED
    BY <2>4, <2>6 DEF Pairs, Static
<1> QED
  BY InvariantIsInductive, <1>1, PTL DEF Spec

HIDE DEF Sent, Before, After, Asked, Finished

-----------------------------------------------------------------------------
(* 2. Recursion on filters (see Recursion).                                *)

(* Filter and its weights, for the lemmas of Recursion.                    *)
LEMMA Weights == Weight \in [Filter -> Nat]
BY FilterAssumption

-----------------------------------------------------------------------------
(* Filters.                                                                *)

(* The shapes of filters.                                                  *)
LEMMA Shape ==
  ASSUME NEW f \in Filter
  PROVE  /\ f[1] \in {"all", "exist", "tag", "not", "and", "or"}
         /\ Is("all", f) => f = <<"all">>
         /\ Is("exist", f) => f[2] \in Name
         /\ Is("tag", f) => f[2] \in Name /\ f[3] \in Value
         /\ Is("not", f) => Lighter(f[2], f) /\ f = <<"not", f[2]>>
         /\ IsPair(f) => /\ Lighter(f[2], f) /\ Lighter(f[3], f)
                         /\ f = <<f[1], f[2], f[3]>>
         /\ IsRewritten(f) => Lighter(Rewritten(f), f)
<1>1. f \in {<<"all">>} \cup ({"exist"} \X Name) \cup ({"tag"} \X Name \X Value)
         \cup ({"not"} \X Filter) \cup ({"and", "or"} \X Filter \X Filter)
  BY FilterAssumption
<1>2. CASE f = <<"all">>
  BY <1>2 DEF Is, IsPair, IsRewritten, IsDoubleNegation
<1>3. CASE f \in {"exist"} \X Name
  BY <1>3 DEF Is, IsPair, IsRewritten, IsDoubleNegation
<1>4. CASE f \in {"tag"} \X Name \X Value
  BY <1>4 DEF Is, IsPair, IsRewritten, IsDoubleNegation
<1>5. CASE f \in {"not"} \X Filter
  <2>1. f[1] = "not" /\ f = <<"not", f[2]>>
    BY <1>5
  <2> QED BY <2>1, FilterAssumption DEF Is, IsPair
<1>6. CASE f \in {"and", "or"} \X Filter \X Filter
  <2>1. f[1] \in {"and", "or"} /\ f = <<f[1], f[2], f[3]>>
    BY <1>6
  <2> QED BY <2>1, FilterAssumption DEF Is, IsPair
<1> QED BY <1>1, <1>2, <1>3, <1>4, <1>5, <1>6

(* The values of Accepts follow its definition.                            *)
LEMMA AcceptsDefinition ==
  ASSUME NEW c
  PROVE  \A f \in Filter :
           /\ Accepts(c, f) \in BOOLEAN
           /\ Accepts(c, f) = AcceptsStep([g \in Filter |-> Accepts(c, g)], c, f)
<1> DEFINE G == [p \in Filter \X [Filter -> BOOLEAN] |-> AcceptsStep(p[2], c, p[1])]
<1>1. ASSUME NEW f \in Filter, NEW a \in [Filter -> BOOLEAN]
      PROVE  AcceptsStep(a, c, f) \in BOOLEAN
  <2>1. Is("not", f) => a[f[2]] \in BOOLEAN
    BY Shape DEF Lighter
  <2>2. IsPair(f) => a[f[2]] \in BOOLEAN /\ a[f[3]] \in BOOLEAN
    BY Shape DEF Lighter
  <2>3. CASE f[1] \in {"all", "exist", "tag"}
    <3>1. CASE f[1] = "all"
      BY <3>1 DEF AcceptsStep, Is
    <3>2. CASE f[1] = "exist"
      BY <3>2 DEF AcceptsStep, Is
    <3>3. CASE f[1] = "tag"
      BY <3>3 DEF AcceptsStep, Is
    <3> QED BY <2>3, <3>1, <3>2, <3>3
  <2>4. CASE f[1] = "not"
    BY <2>4 DEF AcceptsStep, Is
  <2>5. CASE f[1] = "and"
    BY <2>5 DEF AcceptsStep, Is
  <2>6. CASE f[1] = "or"
    BY <2>6 DEF AcceptsStep, Is
  <2>7. f[1] \in {"all", "exist", "tag", "not", "and", "or"}
    BY Shape
  <2> QED BY <2>3, <2>4, <2>5, <2>6, <2>7
<1>2. ASSUME NEW f \in Filter, NEW a \in [Filter -> BOOLEAN],
             NEW b \in [Filter -> BOOLEAN],
             \A g \in Filter : Weight[g] < Weight[f] => a[g] = b[g]
      PROVE  AcceptsStep(a, c, f) = AcceptsStep(b, c, f)
  <2>1. Is("not", f) => a[f[2]] = b[f[2]]
    BY <1>2, Shape DEF Lighter
  <2>2. IsPair(f) => a[f[2]] = b[f[2]] /\ a[f[3]] = b[f[3]]
    BY <1>2, Shape DEF Lighter
  <2> QED BY <2>1, <2>2, Shape DEF AcceptsStep, Is, IsPair
<1>3. G \in [Filter \X [Filter -> BOOLEAN] -> BOOLEAN]
  BY <1>1
<1>4. \A f \in Filter : \A a, b \in [Filter -> BOOLEAN] :
        (\A g \in Filter : Weight[g] < Weight[f] => a[g] = b[g])
          => G[<<f, a>>] = G[<<f, b>>]
  BY <1>2
<1>5. \A f \in Filter : \A a \in [Filter -> BOOLEAN] : G[<<f, a>>] = AcceptsStep(a, c, f)
  OBVIOUS
<1> HIDE DEF G
<1>6. PICK e \in [Filter -> BOOLEAN] : \A f \in Filter : e[f] = G[<<f, e>>]
  <2> DEFINE P == BOOLEAN
  <2>1. Weight \in [Filter -> Nat] /\ P # {}
    BY FilterAssumption
  <2>2. G \in Steps(Filter, Weight, P)
    BY <1>3, <1>4 DEF Steps
  <2> HIDE DEF P
  <2>3. \E e \in [Filter -> P] : \A f \in Filter : e[f] = G[<<f, e>>]
    BY <2>1, <2>2, Weights, WeightRecursion
  <2> QED BY <2>3 DEF P
<1> DEFINE d == CHOOSE a : a = [f \in Filter |-> AcceptsStep(a, c, f)]
<1>7. e = [f \in Filter |-> AcceptsStep(e, c, f)]
  BY <1>5, <1>6
<1>8. d = [f \in Filter |-> AcceptsStep(d, c, f)]
  BY <1>7
<1>9. \A f \in Filter : Accepts(c, f) = d[f]
  BY DEF Accepts
<1> HIDE DEF d
<1>10. d = [g \in Filter |-> Accepts(c, g)]
  BY <1>8, <1>9
<1>11. \A f \in Filter : d[f] = AcceptsStep(d, c, f)
  BY <1>8
<1>12. \A f \in Filter : d[f] \in BOOLEAN
  <2> DEFINE T == {f \in Filter : d[f] \in BOOLEAN}
  <2>1. ASSUME NEW f \in Filter, \A g \in Filter : Weight[g] < Weight[f] => g \in T
        PROVE  f \in T
    <3>1. CASE f[1] \in {"all", "exist", "tag"}
      <4>0. f \in T <=> AcceptsStep(d, c, f) \in BOOLEAN
        BY <1>11
      <4>1. CASE f[1] = "all"
        BY <4>0, <4>1 DEF AcceptsStep, Is
      <4>2. CASE f[1] = "exist"
        BY <4>0, <4>2 DEF AcceptsStep, Is
      <4>3. CASE f[1] = "tag"
        BY <4>0, <4>3 DEF AcceptsStep, Is
      <4> QED BY <3>1, <4>1, <4>2, <4>3
    <3>2. CASE f[1] = "not"
      BY <1>11, <3>2 DEF AcceptsStep, Is
    <3>3. CASE f[1] = "and"
      BY <1>11, <3>3 DEF AcceptsStep, Is
    <3>4. CASE f[1] = "or"
      BY <1>11, <3>4 DEF AcceptsStep, Is
    <3>5. f[1] \in {"all", "exist", "tag", "not", "and", "or"}
      BY Shape
    <3> QED BY <3>1, <3>2, <3>3, <3>4, <3>5
  <2>2. Weight \in [Filter -> Nat]
    BY FilterAssumption
  <2>3. Filter \subseteq T
    <3> HIDE DEF T
    <3> QED BY <2>1, <2>2, Weights, WeightInduction
  <2> QED BY <2>3
<1> QED BY <1>9, <1>10, <1>11, <1>12

(* The terms of the plans of filters for s.                                *)
TermsIn(s) == [read : Filter, scope : {s}, keep : SUBSET Filter]

(* What is kept by one more filter is a plan, for the same reads.          *)
LEMMA FilteredFacts ==
  ASSUME NEW s, NEW t \in Seq(TermsIn(s)), NEW f \in Filter
  PROVE  /\ Filtered(t, f) \in Seq(TermsIn(s))
         /\ DOMAIN Filtered(t, f) = DOMAIN t
         /\ \A i \in DOMAIN t : Filtered(t, f)[i] = [t[i] EXCEPT !.keep = @ \cup {f}]
<1>1. DOMAIN Filtered(t, f) = 1 .. Len(t) /\ Len(t) \in Nat /\ DOMAIN t = 1 .. Len(t)
  BY DEF Filtered
<1>2. ASSUME NEW i \in DOMAIN t
      PROVE  /\ Filtered(t, f)[i] = [t[i] EXCEPT !.keep = @ \cup {f}]
             /\ [t[i] EXCEPT !.keep = @ \cup {f}] \in TermsIn(s)
  <2>1. t[i] \in TermsIn(s)
    OBVIOUS
  <2>2. [t[i] EXCEPT !.keep = @ \cup {f}] \in TermsIn(s)
    BY <2>1 DEF TermsIn
  <2> QED BY <2>2 DEF Filtered
<1>3. Filtered(t, f) \in [1 .. Len(t) -> TermsIn(s)]
  BY <1>1, <1>2 DEF Filtered
<1>4. \A u \in [1 .. Len(t) -> TermsIn(s)] : u \in Seq(TermsIn(s))
  BY <1>1
<1> QED BY <1>1, <1>2, <1>3, <1>4

(* A term of one condition.                                                *)
LEMMA TermFacts ==
  ASSUME NEW s, NEW f \in Filter
  PROVE  Term(f, s) \in TermsIn(s) /\ <<Term(f, s)>> \in Seq(TermsIn(s))
BY DEF Term, TermsIn

(* A step of the evaluation gives a plan.                                  *)
LEMMA EvalStepType ==
  ASSUME NEW s, NEW f \in Filter, NEW e,
         \A g \in Filter : Weight[g] < Weight[f] => e[g] \in Seq(TermsIn(s))
  PROVE  EvalStep(e, f, s) \in Seq(TermsIn(s))
<1> DEFINE left == Filtered(e[f[2]], f[3])
           right == Filtered(e[f[3]], f[2])
<1>1. CASE IsIndexed(f) \/ Is("all", f)
  BY <1>1, TermFacts DEF EvalStep
<1>2. CASE ~ (IsIndexed(f) \/ Is("all", f)) /\ IsRewritten(f)
  BY <1>2, Shape DEF EvalStep, Lighter
<1>3. CASE ~ (IsIndexed(f) \/ Is("all", f)) /\ ~ IsRewritten(f) /\ Is("not", f)
  <2>1. <<Term(<<"all">>, s)>> \in Seq(TermsIn(s))
    BY TermFacts, FilterAssumption
  <2>2. Filtered(<<Term(<<"all">>, s)>>, f) \in Seq(TermsIn(s))
    BY <2>1, FilteredFacts
  <2> QED BY <1>3, <2>2 DEF EvalStep
<1>4. CASE ~ (IsIndexed(f) \/ Is("all", f)) /\ ~ IsRewritten(f) /\ IsPair(f)
  <2>1. /\ f[2] \in Filter /\ f[3] \in Filter
        /\ e[f[2]] \in Seq(TermsIn(s)) /\ e[f[3]] \in Seq(TermsIn(s))
    BY <1>4, Shape DEF Lighter
  <2>2. left \in Seq(TermsIn(s)) /\ right \in Seq(TermsIn(s))
    BY <2>1, FilteredFacts
  <2>3. CASE Is("and", f)
    <3> HIDE DEF left, right
    <3>1. ~ Is("not", f)
      BY <2>3 DEF Is
    <3> QED BY <1>4, <2>1, <2>2, <2>3, <3>1 DEF EvalStep, left, right
  <2>4. CASE Is("or", f)
    <3>1. ~ Is("not", f) /\ ~ Is("and", f)
      BY <2>4 DEF Is
    <3>2. Is("all", f[2]) \/ Is("all", f[3]) => e[<<"all">>] \in Seq(TermsIn(s))
      BY <2>1, Shape
    <3> QED BY <1>4, <2>1, <3>1, <3>2 DEF EvalStep
  <2> QED BY <1>4, <2>3, <2>4 DEF Is, IsPair
<1> QED BY <1>1, <1>2, <1>3, <1>4, Shape DEF Is, IsIndexed, IsPair

(* It depends on the plans of the filters that weigh less.                 *)
LEMMA EvalStepDepends ==
  ASSUME NEW s, NEW f \in Filter, NEW d, NEW e,
         \A g \in Filter : Weight[g] < Weight[f] => d[g] = e[g]
  PROVE  EvalStep(d, f, s) = EvalStep(e, f, s)
<1>1. CASE IsIndexed(f) \/ Is("all", f)
  BY <1>1 DEF EvalStep
<1>2. CASE ~ (IsIndexed(f) \/ Is("all", f)) /\ IsRewritten(f)
  BY <1>2, Shape DEF EvalStep, Lighter
<1>3. CASE ~ (IsIndexed(f) \/ Is("all", f)) /\ ~ IsRewritten(f) /\ Is("not", f)
  BY <1>3 DEF EvalStep
<1>4. CASE ~ (IsIndexed(f) \/ Is("all", f)) /\ ~ IsRewritten(f) /\ IsPair(f)
  <2>1. f[2] \in Filter /\ f[3] \in Filter /\ d[f[2]] = e[f[2]] /\ d[f[3]] = e[f[3]]
    BY <1>4, Shape DEF Lighter
  <2>2. ~ Is("not", f)
    BY <1>4 DEF Is, IsPair
  <2>3. CASE Is("and", f)
    BY <1>4, <2>1, <2>2, <2>3 DEF EvalStep
  <2>4. CASE ~ Is("and", f)
    <3>1. Is("all", f[2]) \/ Is("all", f[3]) => d[<<"all">>] = e[<<"all">>]
      BY <2>1, Shape
    <3> QED BY <1>4, <2>1, <2>2, <2>4, <3>1 DEF EvalStep
  <2> QED BY <2>3, <2>4
<1> QED BY <1>1, <1>2, <1>3, <1>4, Shape DEF Is, IsIndexed, IsPair

(* The values of Eval are plans, and follow its definition.                *)
LEMMA EvalDefinition ==
  ASSUME NEW s
  PROVE  \A f \in Filter :
           /\ Eval(f, s) \in Seq(TermsIn(s))
           /\ Eval(f, s) = EvalStep([g \in Filter |-> Eval(g, s)], f, s)
<1> DEFINE P == Seq(TermsIn(s))
           G == [p \in Filter \X [Filter -> P] |-> EvalStep(p[2], p[1], s)]
<1>1. ASSUME NEW f \in Filter, NEW a \in [Filter -> P]
      PROVE  EvalStep(a, f, s) \in P
  <2>1. \A g \in Filter : a[g] \in Seq(TermsIn(s))
    OBVIOUS
  <2> QED BY <2>1, EvalStepType
<1>2. ASSUME NEW f \in Filter, NEW a \in [Filter -> P], NEW b \in [Filter -> P],
             \A g \in Filter : Weight[g] < Weight[f] => a[g] = b[g]
      PROVE  EvalStep(a, f, s) = EvalStep(b, f, s)
  BY <1>2, EvalStepDepends
<1>3. P # {}
  <2>1. <<>> \in Seq(TermsIn(s))
    OBVIOUS
  <2> QED BY <2>1
<1> HIDE DEF P
<1>4. G \in [Filter \X [Filter -> P] -> P]
  BY <1>1
<1>5. \A f \in Filter : \A a \in [Filter -> P] : G[<<f, a>>] = EvalStep(a, f, s)
  OBVIOUS
<1> HIDE DEF G
<1>6. G \in Steps(Filter, Weight, P)
  BY <1>2, <1>4, <1>5 DEF Steps
<1>7. PICK e \in [Filter -> P] : \A f \in Filter : e[f] = G[<<f, e>>]
  BY <1>3, <1>6, Weights, WeightRecursion
<1> DEFINE d == CHOOSE a : a = [f \in Filter |-> EvalStep(a, f, s)]
<1>8. e = [f \in Filter |-> EvalStep(e, f, s)]
  BY <1>5, <1>7
<1>9. d = [f \in Filter |-> EvalStep(d, f, s)]
  BY <1>8
<1>10. \A f \in Filter : Eval(f, s) = d[f]
  BY DEF Eval
<1> HIDE DEF d
<1>11. d = [g \in Filter |-> Eval(g, s)]
  BY <1>9, <1>10
<1>12. \A f \in Filter : d[f] = EvalStep(d, f, s)
  BY <1>9
<1> DEFINE T == {f \in Filter : d[f] \in Seq(TermsIn(s))}
<1>13. ASSUME NEW f \in Filter, \A g \in Filter : Weight[g] < Weight[f] => g \in T
       PROVE  f \in T
  <2>1. EvalStep(d, f, s) \in Seq(TermsIn(s))
    BY <1>13, EvalStepType
  <2> QED BY <1>12, <2>1
<1>14. Filter \subseteq T
  <2> HIDE DEF T
  <2> QED BY <1>13, Weights, WeightInduction
<1> QED BY <1>10, <1>11, <1>12, <1>14

-----------------------------------------------------------------------------
(* 3. What terms and plans select.                                         *)

(* What a filter accepts in terms of its parts.                            *)
LEMMA AcceptsFacts ==
  ASSUME NEW c, NEW f \in Filter
  PROVE  /\ Is("all", f) => Accepts(c, f)
         /\ Is("exist", f) => (Accepts(c, f) <=> \E p \in TagsOf(c) : p[1] = f[2])
         /\ Is("tag", f) => (Accepts(c, f) <=> <<f[2], f[3]>> \in TagsOf(c))
         /\ Is("not", f) => (Accepts(c, f) <=> ~ Accepts(c, f[2]))
         /\ Is("and", f) => (Accepts(c, f) <=> Accepts(c, f[2]) /\ Accepts(c, f[3]))
         /\ Is("or", f) => (Accepts(c, f) <=> Accepts(c, f[2]) \/ Accepts(c, f[3]))
<1> DEFINE a == [g \in Filter |-> Accepts(c, g)]
<1>1. /\ Accepts(c, f) = AcceptsStep(a, c, f) /\ Accepts(c, f) \in BOOLEAN
      /\ \A g \in Filter : a[g] = Accepts(c, g) /\ Accepts(c, g) \in BOOLEAN
  BY AcceptsDefinition
<1> HIDE DEF a
<1>2. CASE Is("all", f)
  BY <1>1, <1>2 DEF AcceptsStep, Is
<1>3. CASE Is("exist", f)
  BY <1>1, <1>3 DEF AcceptsStep, Is
<1>4. CASE Is("tag", f)
  BY <1>1, <1>4 DEF AcceptsStep, Is
<1>5. CASE Is("not", f)
  <2>1. f[2] \in Filter
    BY <1>5, Shape DEF Lighter
  <2>2. Accepts(c, f) = ~ a[f[2]]
    BY <1>1, <1>5 DEF AcceptsStep, Is
  <2> QED BY <1>1, <1>5, <2>1, <2>2 DEF Is
<1>6. CASE IsPair(f)
  <2>1. f[2] \in Filter /\ f[3] \in Filter
    BY <1>6, Shape DEF Lighter
  <2>2. Is("and", f) => Accepts(c, f) = (a[f[2]] /\ a[f[3]])
    BY <1>1, <1>6 DEF AcceptsStep, Is, IsPair
  <2>3. Is("or", f) => Accepts(c, f) = (a[f[2]] \/ a[f[3]])
    BY <1>1, <1>6 DEF AcceptsStep, Is, IsPair
  <2> QED BY <1>1, <1>6, <2>1, <2>2, <2>3 DEF Is, IsPair
<1>7. f[1] \in {"all", "exist", "tag", "not", "and", "or"}
  BY Shape
<1> QED BY <1>2, <1>3, <1>4, <1>5, <1>6, <1>7 DEF Is, IsPair

(* A filter and what it is rewritten to accept the same candidates.        *)
LEMMA RewrittenFacts ==
  ASSUME NEW c, NEW f \in Filter, IsRewritten(f)
  PROVE  Rewritten(f) \in Filter /\ (Accepts(c, Rewritten(f)) <=> Accepts(c, f))
<1> DEFINE r == Rewritten(f)
<1>1. r \in Filter
  BY Shape DEF Lighter
<1>0. \A h \in Filter : h[1] = "not" => (Accepts(c, h) <=> ~ Accepts(c, h[2]))
  BY AcceptsFacts DEF Is
<1>4. \A h \in Filter :
        /\ h[1] = "and" => (Accepts(c, h) <=> Accepts(c, h[2]) /\ Accepts(c, h[3]))
        /\ h[1] = "or" => (Accepts(c, h) <=> Accepts(c, h[2]) \/ Accepts(c, h[3]))
  BY AcceptsFacts DEF Is
<1>2. CASE Is("not", f)
  <2> DEFINE g == f[2]
  <2>1. g \in Filter /\ (Accepts(c, f) <=> ~ Accepts(c, g))
    BY <1>2, Shape, AcceptsFacts DEF Lighter
  <2>2. CASE Is("not", g)
    <3>1. r = g[2]
      BY <1>2, <2>2 DEF Rewritten, Is
    <3>2. Accepts(c, g) <=> ~ Accepts(c, g[2])
      BY <2>1, <2>2, AcceptsFacts
    <3> QED BY <1>1, <2>1, <3>1, <3>2
  <2>3. CASE Is("and", g)
    <3>1. r = <<"or", <<"not", g[2]>>, <<"not", g[3]>> >>
      BY <1>2, <2>3 DEF Rewritten, Is
    <3>2. r[1] = "or" /\ r[2] = <<"not", g[2]>> /\ r[3] = <<"not", g[3]>>
      BY <3>1
    <3> HIDE DEF r, g
    <3>3. r[2] \in Filter /\ r[3] \in Filter
      BY <1>1, <3>2, Shape DEF Lighter, IsPair
    <3>4. /\ Accepts(c, r) <=> Accepts(c, r[2]) \/ Accepts(c, r[3])
          /\ Accepts(c, g) <=> Accepts(c, g[2]) /\ Accepts(c, g[3])
      BY <1>1, <2>1, <2>3, <3>2, AcceptsFacts DEF Is
    <3>5. r[2][1] = "not" /\ r[3][1] = "not" /\ r[2][2] = g[2] /\ r[3][2] = g[3]
      BY <3>2
    <3>6. /\ Accepts(c, r[2]) <=> ~ Accepts(c, g[2])
          /\ Accepts(c, r[3]) <=> ~ Accepts(c, g[3])
      BY <1>0, <3>3, <3>5
    <3>7. Accepts(c, r) <=> Accepts(c, f)
      BY <2>1, <3>4, <3>6
    <3> QED BY <1>1, <3>7 DEF r
  <2>4. CASE Is("or", g)
    <3>1. r = <<"and", <<"not", g[2]>>, <<"not", g[3]>> >>
      BY <1>2, <2>4 DEF Rewritten, Is
    <3>2. r[1] = "and" /\ r[2] = <<"not", g[2]>> /\ r[3] = <<"not", g[3]>>
      BY <3>1
    <3> HIDE DEF r, g
    <3>3. r[2] \in Filter /\ r[3] \in Filter
      BY <1>1, <3>2, Shape DEF Lighter, IsPair
    <3>4. /\ Accepts(c, r) <=> Accepts(c, r[2]) /\ Accepts(c, r[3])
          /\ Accepts(c, g) <=> Accepts(c, g[2]) \/ Accepts(c, g[3])
      BY <1>1, <2>1, <2>4, <3>2, AcceptsFacts DEF Is
    <3>5. r[2][1] = "not" /\ r[3][1] = "not" /\ r[2][2] = g[2] /\ r[3][2] = g[3]
      BY <3>2
    <3>6. /\ Accepts(c, r[2]) <=> ~ Accepts(c, g[2])
          /\ Accepts(c, r[3]) <=> ~ Accepts(c, g[3])
      BY <1>0, <3>3, <3>5
    <3>7. Accepts(c, r) <=> Accepts(c, f)
      BY <2>1, <3>4, <3>6
    <3> QED BY <1>1, <3>7 DEF r
  <2> QED BY <1>2, <2>2, <2>3, <2>4 DEF IsRewritten, IsPair, Is
<1>3. CASE ~ Is("not", f)
  <2>1. IsPair(f) /\ (IsDoubleNegation(f[2]) \/ IsDoubleNegation(f[3]))
    BY <1>3 DEF IsRewritten
  <2>2. f[2] \in Filter /\ f[3] \in Filter
    BY <2>1, Shape DEF Lighter
  <2>3. ASSUME NEW h \in Filter, IsDoubleNegation(h)
        PROVE  h[2][2] \in Filter /\ (Accepts(c, h[2][2]) <=> Accepts(c, h))
    <3>1. h[2] \in Filter /\ Is("not", h[2])
      BY <2>3, Shape DEF Lighter, IsDoubleNegation
    <3>2. h[2][2] \in Filter
      BY <3>1, Shape DEF Lighter
    <3> QED BY <2>3, <3>1, <3>2, AcceptsFacts DEF IsDoubleNegation
  <2>4. \E a, b \in Filter : /\ r = <<f[1], a, b>>
                             /\ (Accepts(c, a) <=> Accepts(c, f[2]))
                             /\ (Accepts(c, b) <=> Accepts(c, f[3]))
    <3>1. CASE IsDoubleNegation(f[2])
      <4>1. r = <<f[1], f[2][2][2], f[3]>>
        BY <1>3, <3>1 DEF Rewritten
      <4> HIDE DEF r
      <4> QED BY <2>2, <2>3, <3>1, <4>1
    <3>2. CASE ~ IsDoubleNegation(f[2])
      <4>1. r = <<f[1], f[2], f[3][2][2]>>
        BY <1>3, <3>2 DEF Rewritten
      <4> HIDE DEF r
      <4> QED BY <2>1, <2>2, <2>3, <3>2, <4>1
    <3> QED BY <3>1, <3>2
  <2> HIDE DEF r
  <2>5. PICK a, b \in Filter : /\ r = <<f[1], a, b>>
                              /\ (Accepts(c, a) <=> Accepts(c, f[2]))
                              /\ (Accepts(c, b) <=> Accepts(c, f[3]))
    BY <2>4
  <2>6. r[1] = f[1] /\ r[2] = a /\ r[3] = b
    BY <2>5
  <2>7. Accepts(c, r) <=> Accepts(c, f)
    BY <1>1, <1>4, <2>1, <2>5, <2>6 DEF Is, IsPair
  <2> QED BY <1>1, <2>7 DEF r
<1> QED BY <1>2, <1>3

-----------------------------------------------------------------------------
(* What the index returns for a condition of a term.                       *)
Reads(c, f) == IF Is("metric", f) THEN c.metric = f[2] ELSE Accepts(c, f)

(* What a term accepts.                                                    *)
Accepted(c, t) == Reads(c, t.read) /\ \A k \in t.keep : Accepts(c, k)

(* What a plan accepts.                                                    *)
Selected(c, p) == \E t \in Range(p) : Accepted(c, t)

(* One more filter keeps what it accepts of what a plan accepts.           *)
LEMMA FilteredSelects ==
  ASSUME NEW s, NEW c, NEW t \in Seq(TermsIn(s)), NEW f \in Filter
  PROVE  Selected(c, Filtered(t, f)) <=> Selected(c, t) /\ Accepts(c, f)
<1>1. ASSUME NEW i \in DOMAIN t
      PROVE  Accepted(c, Filtered(t, f)[i]) <=> Accepted(c, t[i]) /\ Accepts(c, f)
  <2>1. t[i] \in TermsIn(s)
    OBVIOUS
  <2>2. Filtered(t, f)[i] = [t[i] EXCEPT !.keep = @ \cup {f}]
    BY FilteredFacts
  <2>3. /\ Filtered(t, f)[i].read = t[i].read
        /\ Filtered(t, f)[i].keep = t[i].keep \cup {f}
    BY <2>1, <2>2 DEF TermsIn
  <2> QED BY <2>3 DEF Accepted
<1>2. DOMAIN Filtered(t, f) = DOMAIN t
  BY FilteredFacts
<1> QED BY <1>1, <1>2 DEF Selected, Range

(* A term of one condition accepts what the condition accepts.             *)
LEMMA TermSelects ==
  ASSUME NEW c, NEW f \in Filter, NEW s
  PROVE  Selected(c, <<Term(f, s)>>) <=> Accepts(c, f)
<1>1. Range(<<Term(f, s)>>) = {Term(f, s)}
  BY DEF Range
<1>2. ~ Is("metric", f)
  BY Shape DEF Is
<1>3. Accepted(c, Term(f, s)) <=> Accepts(c, f)
  BY <1>2 DEF Accepted, Term, Reads
<1> QED BY <1>1, <1>3 DEF Selected

(* A concatenation has the elements of both sequences.                     *)
LEMMA RangeOfConcat ==
  ASSUME NEW T, NEW t \in Seq(T), NEW u \in Seq(T)
  PROVE  Range(t \o u) = Range(t) \cup Range(u)
<1>1. /\ Len(t) \in Nat /\ Len(u) \in Nat /\ DOMAIN t = 1 .. Len(t)
      /\ DOMAIN u = 1 .. Len(u) /\ DOMAIN (t \o u) = 1 .. Len(t) + Len(u)
  OBVIOUS
<1>2. ASSUME NEW i \in DOMAIN t PROVE t[i] \in Range(t \o u)
  <2>1. (t \o u)[i] = t[i] /\ i \in 1 .. Len(t) + Len(u)
    BY <1>1
  <2> QED BY <1>1, <2>1 DEF Range
<1>3. ASSUME NEW i \in DOMAIN u PROVE u[i] \in Range(t \o u)
  <2>1. (t \o u)[Len(t) + i] = u[i] /\ Len(t) + i \in 1 .. Len(t) + Len(u)
    BY <1>1
  <2> QED BY <1>1, <2>1 DEF Range
<1>4. ASSUME NEW i \in 1 .. Len(t) + Len(u)
      PROVE  (t \o u)[i] \in Range(t) \cup Range(u)
  <2>1. CASE i \in 1 .. Len(t)
    BY <1>1, <2>1 DEF Range
  <2>2. CASE i \notin 1 .. Len(t)
    <3>1. (t \o u)[i] = u[i - Len(t)] /\ i - Len(t) \in 1 .. Len(u)
      BY <1>1, <2>2
    <3> QED BY <1>1, <3>1 DEF Range
  <2> QED BY <2>1, <2>2
<1>5. \A x \in Range(t \o u) : x \in Range(t) \cup Range(u)
  BY <1>1, <1>4 DEF Range
<1>6. \A x \in Range(t) \cup Range(u) : x \in Range(t \o u)
  BY <1>2, <1>3 DEF Range
<1> QED BY <1>5, <1>6

(* The plan of a filter accepts what the filter accepts, whatever cases    *)
(* its evaluation goes through.                                            *)
LEMMA EvalSelects ==
  ASSUME NEW s, NEW c
  PROVE  \A f \in Filter : Selected(c, Eval(f, s)) <=> Accepts(c, f)
<1> DEFINE T == {f \in Filter : Selected(c, Eval(f, s)) <=> Accepts(c, f)}
           e == [g \in Filter |-> Eval(g, s)]
<1>1. ASSUME NEW f \in Filter, \A g \in Filter : Weight[g] < Weight[f] => g \in T
      PROVE  f \in T
  <2>1. /\ Eval(f, s) = EvalStep(e, f, s)
        /\ \A g \in Filter : e[g] \in Seq(TermsIn(s))
        /\ \A g \in Filter : Weight[g] < Weight[f] =>
             (Selected(c, e[g]) <=> Accepts(c, g))
    BY <1>1, EvalDefinition
  <2> HIDE DEF e
  <2> SUFFICES Selected(c, EvalStep(e, f, s)) <=> Accepts(c, f)
    BY <2>1
  <2>2. CASE IsIndexed(f) \/ Is("all", f)
    <3>1. EvalStep(e, f, s) = <<Term(f, s)>>
      BY <2>2 DEF EvalStep
    <3> QED BY <3>1, TermSelects
  <2>3. CASE ~ (IsIndexed(f) \/ Is("all", f)) /\ IsRewritten(f)
    <3>1. EvalStep(e, f, s) = e[Rewritten(f)]
      BY <2>3 DEF EvalStep
    <3>2. Lighter(Rewritten(f), f)
      BY <2>3, Shape
    <3> QED BY <2>1, <2>3, <3>1, <3>2, RewrittenFacts DEF Lighter
  <2>4. CASE ~ (IsIndexed(f) \/ Is("all", f)) /\ ~ IsRewritten(f) /\ Is("not", f)
    <3>1. CASE Is("all", f[2])
      <4>1. EvalStep(e, f, s) = <<>>
        BY <2>4, <3>1 DEF EvalStep
      <4>2. ~ Selected(c, <<>>)
        BY DEF Selected, Range
      <4>3. f[2] \in Filter
        BY <2>4, Shape DEF Lighter
      <4>4. Accepts(c, f[2]) /\ (Accepts(c, f) <=> ~ Accepts(c, f[2]))
        BY <2>4, <3>1, <4>3, AcceptsFacts
      <4> QED BY <4>1, <4>2, <4>4
    <3>2. CASE ~ Is("all", f[2])
      <4>1. EvalStep(e, f, s) = Filtered(<<Term(<<"all">>, s)>>, f)
        BY <2>4, <3>2 DEF EvalStep
      <4>2. <<"all">> \in Filter /\ Accepts(c, <<"all">>)
        <5>1. <<"all">> \in Filter /\ Is("all", <<"all">>)
          BY FilterAssumption DEF Is
        <5> QED BY <5>1, AcceptsFacts
      <4>3. <<Term(<<"all">>, s)>> \in Seq(TermsIn(s))
        BY <4>2, TermFacts
      <4>4. Selected(c, <<Term(<<"all">>, s)>>)
        BY <4>2, TermSelects
      <4> QED BY <4>1, <4>3, <4>4, FilteredSelects
    <3> QED BY <3>1, <3>2
  <2>5. CASE ~ (IsIndexed(f) \/ Is("all", f)) /\ ~ IsRewritten(f) /\ IsPair(f)
    <3> DEFINE a == f[2]
               b == f[3]
               left == Filtered(e[a], b)
               right == Filtered(e[b], a)
    <3>1. a \in Filter /\ b \in Filter /\ Lighter(a, f) /\ Lighter(b, f)
      BY <2>5, Shape DEF Lighter
    <3>2. /\ e[a] \in Seq(TermsIn(s)) /\ e[b] \in Seq(TermsIn(s))
          /\ Selected(c, e[a]) <=> Accepts(c, a)
          /\ Selected(c, e[b]) <=> Accepts(c, b)
      BY <2>1, <3>1 DEF Lighter
    <3>3. /\ Selected(c, left) <=> Accepts(c, a) /\ Accepts(c, b)
          /\ Selected(c, right) <=> Accepts(c, a) /\ Accepts(c, b)
      BY <3>1, <3>2, FilteredSelects
    <3>4. Is("all", a) => a = <<"all">> /\ Accepts(c, a)
      BY <3>1, Shape, AcceptsFacts
    <3>5. Is("all", b) => b = <<"all">> /\ Accepts(c, b)
      BY <3>1, Shape, AcceptsFacts
    <3>6. ~ Is("not", f)
      BY <2>5 DEF Is, IsPair
    <3>7. CASE Is("and", f)
      <4>1. Accepts(c, f) <=> Accepts(c, a) /\ Accepts(c, b)
        BY <3>7, AcceptsFacts
      <4>2. \/ EvalStep(e, f, s) \in {left, right}
            \/ Is("all", b) /\ EvalStep(e, f, s) = e[a]
            \/ Is("all", a) /\ EvalStep(e, f, s) = e[b]
        BY <2>5, <3>6, <3>7 DEF EvalStep
      <4> HIDE DEF left, right, a, b
      <4> QED BY <3>2, <3>3, <3>4, <3>5, <4>1, <4>2
    <3>8. CASE ~ Is("and", f)
      <4>1. Accepts(c, f) <=> Accepts(c, a) \/ Accepts(c, b)
        BY <2>5, <3>8, AcceptsFacts DEF Is, IsPair
      <4>2. CASE Is("all", a) \/ Is("all", b)
        <5>1. EvalStep(e, f, s) = e[<<"all">>]
          BY <2>5, <3>6, <3>8, <4>2 DEF EvalStep
        <5> HIDE DEF a, b
        <5> QED BY <3>2, <3>4, <3>5, <4>1, <4>2, <5>1
      <4>3. CASE ~ (Is("all", a) \/ Is("all", b))
        <5>1. EvalStep(e, f, s) = e[a] \o e[b]
          BY <2>5, <3>6, <3>8, <4>3 DEF EvalStep
        <5> HIDE DEF a, b
        <5>2. Range(e[a] \o e[b]) = Range(e[a]) \cup Range(e[b])
          BY <3>2, RangeOfConcat
        <5>3. Selected(c, e[a] \o e[b]) <=> Selected(c, e[a]) \/ Selected(c, e[b])
          BY <5>2 DEF Selected
        <5> QED BY <3>2, <4>1, <5>1, <5>3
      <4> QED BY <4>2, <4>3
    <3> QED BY <3>7, <3>8
  <2> QED BY <2>2, <2>3, <2>4, <2>5, Shape DEF Is, IsIndexed, IsPair
<1>2. Filter \subseteq T
  <2> HIDE DEF T
  <2> QED BY <1>1, Weights, WeightInduction
<1> QED BY <1>2

(* A sequence of sequences, flattened, has the elements of all of them.    *)
LEMMA RangeOfFlatten ==
  ASSUME NEW T, NEW ss \in Seq(Seq(T))
  PROVE  /\ FlattenSeq(ss) \in Seq(T)
         /\ \A x : x \in Range(FlattenSeq(ss)) <=> \E i \in DOMAIN ss : x \in Range(ss[i])
<1> DEFINE N == Len(ss)
           S == Seq(T)
           Up(f, i) == IF i = 1 THEN ss[i] ELSE f[i - 1] \o ss[i]
           Upto(n) == {f \in [1 .. n -> S] : \A i \in 1 .. n : f[i] = Up(f, i)}
           A == {n \in Nat : n <= N => Upto(n) # {}}
<1>0. /\ N \in Nat /\ DOMAIN ss = 1 .. N /\ \A i \in 1 .. N : ss[i] \in S
      /\ \A s, t \in S : s \o t \in S
  OBVIOUS
<1> HIDE DEF S, N
<1>1. 0 \in A
  <2>1. [i \in 1 .. 0 |-> <<>>] \in Upto(0)
    OBVIOUS
  <2>2. Upto(0) # {}
    BY <2>1
  <2> HIDE DEF Upto
  <2> QED BY <2>2
<1>2. ASSUME NEW n \in Nat, n \in A PROVE n + 1 \in A
  <2> SUFFICES ASSUME n + 1 <= N PROVE Upto(n + 1) # {}
    OBVIOUS
  <2>1. PICK f \in [1 .. n -> S] : \A i \in 1 .. n : f[i] = Up(f, i)
    BY <1>0, <1>2
  <2> DEFINE g == [i \in 1 .. n + 1 |-> IF i = n + 1 THEN Up(f, i) ELSE f[i]]
  <2>2. Up(f, n + 1) \in S
    <3>1. n + 1 \in 1 .. N /\ (n # 0 => n \in 1 .. n)
      BY <1>0
    <3> QED BY <1>0, <3>1
  <2>3. g \in [1 .. n + 1 -> S]
    BY <2>2
  <2>4. ASSUME NEW i \in 1 .. n + 1 PROVE g[i] = Up(g, i)
    <3>1. i # 1 => i - 1 \in 1 .. n /\ i - 1 \in 1 .. n + 1 /\ g[i - 1] = f[i - 1]
      OBVIOUS
    <3>2. i # n + 1 => i \in 1 .. n
      OBVIOUS
    <3>3. g[i] = IF i = n + 1 THEN Up(f, i) ELSE f[i]
      OBVIOUS
    <3> HIDE DEF g
    <3> QED BY <2>1, <3>1, <3>2, <3>3
  <2> HIDE DEF g
  <2>5. g \in Upto(n + 1)
    BY <2>3, <2>4
  <2> QED BY <2>5
<1>3. N \in A
  <2> HIDE DEF A
  <2> QED BY <1>0, <1>1, <1>2, Induction
<1>4. PICK h \in [1 .. N -> S] : \A i \in 1 .. N : h[i] = Up(h, i)
  BY <1>0, <1>3
<1> DEFINE F == CHOOSE f : f = [i \in 1 .. N |-> Up(f, i)]
<1>5. h = [i \in 1 .. N |-> Up(h, i)]
  BY <1>4
<1>6. F = [i \in 1 .. N |-> Up(F, i)]
  BY <1>5
<1>7. FlattenSeq(ss) = IF N = 0 THEN ss ELSE F[N]
  BY DEF FlattenSeq, N
<1> HIDE DEF F
<1>8. \A i \in 1 .. N : F[i] = Up(F, i)
  BY <1>6
<1> DEFINE B == {n \in Nat : n \in 1 .. N =>
                   /\ F[n] \in S
                   /\ \A x : x \in Range(F[n]) <=> \E i \in 1 .. n : x \in Range(ss[i])}
<1>9. 0 \in B
  OBVIOUS
<1>10. ASSUME NEW n \in Nat, n \in B PROVE n + 1 \in B
  <2> SUFFICES ASSUME n + 1 \in 1 .. N
               PROVE  /\ F[n + 1] \in S
                      /\ \A x : x \in Range(F[n + 1])
                                <=> \E i \in 1 .. n + 1 : x \in Range(ss[i])
    OBVIOUS
  <2>1. CASE n = 0
    <3>1. F[n + 1] = ss[1] /\ ss[1] \in S /\ 1 .. n + 1 = {1}
      BY <1>0, <1>8, <2>1
    <3> QED BY <3>1
  <2>2. CASE n # 0
    <3>1. n \in 1 .. N /\ n + 1 # 1 /\ (n + 1) - 1 = n
      BY <1>0, <2>2
    <3>2. F[n + 1] = F[n] \o ss[n + 1]
      BY <1>8, <3>1
    <3>3. /\ F[n] \in S /\ ss[n + 1] \in S
          /\ \A x : x \in Range(F[n]) <=> \E i \in 1 .. n : x \in Range(ss[i])
      BY <1>0, <1>10, <3>1
    <3>4. Range(F[n] \o ss[n + 1]) = Range(F[n]) \cup Range(ss[n + 1])
      BY <3>3, RangeOfConcat DEF S
    <3>5. 1 .. n + 1 = (1 .. n) \cup {n + 1}
      OBVIOUS
    <3>6. F[n + 1] \in S
      BY <1>0, <3>2, <3>3
    <3> QED BY <3>2, <3>3, <3>4, <3>5, <3>6
  <2> QED BY <2>1, <2>2
<1>11. Nat \subseteq B
  <2> HIDE DEF B
  <2> QED BY <1>9, <1>10, Induction
<1>12. CASE N = 0
  <2>1. ss = <<>> /\ FlattenSeq(ss) = <<>>
    BY <1>0, <1>7, <1>12 DEF N
  <2>2. /\ <<>> \in Seq(T)
        /\ \A x : x \notin Range(<<>>)
        /\ DOMAIN ss = {}
    BY <2>1 DEF Range
  <2> QED BY <2>1, <2>2
<1>13. CASE N # 0
  <2>1. N \in 1 .. N /\ N \in B
    <3> HIDE DEF B
    <3> QED BY <1>0, <1>11, <1>13
  <2> QED BY <1>0, <1>7, <1>13, <2>1 DEF S
<1> QED BY <1>12, <1>13

-----------------------------------------------------------------------------
(* 4. Queries.                                                             *)

(* The terms of the plans of queries.                                      *)
QueryTerm ==
  [read : Filter \cup ({"metric"} \X Metric), scope : Scope, keep : SUBSET Filter]

Candidates == [metric : Metric, static : Tagset, tags : Tagset]

(* What a query asks for.                                                  *)
Wanted(c, q) == q.metric \in {None, c.metric} /\ Accepts(c, q.filter)

(* A series as it is found now, and the candidates that stand for it.      *)
Found(x) == Candidate(x, Static(x.metric))
StandsFor(d, x) == d.metric = x.metric /\ d.tags = x.tags

(* The metrics whose static tags did not change during the query.          *)
Steady == Metric \ touched

QueryTypes ==
  /\ SearchTypeOK
  /\ plan \in Seq(QueryTerm)
  /\ step # "idle" => asked \in Query

(* What a query has under way at each of its steps.                        *)
StepsOfTerm ==
  /\ step \notin {"series", "static"} => metrics = {} /\ got = {} /\ candidates = {}
  /\ step \in {"series", "static"} => plan # <<>>
  /\ step = "series" => IsIndexed(Head(plan).read) /\ candidates = {}
  /\ step = "idle" => found = {}
  /\ step = "answered" => plan = <<>>

SteadyView ==
  step # "idle" => \A m \in Steady : InView(m) = Pairs(Static(m))

(* The rest of the plan accepts nothing but what the query asks for.       *)
PlanSound ==
  step # "idle" =>
    \A i \in DOMAIN plan : \A c \in Candidates :
      Accepted(c, plan[i]) => Wanted(c, asked)

(* What has been read so far is what the term reads, and what has been     *)
(* found is what the query asks for.                                       *)
Sound ==
  /\ step = "series" =>
       \A m \in metrics \cap Steady :
         \E p \in Pairs(Static(m)) : Selects(Head(plan).read, p)
  /\ \A x \in Series : x.metric \in Steady =>
       /\ x \in got => Reads(Found(x), Head(plan).read)
       /\ \A d \in candidates :
            StandsFor(d, x) => d = Found(x) /\ Reads(d, Head(plan).read)
       /\ \A d \in found : StandsFor(d, x) => d = Found(x) /\ Wanted(d, asked)

(* The first term has read x, or is still to read it.                      *)
Reached(x) ==
  /\ step = "series" =>
       \/ x \in got
       \/ x.metric \in metrics
       \/ \E p \in Pairs(x.tags) : Selects(Head(plan).read, p)
  /\ step = "static" => x \in got /\ (x.metric \in metrics \/ Found(x) \in candidates)

(* What the query asks for has been found, or one of the remaining terms   *)
(* will find it.                                                           *)
Complete ==
  step \notin {"idle", "failed"} =>
    \A x \in known : x.metric \in Steady /\ Wanted(Found(x), asked) =>
      \/ Found(x) \in found
      \/ \E i \in DOMAIN plan :
           /\ Indexed(plan[i].scope, x)
           /\ Accepted(Found(x), plan[i])
           /\ i = 1 => Reached(x)

QueryInv ==
  /\ QueryTypes /\ StepsOfTerm /\ SteadyView
  /\ PlanSound /\ Sound /\ Complete

(* The plan of a query in a scope reads that scope, and accepts what the   *)
(* query asks for.                                                         *)
LEMMA PlanInFacts ==
  ASSUME NEW q \in Query, NEW s \in Scope
  PROVE  /\ PlanIn(q, s) \in Seq(QueryTerm)
         /\ \A t \in Range(PlanIn(q, s)) : t.scope = s
         /\ \A c : Selected(c, PlanIn(q, s)) <=> Wanted(c, q)
<1>1. q.metric \in Metric \cup {None} /\ q.filter \in Filter /\ None \notin Metric
  BY SearchAssumption
<1>2. CASE q.metric = None
  <2>1. PlanIn(q, s) = Eval(q.filter, s)
    BY <1>2 DEF PlanIn
  <2>2. Eval(q.filter, s) \in Seq(TermsIn(s))
    BY <1>1, EvalDefinition
  <2>3. \A t \in TermsIn(s) : t \in QueryTerm /\ t.scope = s
    BY DEF TermsIn, QueryTerm
  <2>4. \A t \in Range(Eval(q.filter, s)) : t \in TermsIn(s)
    BY <2>2 DEF Range
  <2>5. Eval(q.filter, s) \in Seq(QueryTerm)
    BY <2>2, <2>3
  <2>6. \A c : Selected(c, Eval(q.filter, s)) <=> Wanted(c, q)
    BY <1>1, <1>2, EvalSelects DEF Wanted
  <2> QED BY <2>1, <2>3, <2>4, <2>5, <2>6
<1>3. CASE q.metric # None
  <2> DEFINE t == [read |-> <<"metric", q.metric>>, scope |-> s, keep |-> {q.filter}]
  <2>1. PlanIn(q, s) = <<t>>
    BY <1>3 DEF PlanIn
  <2>2. t \in QueryTerm /\ t.scope = s
    BY <1>1, <1>3 DEF QueryTerm
  <2>3. \A c : Accepted(c, t) <=> Wanted(c, q)
    BY <1>3 DEF Accepted, Reads, Wanted, Is
  <2> HIDE DEF t
  <2>4. Range(<<t>>) = {t} /\ <<t>> \in Seq(QueryTerm)
    BY <2>2 DEF Range
  <2> QED BY <2>1, <2>2, <2>3, <2>4 DEF Selected
<1> QED BY <1>2, <1>3

(* The plan of a query accepts nothing but what the query asks for, and    *)
(* accepts that in each of its scopes.                                     *)
LEMMA PlanFacts ==
  ASSUME NEW q \in Query
  PROVE  /\ PlanOf(q) \in Seq(QueryTerm)
         /\ \A i \in DOMAIN PlanOf(q) : \A c :
              Accepted(c, PlanOf(q)[i]) => Wanted(c, q)
         /\ \A j \in DOMAIN q.scopes : \A c : Wanted(c, q) =>
              \E i \in DOMAIN PlanOf(q) :
                PlanOf(q)[i].scope = q.scopes[j] /\ Accepted(c, PlanOf(q)[i])
<1> DEFINE ss == [i \in DOMAIN q.scopes |-> PlanIn(q, q.scopes[i])]
<1>1. q.scopes \in Seq(Scope)
  BY SearchAssumption
<1>2. \A i \in DOMAIN q.scopes : /\ q.scopes[i] \in Scope
                                 /\ ss[i] = PlanIn(q, q.scopes[i])
                                 /\ ss[i] \in Seq(QueryTerm)
  BY <1>1, PlanInFacts
<1>3. ss \in Seq(Seq(QueryTerm)) /\ DOMAIN ss = DOMAIN q.scopes
  <2> DEFINE S == Seq(QueryTerm)
  <2>1. /\ DOMAIN q.scopes = 1 .. Len(q.scopes) /\ Len(q.scopes) \in Nat
        /\ DOMAIN ss = DOMAIN q.scopes
    BY <1>1
  <2>2. ss \in [1 .. Len(q.scopes) -> S]
    BY <1>2, <2>1
  <2> HIDE DEF S, ss
  <2>3. ss \in Seq(S)
    BY <2>1, <2>2
  <2> QED BY <2>1, <2>3 DEF S
<1>4. PlanOf(q) = FlattenSeq(ss)
  BY DEF PlanOf
<1> HIDE DEF ss
<1>5. /\ PlanOf(q) \in Seq(QueryTerm)
      /\ \A t : t \in Range(PlanOf(q)) <=> \E j \in DOMAIN q.scopes : t \in Range(ss[j])
  BY <1>3, <1>4, RangeOfFlatten
<1>6. ASSUME NEW i \in DOMAIN PlanOf(q), NEW c, Accepted(c, PlanOf(q)[i])
      PROVE  Wanted(c, q)
  <2>1. PICK j \in DOMAIN q.scopes : PlanOf(q)[i] \in Range(ss[j])
    BY <1>5 DEF Range
  <2>2. Selected(c, PlanIn(q, q.scopes[j]))
    BY <1>2, <1>6, <2>1 DEF Selected
  <2> QED BY <1>2, <2>2, PlanInFacts
<1>7. ASSUME NEW j \in DOMAIN q.scopes, NEW c, Wanted(c, q)
      PROVE  \E i \in DOMAIN PlanOf(q) :
               PlanOf(q)[i].scope = q.scopes[j] /\ Accepted(c, PlanOf(q)[i])
  <2>1. Selected(c, ss[j]) /\ \A t \in Range(ss[j]) : t.scope = q.scopes[j]
    BY <1>2, <1>7, PlanInFacts
  <2>2. PICK t \in Range(ss[j]) : Accepted(c, t) /\ t.scope = q.scopes[j]
    BY <2>1 DEF Selected
  <2>3. t \in Range(PlanOf(q))
    BY <1>5, <2>2
  <2>4. PICK i \in DOMAIN PlanOf(q) : PlanOf(q)[i] = t
    BY <2>3 DEF Range
  <2> QED BY <2>2, <2>4
<1> QED BY <1>5, <1>6, <1>7

-----------------------------------------------------------------------------
(* What a metric has at any time is a tagset.                              *)
LEMMA StaticFacts ==
  ASSUME TypeOK, NEW m \in Metric
  PROVE  Static(m) \in Tagset
<1>1. Present(m) \subseteq Name /\ Static(m) = [n \in Present(m) |-> cells[m][n].value]
  BY DEF Static, Present
<1>2. \A n \in Name : cells[m][n].value \in Value
  BY DEF TypeOK
<1>3. Static(m) \in [Present(m) -> Value]
  BY <1>1, <1>2
<1> QED BY <1>1, <1>3 DEF Tagset

(* The candidate that stands for a series.                                 *)
LEMMA FoundFacts ==
  ASSUME TypeOK, NEW x \in Series
  PROVE  /\ x.metric \in Metric /\ x.tags \in Tagset
         /\ Found(x) \in Candidates
         /\ Found(x).metric = x.metric /\ Found(x).tags = x.tags
         /\ Found(x).static = Static(x.metric)
         /\ TagsOf(Found(x)) = Pairs(Static(x.metric)) \cup Pairs(x.tags)
         /\ \A y \in Series : y.metric = x.metric /\ y.tags = x.tags => y = x
<1>1. x \in [metric : Metric, tags : Tagset]
      /\ \A y \in Series : y \in [metric : Metric, tags : Tagset]
  BY SearchAssumption
<1>2. x.metric \in Metric /\ x.tags \in Tagset /\ Static(x.metric) \in Tagset
  BY <1>1, StaticFacts
<1>3. \A y \in Series : y.metric = x.metric /\ y.tags = x.tags => y = x
  BY <1>1
<1> QED BY <1>2, <1>3 DEF Found, Candidate, Candidates, TagsOf

(* A candidate meets a condition on tags if one of its tags does.          *)
LEMMA IndexedReads ==
  ASSUME NEW c, NEW f \in Filter, IsIndexed(f)
  PROVE  Reads(c, f) <=> \E p \in TagsOf(c) : Selects(f, p)
<1>1. \A p \in TagsOf(c) : p = <<p[1], p[2]>>
  BY DEF TagsOf, Pairs
<1>2. Reads(c, f) <=> Accepts(c, f)
  BY DEF Reads, IsIndexed, Is
<1>3. CASE Is("exist", f)
  <2>1. Accepts(c, f) <=> \E p \in TagsOf(c) : p[1] = f[2]
    BY <1>3, AcceptsFacts
  <2>2. \A p : Selects(f, p) <=> p[1] = f[2]
    BY <1>3 DEF Selects, Is
  <2> QED BY <1>2, <2>1, <2>2
<1>4. CASE Is("tag", f)
  <2>1. Accepts(c, f) <=> <<f[2], f[3]>> \in TagsOf(c)
    BY <1>4, AcceptsFacts
  <2>2. \A p : Selects(f, p) <=> p[1] = f[2] /\ p[2] = f[3]
    BY <1>4 DEF Selects, Is
  <2>3. <<f[2], f[3]>>[1] = f[2] /\ <<f[2], f[3]>>[2] = f[3]
    OBVIOUS
  <2> QED BY <1>1, <1>2, <2>1, <2>2, <2>3
<1> QED BY <1>3, <1>4 DEF IsIndexed, Is

-----------------------------------------------------------------------------
(* The sets of the invariant are of the declared types.                    *)
LEMMA QueryFacts ==
  ASSUME QueryInv
  PROVE  /\ QueryTypes /\ StepsOfTerm /\ SteadyView /\ PlanSound /\ Sound /\ Complete
         /\ SearchTypeOK /\ TypeOK /\ plan \in Seq(QueryTerm)
         /\ known \subseteq Series /\ got \subseteq Series /\ metrics \subseteq Metric
         /\ touched \subseteq Metric
         /\ candidates \subseteq Candidates /\ found \subseteq Candidates
         /\ \A i \in DOMAIN plan : plan[i] \in QueryTerm
BY DEF QueryInv, QueryTypes, SearchTypeOK, Candidates

(* The first term of a plan, and those after it.                           *)
LEMMA HeadFacts ==
  ASSUME NEW T, NEW p \in Seq(T), p # <<>>
  PROVE  /\ Head(p) = p[1] /\ Head(p) \in T /\ 1 \in DOMAIN p
         /\ Tail(p) \in Seq(T)
         /\ \A i \in DOMAIN Tail(p) : Tail(p)[i] = p[i + 1] /\ i + 1 \in DOMAIN p
         /\ \A i \in DOMAIN p \ {1} : i - 1 \in DOMAIN Tail(p) /\ Tail(p)[i - 1] = p[i]
<1>1. Len(p) \in Nat \ {0} /\ DOMAIN p = 1 .. Len(p)
  OBVIOUS
<1>2. Tail(p) \in Seq(T) /\ Len(Tail(p)) = Len(p) - 1
      /\ DOMAIN Tail(p) = 1 .. Len(p) - 1
      /\ \A i \in 1 .. Len(p) - 1 : Tail(p)[i] = p[i + 1]
  BY <1>1
<1>3. Head(p) = p[1] /\ p[1] \in T /\ 1 \in DOMAIN p
  BY <1>1
<1>4. \A i \in 1 .. Len(p) - 1 : i + 1 \in 1 .. Len(p)
  BY <1>1
<1>5. \A i \in (1 .. Len(p)) \ {1} : i - 1 \in 1 .. Len(p) - 1 /\ (i - 1) + 1 = i
  BY <1>1
<1> QED BY <1>1, <1>2, <1>3, <1>4, <1>5

(* Candidates depend on static tags alone.                                 *)
LEMMA FoundSame ==
  ASSUME NEW x, Static(x.metric)' = Static(x.metric)
  PROVE  Found(x)' = Found(x)
BY DEF Found, Candidate

(* The types hold initially, and every step keeps them.                    *)
LEMMA QueryTypesInductive ==
  (SearchInit => QueryTypes) /\ (QueryTypes /\ [SearchNext]_vars => QueryTypes')
<1>1. ASSUME SearchInit PROVE QueryTypes
  <2>1. TypeOK
    BY <1>1, TypeIsInductive DEF SearchInit
  <2>2. direct \subseteq Scope \X Series /\ reverse \subseteq Scope \X Series \X Name
    BY <1>1 DEF SearchInit
  <2>3. asked.scopes \in Seq(Scope) /\ plan = <<>> /\ plan \in Seq(QueryTerm)
    BY <1>1 DEF SearchInit
  <2>4. \A i \in DOMAIN plan : plan[i].scope \in Scope
    BY <2>3
  <2> QED BY <1>1, <2>1, <2>2, <2>3, <2>4 DEF SearchInit, QueryTypes, SearchTypeOK
<1>2. ASSUME QueryTypes, [SearchNext]_vars PROVE QueryTypes'
  <2>0. /\ TypeOK /\ direct \subseteq Scope \X Series
        /\ reverse \subseteq Scope \X Series \X Name
        /\ asked.scopes \in Seq(Scope) /\ plan \in Seq(QueryTerm)
        /\ step \in {"idle", "read", "series", "static", "answered", "failed"}
        /\ metrics \subseteq Metric /\ got \subseteq Series /\ known \subseteq Series
        /\ candidates \cup found \subseteq Candidates
        /\ touched \subseteq Metric
        /\ step # "idle" => asked \in Query
    BY <1>2 DEF QueryTypes, SearchTypeOK, Candidates
  <2>t. \A p \in Seq(QueryTerm) : \A i \in DOMAIN p : p[i].scope \in Scope
    <3>1. ASSUME NEW p \in Seq(QueryTerm), NEW i \in DOMAIN p PROVE p[i].scope \in Scope
      <4>1. p[i] \in QueryTerm
        OBVIOUS
      <4> QED BY <4>1 DEF QueryTerm
    <3> QED BY <3>1
  <2>1. ASSUME UNCHANGED staticVars PROVE TypeOK'
    BY <2>0, <2>1, TypeIsInductive
  <2>s. \A x \in Series : x.metric \in Metric
    BY <2>0, FoundFacts
  <2>2. ASSUME NEW q \in Query, Ask(q) PROVE QueryTypes'
    <3>1. PlanOf(q) \in Seq(QueryTerm) /\ q.scopes \in Seq(Scope)
      BY PlanFacts, SearchAssumption
    <3>2. TypeOK'
      BY <2>1, <2>2 DEF Ask
    <3> QED BY <2>0, <2>t, <2>2, <3>1, <3>2 DEF Ask, QueryTypes, SearchTypeOK, Candidates
  <2>3. CASE ReadView
    <3>1. TypeOK'
      BY <2>1, <2>3 DEF ReadView
    <3> QED BY <2>0, <2>t, <2>3, <3>1
      DEF ReadView, QueryTypes, SearchTypeOK, Candidates
  <2>4. ASSUME NEW m \in Metric, ReadSeriesOf(m) PROVE QueryTypes'
    <3>1. TypeOK'
      BY <2>1, <2>4 DEF ReadSeriesOf
    <3> QED BY <2>0, <2>t, <2>4, <3>1
      DEF ReadSeriesOf, DirectOf, QueryTypes, SearchTypeOK, Candidates
  <2>5. ASSUME NEW S \in SUBSET Series, Got(S), step # "idle" PROVE QueryTypes'
    <3>1. TypeOK'
      BY <2>1, <2>5 DEF Got
    <3>2. metrics' \subseteq Metric
      BY <2>s, <2>5 DEF Got
    <3>3. /\ got' = S /\ step' = "static" /\ direct' = direct /\ reverse' = reverse
          /\ asked' = asked /\ plan' = plan /\ candidates' = candidates
          /\ found' = found /\ known' = known /\ touched' = touched
          /\ step # "idle"
      BY <2>5 DEF Got
    <3> QED BY <2>0, <2>t, <2>5, <3>1, <3>2, <3>3 DEF QueryTypes, SearchTypeOK, Candidates
  <2>6. CASE ReadReverse \/ ReadMetric \/ ReadAll
    <3>1. PICK S \in SUBSET Series : Got(S) /\ step # "idle"
      BY <2>0, <2>6 DEF ReadReverse, ReadMetric, ReadAll, DirectOf, ReverseOf
    <3> QED BY <2>5, <3>1
  <2>7. CASE ReadAllOfShard \/ Reply
    <3>1. TypeOK'
      BY <2>1, <2>7 DEF ReadAllOfShard, Reply
    <3> QED BY <2>0, <2>t, <2>7, <3>1
      DEF ReadAllOfShard, Reply, QueryTypes, SearchTypeOK, Candidates
  <2>8. ASSUME NEW m \in Metric, ReadStaticOf(m) PROVE QueryTypes'
    <3>1. TypeOK'
      BY <2>1, <2>8 DEF ReadStaticOf
    <3>2. candidates' \subseteq Candidates
      <4>1. ASSUME NEW x \in Series, x.metric = m
            PROVE  Candidate(x, Static(m)) \in Candidates
        BY <2>0, <4>1, FoundFacts DEF Found
      <4> QED BY <2>0, <2>8, <4>1 DEF ReadStaticOf
    <3> QED BY <2>0, <2>t, <2>8, <3>1, <3>2
      DEF ReadStaticOf, QueryTypes, SearchTypeOK, Candidates
  <2>9. CASE EndTerm
    <3>1. TypeOK'
      BY <2>1, <2>9 DEF EndTerm
    <3>2. Tail(plan) \in Seq(QueryTerm)
      <4>1. CASE plan = <<>>
        BY <4>1
      <4>2. CASE plan # <<>>
        BY <2>0, <4>2
      <4> QED BY <4>1, <4>2
    <3> QED BY <2>0, <2>t, <2>9, <3>1, <3>2
      DEF EndTerm, Keep, QueryTypes, SearchTypeOK, Candidates
  <2>10. CASE ChangeTags
    <3>1. TypeOK'
      BY <2>0, <2>10, TypeIsInductive DEF ChangeTags
    <3> QED BY <2>0, <2>t, <2>10, <3>1
      DEF ChangeTags, queryVars, QueryTypes, SearchTypeOK, Candidates
  <2>11. ASSUME NEW s \in Scope, NEW x \in Series,
                InsertDirect(s, x) \/ \E n \in Name : InsertReverse(s, x, n)
         PROVE  QueryTypes'
    <3>1. TypeOK'
      BY <2>1, <2>11 DEF InsertDirect, InsertReverse
    <3>2. UNCHANGED <<queryVars, touched>>
      BY <2>11 DEF InsertDirect, InsertReverse
    <3>3. direct' \subseteq Scope \X Series /\ reverse' \subseteq Scope \X Series \X Name
      <4>1. CASE InsertDirect(s, x)
        BY <2>0, <4>1 DEF InsertDirect
      <4>2. ASSUME NEW n \in Name, InsertReverse(s, x, n)
            PROVE  direct' = direct /\ reverse' = reverse \cup {<<s, x, n>>}
        BY <4>2 DEF InsertReverse
      <4> QED BY <2>0, <2>11, <4>1, <4>2
    <3> QED BY <2>0, <2>t, <3>1, <3>2, <3>3
      DEF queryVars, QueryTypes, SearchTypeOK, Candidates
  <2>12. CASE UNCHANGED vars
    <3>1. TypeOK'
      BY <2>1, <2>12 DEF vars
    <3> QED BY <2>0, <2>t, <2>12, <3>1
      DEF vars, queryVars, QueryTypes, SearchTypeOK, Candidates
  <2> QED
    BY <1>2, <2>2, <2>3, <2>4, <2>6, <2>7, <2>8, <2>9, <2>10, <2>11, <2>12
      DEF SearchNext, QueryStep
<1> QED BY <1>1, <1>2

(* The types that TLC checks are the types of the model.                   *)
THEOREM SearchTypeCorrect == SearchSpec => []SearchTypeOK
<1>1. QueryTypes => SearchTypeOK
  BY DEF QueryTypes
<1> QED BY <1>1, QueryTypesInductive, PTL DEF SearchSpec

(* A query step leaves the static tags, and the view, as they are.         *)
LEMMA SameTags ==
  ASSUME UNCHANGED staticVars
  PROVE  /\ \A m : Static(m)' = Static(m) /\ InView(m)' = InView(m)
         /\ \A x : Found(x)' = Found(x)
<1>1. \A m : Present(m)' = Present(m)
  BY DEF Present, staticVars
<1>2. \A m : Static(m)' = Static(m)
  BY <1>1 DEF Static, staticVars
<1>3. \A m : InView(m)' = InView(m)
  BY DEF InView, staticVars
<1>4. \A x : Found(x)' = Found(x)
  BY <1>2 DEF Found, Candidate
<1> QED BY <1>2, <1>3, <1>4

(* A query begins.                                                         *)
LEMMA AskKeeps ==
  ASSUME QueryInv, QueryTypes', NEW q \in Query, Ask(q)
  PROVE  QueryInv'
<1>0. /\ QueryTypes /\ StepsOfTerm /\ TypeOK
      /\ metrics = {} /\ got = {} /\ candidates = {} /\ found = {}
  BY QueryFacts DEF Ask, StepsOfTerm
<1>1. /\ asked' = q /\ plan' = PlanOf(q) /\ step' \in {"read", "failed"}
      /\ metrics' = {} /\ got' = {} /\ candidates' = {} /\ found' = {}
      /\ known' = {x \in Series : \E i \in DOMAIN q.scopes : Indexed(q.scopes[i], x)}
      /\ touched' = {m \in Metric : InView(m) # Pairs(Static(m))}
      /\ direct' = direct /\ reverse' = reverse
      /\ UNCHANGED staticVars
  BY <1>0 DEF Ask
<1>2. /\ \A m : Static(m)' = Static(m) /\ InView(m)' = InView(m)
      /\ \A x : Found(x)' = Found(x)
  BY <1>1, SameTags
<1>3. StepsOfTerm'
  BY <1>1 DEF StepsOfTerm
<1>4. SteadyView'
  BY <1>1, <1>2 DEF SteadyView, Steady
<1>5. PlanSound'
  BY <1>1, PlanFacts DEF PlanSound
<1>6. Sound'
  BY <1>1 DEF Sound
<1>7. Complete'
  <2> SUFFICES ASSUME NEW x \in known', Wanted(Found(x), q)
               PROVE  \E i \in DOMAIN plan' :
                        /\ Indexed(plan'[i].scope, x)
                        /\ Accepted(Found(x), plan'[i])
                        /\ i = 1 => Reached(x)'
    BY <1>1, <1>2 DEF Complete, Indexed
  <2>1. Reached(x)'
    BY <1>1 DEF Reached
  <2>2. PICK j \in DOMAIN q.scopes : Indexed(q.scopes[j], x)
    BY <1>1
  <2>3. PICK i \in DOMAIN PlanOf(q) : /\ PlanOf(q)[i].scope = q.scopes[j]
                                      /\ Accepted(Found(x), PlanOf(q)[i])
    BY <2>2, PlanFacts
  <2> QED BY <1>1, <2>1, <2>2, <2>3
<1> QED BY <1>3, <1>4, <1>5, <1>6, <1>7 DEF QueryInv

(* What most steps leave alone keeps the parts of the invariant about it.  *)
LEMMA Untouched ==
  ASSUME QueryInv, UNCHANGED <<staticVars, direct, reverse, asked, known, touched>>,
         step # "idle", step' # "idle"
  PROVE  /\ SteadyView'
         /\ \A m : Static(m)' = Static(m) /\ InView(m)' = InView(m)
         /\ \A x : Found(x)' = Found(x)
         /\ \A s, x : Indexed(s, x)' = Indexed(s, x)
         /\ Steady' = Steady
         /\ plan' = plan => PlanSound'
         /\ \A m \in Steady : InView(m) = Pairs(Static(m))
         /\ \A x \in Series : x \in known <=> x \in known'
<1>1. /\ \A m : Static(m)' = Static(m) /\ InView(m)' = InView(m)
      /\ \A x : Found(x)' = Found(x)
  BY SameTags
<1>2. SteadyView' /\ \A m \in Steady : InView(m) = Pairs(Static(m))
  BY <1>1, QueryFacts DEF SteadyView, Steady
<1>3. \A s, x : Indexed(s, x)' = Indexed(s, x)
  BY DEF Indexed
<1>4. plan' = plan => PlanSound'
  BY QueryFacts DEF PlanSound
<1> QED BY <1>1, <1>2, <1>3, <1>4 DEF Steady

(* A condition on tags starts with the view.                               *)
LEMMA ReadViewKeeps ==
  ASSUME QueryInv, QueryTypes', ReadView
  PROVE  QueryInv'
<1> DEFINE f == Head(plan).read
<1>0. /\ StepsOfTerm /\ Sound /\ Complete /\ TypeOK /\ known \subseteq Series
      /\ plan \in Seq(QueryTerm)
  BY QueryFacts
<1>1. /\ step = "read" /\ plan # <<>> /\ IsIndexed(f)
      /\ metrics' = {m \in Metric : \E p \in InView(m) : Selects(f, p)}
      /\ step' = "series" /\ plan' = plan /\ asked' = asked
      /\ got = {} /\ got' = {} /\ candidates = {} /\ candidates' = {}
      /\ found' = found /\ known' = known /\ touched' = touched
      /\ UNCHANGED <<staticVars, direct, reverse, asked, known, touched>>
  BY <1>0 DEF ReadView, StepsOfTerm
<1>2. /\ SteadyView' /\ PlanSound'
      /\ \A m : Static(m)' = Static(m) /\ InView(m)' = InView(m)
      /\ \A x : Found(x)' = Found(x)
      /\ \A s, x : Indexed(s, x)' = Indexed(s, x)
      /\ Steady' = Steady
      /\ \A m \in Steady : InView(m) = Pairs(Static(m))
  BY <1>1, Untouched
<1>3. StepsOfTerm'
  BY <1>1 DEF StepsOfTerm
<1>4. Sound'
  BY <1>0, <1>1, <1>2 DEF Sound, Steady
<1>5. Complete'
  <2> SUFFICES ASSUME NEW x \in known, x.metric \in Steady, Wanted(Found(x), asked),
                      Found(x) \notin found
               PROVE  \E i \in DOMAIN plan :
                        /\ Indexed(plan[i].scope, x)
                        /\ Accepted(Found(x), plan[i])
                        /\ i = 1 => Reached(x)'
    BY <1>1, <1>2 DEF Complete
  <2>1. PICK i \in DOMAIN plan : Indexed(plan[i].scope, x) /\ Accepted(Found(x), plan[i])
    BY <1>0, <1>1 DEF Complete
  <2>2. ASSUME i = 1 PROVE Reached(x)'
    <3>1. Head(plan) = plan[i] /\ Head(plan) \in QueryTerm
      BY <1>0, <1>1, <2>2, HeadFacts
    <3>2. f \in Filter
      BY <1>1, <3>1 DEF QueryTerm, IsIndexed
    <3>3. Reads(Found(x), f)
      BY <2>1, <3>1 DEF Accepted
    <3>4. PICK p \in TagsOf(Found(x)) : Selects(f, p)
      BY <1>1, <3>2, <3>3, IndexedReads
    <3>5. x \in Series /\ x.metric \in Metric
          /\ p \in Pairs(Static(x.metric)) \cup Pairs(x.tags)
      BY <1>0, <3>4, FoundFacts
    <3>6. p \in Pairs(Static(x.metric)) => x.metric \in metrics'
      BY <1>1, <1>2, <3>4, <3>5
    <3> QED BY <1>1, <3>4, <3>5, <3>6 DEF Reached
  <2> QED BY <2>1, <2>2
<1> QED BY <1>2, <1>3, <1>4, <1>5 DEF QueryInv

(* The series of a metric are read.                                        *)
LEMMA ReadSeriesKeeps ==
  ASSUME QueryInv, QueryTypes', NEW m \in Metric, ReadSeriesOf(m)
  PROVE  QueryInv'
<1> DEFINE f == Head(plan).read
<1>0. /\ StepsOfTerm /\ Sound /\ Complete /\ TypeOK /\ known \subseteq Series
      /\ plan \in Seq(QueryTerm) /\ got \subseteq Series
  BY QueryFacts
<1>1. /\ step = "series" /\ m \in metrics
      /\ got' = got \cup DirectOf(Head(plan).scope, m)
      /\ metrics' = metrics \ {m}
      /\ step' = step /\ plan' = plan /\ asked' = asked /\ candidates' = candidates
      /\ found' = found /\ known' = known /\ touched' = touched
      /\ UNCHANGED <<staticVars, direct, reverse, asked, known, touched>>
  BY DEF ReadSeriesOf
<1>2. /\ SteadyView' /\ PlanSound'
      /\ \A k : Static(k)' = Static(k) /\ InView(k)' = InView(k)
      /\ \A x : Found(x)' = Found(x)
      /\ \A s, x : Indexed(s, x)' = Indexed(s, x)
      /\ Steady' = Steady
  BY <1>1, Untouched
<1>3. StepsOfTerm'
  BY <1>0, <1>1 DEF StepsOfTerm
<1>4. plan # <<>> /\ IsIndexed(f) /\ f \in Filter /\ Head(plan) = plan[1]
  <2>1. plan # <<>> /\ IsIndexed(f)
    BY <1>0, <1>1 DEF StepsOfTerm
  <2>2. Head(plan) \in QueryTerm /\ Head(plan) = plan[1]
    BY <1>0, <2>1, HeadFacts
  <2> QED BY <2>1, <2>2 DEF QueryTerm, IsIndexed
<1>5. Sound'
  <2>1. \A k \in metrics' \cap Steady : \E p \in Pairs(Static(k)) : Selects(f, p)
    BY <1>0, <1>1 DEF Sound
  <2>2. ASSUME NEW x \in Series, x.metric \in Steady, x \in got'
        PROVE  Reads(Found(x), f)
    <3>1. CASE x \in got
      BY <1>0, <2>2, <3>1 DEF Sound
    <3>2. CASE x.metric = m
      <4>1. PICK p \in Pairs(Static(x.metric)) : Selects(f, p)
        BY <1>0, <1>1, <2>2, <3>2 DEF Sound
      <4>2. p \in TagsOf(Found(x))
        BY <1>0, <4>1, FoundFacts
      <4> QED BY <1>4, <4>1, <4>2, IndexedReads
    <3> QED BY <1>1, <2>2, <3>1, <3>2 DEF DirectOf
  <2> QED BY <1>0, <1>1, <1>2, <2>1, <2>2 DEF Sound
<1>6. Complete'
  <2> SUFFICES ASSUME NEW x \in known, x.metric \in Steady, Wanted(Found(x), asked),
                      Found(x) \notin found
               PROVE  \E i \in DOMAIN plan :
                        /\ Indexed(plan[i].scope, x)
                        /\ Accepted(Found(x), plan[i])
                        /\ i = 1 => Reached(x)'
    BY <1>1, <1>2 DEF Complete
  <2>1. PICK i \in DOMAIN plan : /\ Indexed(plan[i].scope, x)
                                 /\ Accepted(Found(x), plan[i])
                                 /\ i = 1 => Reached(x)
    BY <1>0, <1>1 DEF Complete
  <2>2. ASSUME i = 1 PROVE Reached(x)'
    <3>1. x.metric = m => x \in got'
      <4>1. Indexed(Head(plan).scope, x) /\ x \in Series
        BY <1>0, <1>4, <2>1, <2>2
      <4> QED BY <1>1, <4>1 DEF Indexed, DirectOf
    <3> QED BY <1>1, <2>1, <2>2, <3>1 DEF Reached
  <2> QED BY <2>1, <2>2
<1> QED BY <1>2, <1>3, <1>5, <1>6 DEF QueryInv

(* The series of a term have been read: they are those that the condition  *)
(* of the term holds of.                                                   *)
LEMMA GotKeeps ==
  ASSUME QueryInv, QueryTypes', NEW S, Got(S), step \in {"read", "series"},
         plan # <<>>, S \subseteq Series, got \subseteq S,
         \A x \in S \ got : x.metric \in Steady => Reads(Found(x), Head(plan).read),
         \A x \in known : (/\ x.metric \in Steady
                           /\ Indexed(Head(plan).scope, x)
                           /\ Reads(Found(x), Head(plan).read)
                           /\ Reached(x)) => x \in S
  PROVE  QueryInv'
<1>0. /\ StepsOfTerm /\ Sound /\ Complete /\ TypeOK /\ known \subseteq Series
      /\ plan \in Seq(QueryTerm) /\ got \subseteq Series
  BY QueryFacts
<1>1. /\ got' = S /\ metrics' = {x.metric : x \in S} /\ step' = "static"
      /\ plan' = plan /\ asked' = asked /\ candidates = {} /\ candidates' = {}
      /\ found' = found /\ known' = known /\ touched' = touched
      /\ UNCHANGED <<staticVars, direct, reverse, asked, known, touched>>
  BY <1>0 DEF Got, StepsOfTerm
<1>2. /\ SteadyView' /\ PlanSound'
      /\ \A k : Static(k)' = Static(k) /\ InView(k)' = InView(k)
      /\ \A x : Found(x)' = Found(x)
      /\ \A s, x : Indexed(s, x)' = Indexed(s, x)
      /\ Steady' = Steady
  BY <1>1, Untouched
<1>3. StepsOfTerm'
  BY <1>1 DEF StepsOfTerm
<1>4. Sound'
  BY <1>0, <1>1, <1>2 DEF Sound
<1>5. Complete'
  <2> SUFFICES ASSUME NEW x \in known, x.metric \in Steady, Wanted(Found(x), asked),
                      Found(x) \notin found
               PROVE  \E i \in DOMAIN plan :
                        /\ Indexed(plan[i].scope, x)
                        /\ Accepted(Found(x), plan[i])
                        /\ i = 1 => Reached(x)'
    BY <1>1, <1>2 DEF Complete
  <2>1. PICK i \in DOMAIN plan : /\ Indexed(plan[i].scope, x)
                                 /\ Accepted(Found(x), plan[i])
                                 /\ i = 1 => Reached(x)
    BY <1>0 DEF Complete
  <2>2. ASSUME i = 1 PROVE Reached(x)'
    <3>1. Head(plan) = plan[1]
      BY <1>0, HeadFacts
    <3>2. x \in S
      BY <2>1, <2>2, <3>1 DEF Accepted
    <3> QED BY <1>1, <3>2 DEF Reached
  <2> QED BY <2>1, <2>2
<1> QED BY <1>2, <1>3, <1>4, <1>5 DEF QueryInv

(* The last read of a condition on tags is that of the dynamic tags.       *)
LEMMA ReadReverseKeeps ==
  ASSUME QueryInv, QueryTypes', ReadReverse
  PROVE  QueryInv'
<1> DEFINE f == Head(plan).read
           s == Head(plan).scope
           S == got \cup ReverseOf(s, f)
<1>0. /\ StepsOfTerm /\ TypeOK /\ known \subseteq Series
      /\ plan \in Seq(QueryTerm) /\ got \subseteq Series
  BY QueryFacts
<1>1. step = "series" /\ metrics = {} /\ Got(S)
  BY DEF ReadReverse
<1>2. plan # <<>> /\ IsIndexed(f) /\ f \in Filter
  <2>1. plan # <<>> /\ IsIndexed(f)
    BY <1>0, <1>1 DEF StepsOfTerm
  <2>2. Head(plan) \in QueryTerm
    BY <1>0, <2>1, HeadFacts
  <2> QED BY <2>1, <2>2 DEF QueryTerm, IsIndexed
<1>3. S \subseteq Series /\ got \subseteq S
  BY <1>0 DEF ReverseOf
<1>4. ASSUME NEW x \in S \ got PROVE Reads(Found(x), f)
  <2>1. PICK n \in DOMAIN x.tags : Selects(f, <<n, x.tags[n]>>)
    BY <1>4 DEF ReverseOf
  <2>2. <<n, x.tags[n]>> \in TagsOf(Found(x))
    BY <1>0, <1>3, FoundFacts DEF Pairs
  <2> QED BY <1>2, <2>1, <2>2, IndexedReads
<1>5. ASSUME NEW x \in known, Indexed(s, x), Reached(x) PROVE x \in S
  <2>1. CASE x \in got
    BY <2>1
  <2>2. CASE \E p \in Pairs(x.tags) : Selects(f, p)
    <3>1. PICK n \in DOMAIN x.tags : Selects(f, <<n, x.tags[n]>>)
      BY <2>2 DEF Pairs
    <3>2. x \in ReverseOf(s, f)
      BY <1>0, <1>5, <3>1 DEF ReverseOf, Indexed
    <3> QED BY <3>2
  <2> QED BY <1>1, <1>5, <2>1, <2>2 DEF Reached
<1> HIDE DEF S, f, s
<1> QED BY <1>1, <1>2, <1>3, <1>4, <1>5, GotKeeps DEF f, s

(* The other conditions take one read.                                     *)
LEMMA ReadDirectKeeps ==
  ASSUME QueryInv, QueryTypes', ReadMetric \/ ReadAll
  PROVE  QueryInv'
<1> DEFINE f == Head(plan).read
           s == Head(plan).scope
<1>0. /\ StepsOfTerm /\ TypeOK /\ known \subseteq Series
      /\ plan \in Seq(QueryTerm) /\ got = {} /\ step = "read" /\ plan # <<>>
  BY QueryFacts DEF ReadMetric, ReadAll, StepsOfTerm
<1>1. CASE ReadMetric
  <2> DEFINE S == DirectOf(s, f[2])
  <2>1. Is("metric", f) /\ Got(S) /\ S \subseteq Series
    BY <1>1 DEF ReadMetric, DirectOf
  <2>2. ASSUME NEW x \in S PROVE Reads(Found(x), f)
    <3>1. x.metric = f[2] /\ x \in Series
      BY <2>2 DEF DirectOf
    <3> QED BY <1>0, <2>1, <3>1, FoundFacts DEF Reads
  <2>3. ASSUME NEW x \in known, Indexed(s, x), Reads(Found(x), f) PROVE x \in S
    <3>1. x \in Series /\ x.metric = f[2]
      BY <1>0, <2>1, <2>3, FoundFacts DEF Reads
    <3> QED BY <2>3, <3>1 DEF DirectOf, Indexed
  <2> HIDE DEF S, f, s
  <2> QED BY <1>0, <2>1, <2>2, <2>3, GotKeeps DEF f, s
<1>2. CASE ReadAll
  <2> DEFINE S == {x \in Series : <<Global, x>> \in direct}
  <2>1. Is("all", f) /\ s = Global /\ Got(S) /\ S \subseteq Series
    BY <1>2 DEF ReadAll
  <2>2. f \in Filter /\ ~ Is("metric", f)
    <3>1. Head(plan) \in QueryTerm
      BY <1>0, HeadFacts
    <3> QED BY <2>1, <3>1 DEF QueryTerm, Is
  <2>3. \A x : Reads(Found(x), f)
    BY <2>1, <2>2, AcceptsFacts DEF Reads
  <2>4. ASSUME NEW x \in known, Indexed(s, x) PROVE x \in S
    BY <1>0, <2>1, <2>4 DEF Indexed
  <2> HIDE DEF S, f, s
  <2> QED BY <1>0, <2>1, <2>3, <2>4, GotKeeps DEF f, s
<1> QED BY <1>1, <1>2

(* The static tags of a metric are read.                                   *)
LEMMA ReadStaticKeeps ==
  ASSUME QueryInv, QueryTypes', NEW m \in Metric, ReadStaticOf(m)
  PROVE  QueryInv'
<1> DEFINE f == Head(plan).read
           new == {Candidate(x, Static(m)) : x \in {y \in got : y.metric = m}}
<1>0. /\ StepsOfTerm /\ Sound /\ Complete /\ TypeOK /\ known \subseteq Series
      /\ plan \in Seq(QueryTerm) /\ got \subseteq Series
  BY QueryFacts
<1>1. /\ step = "static" /\ m \in metrics
      /\ candidates' = candidates \cup new
      /\ metrics' = metrics \ {m}
      /\ step' = step /\ plan' = plan /\ asked' = asked /\ got' = got
      /\ found' = found /\ known' = known /\ touched' = touched
      /\ UNCHANGED <<staticVars, direct, reverse, asked, known, touched>>
  BY DEF ReadStaticOf
<1>2. /\ SteadyView' /\ PlanSound'
      /\ \A k : Static(k)' = Static(k) /\ InView(k)' = InView(k)
      /\ \A x : Found(x)' = Found(x)
      /\ \A s, x : Indexed(s, x)' = Indexed(s, x)
      /\ Steady' = Steady
  BY <1>1, Untouched
<1>3. StepsOfTerm'
  BY <1>0, <1>1 DEF StepsOfTerm
<1>4. \A y \in got : y.metric = m => Found(y) \in new
  BY DEF Found
<1>5. ASSUME NEW x \in Series, x.metric \in Steady, NEW d \in new, StandsFor(d, x)
      PROVE  d = Found(x) /\ Reads(d, f)
  <2>1. PICK y \in got : y.metric = m /\ d = Candidate(y, Static(m))
    OBVIOUS
  <2>2. d = Found(y) /\ y \in Series
    BY <1>0, <2>1 DEF Found
  <2>3. y = x
    BY <1>0, <1>5, <2>2, FoundFacts DEF StandsFor
  <2> QED BY <1>0, <1>5, <2>1, <2>2, <2>3 DEF Sound
<1> HIDE DEF new
<1>6. Sound'
  <2>1. ASSUME NEW x \in Series, x.metric \in Steady, NEW d \in candidates',
               StandsFor(d, x)
        PROVE  d = Found(x) /\ Reads(d, f)
    BY <1>0, <1>1, <1>5, <2>1 DEF Sound
  <2> QED BY <1>0, <1>1, <1>2, <2>1 DEF Sound
<1>7. Complete'
  <2> SUFFICES ASSUME NEW x \in known, x.metric \in Steady, Wanted(Found(x), asked),
                      Found(x) \notin found
               PROVE  \E i \in DOMAIN plan :
                        /\ Indexed(plan[i].scope, x)
                        /\ Accepted(Found(x), plan[i])
                        /\ i = 1 => Reached(x)'
    BY <1>1, <1>2 DEF Complete
  <2>1. PICK i \in DOMAIN plan : /\ Indexed(plan[i].scope, x)
                                 /\ Accepted(Found(x), plan[i])
                                 /\ i = 1 => Reached(x)
    BY <1>0, <1>1 DEF Complete
  <2>2. ASSUME i = 1 PROVE Reached(x)'
    BY <1>1, <1>2, <1>4, <2>1, <2>2 DEF Reached
  <2> QED BY <2>1, <2>2
<1> QED BY <1>2, <1>3, <1>6, <1>7 DEF QueryInv

(* A term ends: the candidates that its filters keep are found.            *)
LEMMA EndTermKeeps ==
  ASSUME QueryInv, QueryTypes', EndTerm
  PROVE  QueryInv'
<1> DEFINE t == Head(plan)
<1>0. /\ StepsOfTerm /\ Sound /\ Complete /\ PlanSound /\ TypeOK
      /\ known \subseteq Series /\ plan \in Seq(QueryTerm)
      /\ candidates \subseteq Candidates
  BY QueryFacts
<1>1. /\ step = "static" /\ metrics = {} /\ metrics' = {}
      /\ found' = found \cup Keep(candidates, t.keep)
      /\ plan' = Tail(plan) /\ step' = "read" /\ asked' = asked
      /\ got' = {} /\ candidates' = {} /\ known' = known /\ touched' = touched
      /\ UNCHANGED <<staticVars, direct, reverse, asked, known, touched>>
  BY DEF EndTerm
<1>2. /\ SteadyView'
      /\ \A k : Static(k)' = Static(k) /\ InView(k)' = InView(k)
      /\ \A x : Found(x)' = Found(x)
      /\ \A s, x : Indexed(s, x)' = Indexed(s, x)
      /\ Steady' = Steady
  BY <1>1, Untouched
<1>3. StepsOfTerm'
  BY <1>1 DEF StepsOfTerm
<1>4. plan # <<>>
  BY <1>0, <1>1 DEF StepsOfTerm
<1>5. /\ t = plan[1] /\ 1 \in DOMAIN plan
      /\ \A i \in DOMAIN Tail(plan) : Tail(plan)[i] = plan[i + 1] /\ i + 1 \in DOMAIN plan
      /\ \A i \in DOMAIN plan \ {1} :
           i - 1 \in DOMAIN Tail(plan) /\ Tail(plan)[i - 1] = plan[i]
  BY <1>0, <1>4, HeadFacts
<1>6. PlanSound'
  BY <1>0, <1>1, <1>5 DEF PlanSound
<1>7. Sound'
  <2>1. ASSUME NEW x \in Series, x.metric \in Steady, NEW d \in found', StandsFor(d, x)
        PROVE  d = Found(x) /\ Wanted(d, asked)
    <3>1. CASE d \in found
      BY <1>0, <2>1, <3>1 DEF Sound
    <3>2. CASE d \in Keep(candidates, t.keep)
      <4>1. d \in candidates /\ d \in Candidates /\ \A k \in t.keep : Accepts(d, k)
        BY <1>0, <3>2 DEF Keep
      <4>2. d = Found(x) /\ Reads(d, t.read)
        BY <1>0, <2>1, <4>1 DEF Sound
      <4>3. Accepted(d, t)
        BY <4>1, <4>2 DEF Accepted
      <4>4. Wanted(d, asked)
        BY <1>0, <1>1, <1>5, <4>1, <4>3 DEF PlanSound
      <4> QED BY <4>2, <4>4
    <3> QED BY <1>1, <3>1, <3>2
  <2> QED BY <1>1, <1>2, <2>1 DEF Sound
<1>8. Complete'
  <2> SUFFICES ASSUME NEW x \in known, x.metric \in Steady, Wanted(Found(x), asked),
                      Found(x) \notin found'
               PROVE  \E i \in DOMAIN Tail(plan) :
                        /\ Indexed(Tail(plan)[i].scope, x)
                        /\ Accepted(Found(x), Tail(plan)[i])
                        /\ i = 1 => Reached(x)'
    BY <1>1, <1>2 DEF Complete
  <2>1. PICK i \in DOMAIN plan : /\ Indexed(plan[i].scope, x)
                                 /\ Accepted(Found(x), plan[i])
                                 /\ i = 1 => Reached(x)
    BY <1>0, <1>1 DEF Complete
  <2>2. Reached(x)'
    BY <1>1 DEF Reached
  <2>3. i # 1
    <3> SUFFICES ASSUME i = 1 PROVE FALSE
      OBVIOUS
    <3>1. Found(x) \in candidates
      BY <1>1, <2>1 DEF Reached
    <3>2. \A k \in t.keep : Accepts(Found(x), k)
      BY <1>5, <2>1 DEF Accepted
    <3> QED BY <1>1, <3>1, <3>2 DEF Keep
  <2> QED BY <1>5, <2>1, <2>2, <2>3
<1> QED BY <1>2, <1>3, <1>6, <1>7, <1>8 DEF QueryInv

(* A query stops: it has found everything, or fails.                       *)
LEMMA StopKeeps ==
  ASSUME QueryInv, QueryTypes', ReadAllOfShard \/ Reply
  PROVE  QueryInv'
<1>0. /\ StepsOfTerm /\ Sound /\ Complete
  BY QueryFacts
<1>1. /\ step = "read" /\ step' \in {"failed", "answered"}
      /\ step' = "answered" => plan = <<>>
      /\ metrics' = metrics /\ got' = got /\ candidates' = candidates
      /\ plan' = plan /\ asked' = asked
      /\ found' = found /\ known' = known /\ touched' = touched
      /\ UNCHANGED <<staticVars, direct, reverse, asked, known, touched>>
  BY DEF ReadAllOfShard, Reply
<1>2. /\ SteadyView' /\ PlanSound'
      /\ \A k : Static(k)' = Static(k) /\ InView(k)' = InView(k)
      /\ \A x : Found(x)' = Found(x)
      /\ \A s, x : Indexed(s, x)' = Indexed(s, x)
      /\ Steady' = Steady
  BY <1>1, Untouched
<1>3. StepsOfTerm'
  BY <1>0, <1>1 DEF StepsOfTerm
<1>4. Sound'
  BY <1>0, <1>1, <1>2 DEF Sound
<1>5. Complete'
  <2> SUFFICES ASSUME NEW x \in known, x.metric \in Steady, Wanted(Found(x), asked),
                      Found(x) \notin found
               PROVE  \E i \in DOMAIN plan :
                        /\ Indexed(plan[i].scope, x)
                        /\ Accepted(Found(x), plan[i])
                        /\ i = 1 => Reached(x)'
    BY <1>1, <1>2 DEF Complete
  <2>1. Reached(x)'
    BY <1>1 DEF Reached
  <2> QED BY <1>0, <1>1, <2>1 DEF Complete
<1> QED BY <1>2, <1>3, <1>4, <1>5 DEF QueryInv

(* Static tags change: those of the metrics that are steady do not.        *)
LEMMA ChangeTagsKeeps ==
  ASSUME QueryInv, QueryTypes', ChangeTags
  PROVE  QueryInv'
<1>0. /\ QueryTypes /\ StepsOfTerm /\ SteadyView /\ PlanSound /\ Sound /\ Complete
      /\ TypeOK /\ known \subseteq Series
  BY QueryFacts
<1>1. /\ touched' = touched \cup
           {m \in Metric : Static(m)' # Static(m) \/ InView(m)' # InView(m)}
      /\ step' = step /\ metrics' = metrics /\ got' = got /\ candidates' = candidates
      /\ plan' = plan /\ asked' = asked /\ found' = found /\ known' = known
      /\ direct' = direct /\ reverse' = reverse
  BY DEF ChangeTags, queryVars
<1>2. \A m \in Steady' : /\ m \in Steady /\ m \in Metric
                         /\ Static(m)' = Static(m) /\ InView(m)' = InView(m)
  BY <1>1 DEF Steady
<1>3. \A x : x.metric \in Steady' => x.metric \in Steady /\ Found(x)' = Found(x)
  BY <1>2, FoundSame
<1>4. StepsOfTerm'
  BY <1>0, <1>1 DEF StepsOfTerm
<1>5. SteadyView'
  BY <1>0, <1>1, <1>2 DEF SteadyView
<1>6. PlanSound'
  BY <1>0, <1>1 DEF PlanSound
<1>7. Sound'
  <2>1. step = "series" => \A m \in metrics \cap Steady' :
          \E p \in Pairs(Static(m)') : Selects(Head(plan).read, p)
    BY <1>0, <1>2 DEF Sound
  <2>2. ASSUME NEW x \in Series, x.metric \in Steady'
        PROVE  /\ x \in got => Reads(Found(x)', Head(plan).read)
               /\ \A d \in candidates :
                    StandsFor(d, x) => d = Found(x)' /\ Reads(d, Head(plan).read)
               /\ \A d \in found : StandsFor(d, x) => d = Found(x)' /\ Wanted(d, asked)
    <3>1. x.metric \in Steady /\ Found(x)' = Found(x)
      BY <1>3, <2>2
    <3> QED BY <1>0, <3>1 DEF Sound
  <2>3. \A m : Pairs(Static(m))' = Pairs(Static(m)')
    BY DEF Pairs
  <2> QED BY <1>1, <2>1, <2>2, <2>3 DEF Sound
<1>8. Complete'
  <2> SUFFICES ASSUME step \notin {"idle", "failed"},
                      NEW x \in known, x.metric \in Steady', Wanted(Found(x)', asked),
                      Found(x)' \notin found
               PROVE  \E i \in DOMAIN plan :
                        /\ Indexed(plan[i].scope, x)
                        /\ Accepted(Found(x)', plan[i])
                        /\ i = 1 => Reached(x)'
    BY <1>1 DEF Complete, Indexed
  <2>1. x.metric \in Steady /\ Found(x)' = Found(x)
    BY <1>3
  <2>2. PICK i \in DOMAIN plan : /\ Indexed(plan[i].scope, x)
                                 /\ Accepted(Found(x), plan[i])
                                 /\ i = 1 => Reached(x)
    BY <1>0, <2>1 DEF Complete
  <2>3. Reached(x) => Reached(x)'
    BY <1>1, <2>1 DEF Reached
  <2> QED BY <2>1, <2>2, <2>3
<1> QED BY <1>4, <1>5, <1>6, <1>7, <1>8 DEF QueryInv

(* The tables of dynamic tags only grow.                                   *)
LEMMA GrowKeeps ==
  ASSUME QueryInv, QueryTypes', UNCHANGED <<staticVars, queryVars, touched>>,
         direct \subseteq direct', reverse \subseteq reverse'
  PROVE  QueryInv'
<1>0. /\ QueryTypes /\ StepsOfTerm /\ SteadyView /\ PlanSound /\ Sound /\ Complete
  BY QueryFacts
<1>1. /\ touched' = touched /\ step' = step /\ metrics' = metrics /\ got' = got
      /\ candidates' = candidates /\ plan' = plan /\ asked' = asked
      /\ found' = found /\ known' = known
  BY DEF queryVars
<1>2. /\ \A m : Static(m)' = Static(m) /\ InView(m)' = InView(m)
      /\ \A x : Found(x)' = Found(x)
  BY SameTags
<1>3. Steady' = Steady
  BY <1>1 DEF Steady
<1>4. StepsOfTerm' /\ PlanSound' /\ SteadyView'
  BY <1>0, <1>1, <1>2, <1>3 DEF StepsOfTerm, PlanSound, SteadyView
<1>5. Sound'
  BY <1>0, <1>1, <1>2, <1>3 DEF Sound
<1>6. Complete'
  <2> SUFFICES ASSUME step \notin {"idle", "failed"},
                      NEW x \in known, x.metric \in Steady, Wanted(Found(x), asked),
                      Found(x) \notin found
               PROVE  \E i \in DOMAIN plan :
                        /\ Indexed(plan[i].scope, x)'
                        /\ Accepted(Found(x), plan[i])
                        /\ i = 1 => Reached(x)'
    BY <1>1, <1>2, <1>3 DEF Complete
  <2>1. PICK i \in DOMAIN plan : /\ Indexed(plan[i].scope, x)
                                 /\ Accepted(Found(x), plan[i])
                                 /\ i = 1 => Reached(x)
    BY <1>0 DEF Complete
  <2>2. Indexed(plan[i].scope, x)'
    BY <1>1, <2>1 DEF Indexed
  <2>3. Reached(x) => Reached(x)'
    BY <1>1, <1>2 DEF Reached
  <2> QED BY <2>1, <2>2, <2>3
<1> QED BY <1>4, <1>5, <1>6 DEF QueryInv

(* The invariant of queries.                                               *)
LEMMA QueryInvIsInductive == SearchSpec => []QueryInv
<1>1. SearchInit => QueryInv
  <2> SUFFICES ASSUME SearchInit PROVE QueryInv
    OBVIOUS
  <2>1. QueryTypes
    BY QueryTypesInductive
  <2>2. StepsOfTerm /\ SteadyView /\ PlanSound /\ Sound /\ Complete
    BY DEF SearchInit, StepsOfTerm, SteadyView, PlanSound, Sound, Complete
  <2> QED BY <2>1, <2>2 DEF QueryInv
<1>2. QueryInv /\ [SearchNext]_vars => QueryInv'
  <2> SUFFICES ASSUME QueryInv, [SearchNext]_vars PROVE QueryInv'
    OBVIOUS
  <2>1. QueryTypes'
    BY QueryTypesInductive DEF QueryInv
  <2>2. ASSUME NEW q \in Query, Ask(q) PROVE QueryInv'
    BY <2>1, <2>2, AskKeeps
  <2>3. CASE QueryStep
    <3>1. CASE ReadView
      BY <2>1, <3>1, ReadViewKeeps
    <3>2. CASE ReadReverse
      BY <2>1, <3>2, ReadReverseKeeps
    <3>3. CASE ReadMetric \/ ReadAll
      BY <2>1, <3>3, ReadDirectKeeps
    <3>4. CASE ReadAllOfShard \/ Reply
      BY <2>1, <3>4, StopKeeps
    <3>5. ASSUME NEW m \in Metric, ReadSeriesOf(m) PROVE QueryInv'
      BY <2>1, <3>5, ReadSeriesKeeps
    <3>6. ASSUME NEW m \in Metric, ReadStaticOf(m) PROVE QueryInv'
      BY <2>1, <3>6, ReadStaticKeeps
    <3>7. CASE EndTerm
      BY <2>1, <3>7, EndTermKeeps
    <3> QED BY <2>3, <3>1, <3>2, <3>3, <3>4, <3>5, <3>6, <3>7 DEF QueryStep
  <2>4. CASE ChangeTags
    BY <2>1, <2>4, ChangeTagsKeeps
  <2>5. ASSUME NEW s \in Scope, NEW x \in Series,
               InsertDirect(s, x) \/ \E n \in Name : InsertReverse(s, x, n)
        PROVE  QueryInv'
    <3>1. UNCHANGED <<staticVars, queryVars, touched>>
          /\ direct \subseteq direct' /\ reverse \subseteq reverse'
      BY <2>5 DEF InsertDirect, InsertReverse
    <3> QED BY <2>1, <3>1, GrowKeeps
  <2>6. CASE UNCHANGED vars
    <3>1. UNCHANGED <<staticVars, queryVars, touched>>
          /\ direct \subseteq direct' /\ reverse \subseteq reverse'
      BY <2>6 DEF vars
    <3> QED BY <2>1, <3>1, GrowKeeps
  <2> QED BY <2>2, <2>3, <2>4, <2>5, <2>6 DEF SearchNext
<1> QED BY <1>1, <1>2, PTL DEF SearchSpec

(* The answer to a query is exact for the metrics whose static tags did    *)
(* not change while it was computed, nor waited in the reverse view when   *)
(* it began: for every filter that the API accepts, as SteadyExact says,   *)
(* and whatever was written in the meantime.                               *)
THEOREM AnswersAreExact == SearchSpec => []SteadyExact
<1>1. ASSUME QueryInv PROVE SteadyExact
  <2>0. /\ StepsOfTerm /\ Sound /\ Complete /\ TypeOK
    BY <1>1, QueryFacts
  <2> SUFFICES ASSUME step = "answered", Selective(asked.filter),
                      NEW x \in Series, x.metric \notin touched
               PROVE  LET c == Candidate(x, Static(x.metric))
                          wanted == asked.metric \in {None, x.metric}
                                      /\ Accepts(c, asked.filter) IN
                      /\ (x \in known /\ wanted) => c \in found
                      /\ \A d \in found :
                           (d.metric = x.metric /\ d.tags = x.tags) => d = c /\ wanted
    BY DEF SteadyExact
  <2>1. x.metric \in Steady /\ Found(x).metric = x.metric
    BY <2>0, FoundFacts DEF Steady
  <2>2. plan = <<>> /\ DOMAIN plan = {}
    BY <2>0 DEF StepsOfTerm
  <2>3. x \in known /\ Wanted(Found(x), asked) => Found(x) \in found
    BY <2>0, <2>1, <2>2 DEF Complete
  <2>4. \A d \in found : StandsFor(d, x) => d = Found(x) /\ Wanted(d, asked)
    BY <2>0, <2>1 DEF Sound
  <2> QED BY <2>1, <2>3, <2>4 DEF Found, Wanted, StandsFor
<1> QED BY <1>1, QueryInvIsInductive, PTL

(* Queries leave static tags alone: a behaviour of the search is one of    *)
(* the static tags, with its properties.                                   *)
THEOREM SearchImplementsStaticTags == SearchSpec => Spec
<1>1. SearchInit => Init
  BY DEF SearchInit
<1>2. ASSUME [SearchNext]_vars PROVE [Next]_staticVars
  <2>1. ASSUME NEW q \in Query, Ask(q) PROVE UNCHANGED staticVars
    BY <2>1 DEF Ask
  <2>2. CASE QueryStep
    BY <2>2 DEF QueryStep, ReadView, ReadReverse, ReadMetric, ReadAll, Got,
      ReadAllOfShard, ReadSeriesOf, ReadStaticOf, EndTerm, Reply
  <2>3. CASE ChangeTags
    BY <2>3 DEF ChangeTags
  <2>4. ASSUME NEW s \in Scope, NEW x \in Series,
               InsertDirect(s, x) \/ \E n \in Name : InsertReverse(s, x, n)
        PROVE  UNCHANGED staticVars
    BY <2>4 DEF InsertDirect, InsertReverse
  <2>5. CASE UNCHANGED vars
    BY <2>5 DEF vars
  <2> QED BY <1>2, <2>1, <2>2, <2>3, <2>4, <2>5 DEF SearchNext
<1> QED BY <1>1, <1>2, PTL DEF SearchSpec, Spec

(* With queries running, a tag that was discarded does not come back, and  *)
(* the tags of the last request stand.                                     *)
THEOREM TagsStandDuringSearch ==
  SearchSpec => [](DiscardedForGood /\ LastRequestStands)
<1> QED
  BY SearchImplementsStaticTags, NothingComesBack, LastOneStands, PTL
=============================================================================
