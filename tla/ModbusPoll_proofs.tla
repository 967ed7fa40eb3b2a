-------------------------- MODULE ModbusPoll_proofs --------------------------
(***************************************************************************)
(* Theorems about ModbusPoll, for any configuration of extracts, and any   *)
(* number of ticks and faults.                                             *)
(***************************************************************************)
EXTENDS ModbusPoll, FiniteSetTheorems, TLAPS

(* A session has one request, and its answer is in one place.              *)
OnePlace ==
  /\ \A p, q \in pending : p.session = q.session => p = q
  /\ \A m, n \in line : m.session = n.session => m = n
  /\ \A s, t \in open : s.session = t.session => s = t
  /\ \A p \in pending : \A m \in line : p.session # m.session
  /\ \A s \in open : \A p \in pending :
       s.session = p.session => s.request = p.request
  /\ \A s \in open : \A m \in line :
       s.session = m.session => s.request = m.request

(* On a serial line without failures, all there is belongs to the session  *)
(* that the source waits for.                                              *)
Awaited ==
  (source = "rtu" /\ givenUp + faults = 0) =>
    /\ \A p \in pending : p.session = current
    /\ \A m \in line : m.session = current
    /\ \A s \in open : s.session = current

Polled == TypeOK /\ OnePlace /\ Awaited /\ OwnAnswer

-----------------------------------------------------------------------------
(* The requests of a round are those of the extracts.                      *)
LEMMA PreparedTyped ==
  ASSUME NEW l \in Layouts
  PROVE  Prepared(l) \in Seq(Extract)
<1>1. /\ l[1] \in Seq(Extract) /\ l[2] \in Seq(Extract)
      /\ l[3] \in Seq(Extract) /\ l[4] \in Seq(Extract)
  BY LayoutsAssumption DEF Function
<1> QED BY <1>1 DEF Prepared

(* The index of a request among those of its function is a number.         *)
LEMMA Indexed ==
  ASSUME NEW j \in Nat
  PROVE  TransactionId(j) \in Int
<1> DEFINE Upto == {i \in 1 .. j : requests[i].function = requests[j].function}
<1>1. IsFiniteSet(1 .. j)
  BY FS_Interval
<1>2. IsFiniteSet(Upto)
  BY <1>1, FS_Subset
<1>3. Cardinality(Upto) \in Nat
  BY <1>2, FS_CardinalityType
<1>4. TransactionId(j) = Cardinality(Upto) - 1
  BY DEF TransactionId
<1> HIDE DEF Upto
<1> QED BY <1>3, <1>4

(* The indexes of the requests of a function distinguish them, so that the *)
(* identifier of a response leads to its own request.                      *)
LEMMA IndexGrows ==
  ASSUME requests \in Seq(Extract), NEW j \in Request, NEW k \in Request,
         j < k, requests[j].function = requests[k].function
  PROVE  TransactionId(j) < TransactionId(k)
<1> DEFINE Upto(n) == {i \in 1 .. n : requests[i].function = requests[k].function}
<1>1. j \in Nat /\ k \in Nat /\ j \in Int /\ k \in Int
  BY DEF Request
<1>2. Upto(j) \in SUBSET Upto(k)
  BY <1>1
<1>3. k \in Upto(k) /\ k \notin Upto(j)
  BY <1>1 DEF Request
<1>4. IsFiniteSet(1 .. k)
  BY <1>1, FS_Interval
<1>5. IsFiniteSet(Upto(k))
  BY <1>4, FS_Subset
<1>6. IsFiniteSet(Upto(j)) /\ Cardinality(Upto(j)) <= Cardinality(Upto(k))
      /\ Cardinality(Upto(j)) # Cardinality(Upto(k))
  BY <1>2, <1>3, <1>5, FS_Subset
<1>7. Cardinality(Upto(j)) \in Nat /\ Cardinality(Upto(k)) \in Nat
  BY <1>5, <1>6, FS_CardinalityType
<1>8. /\ TransactionId(j) = Cardinality(Upto(j)) - 1
      /\ TransactionId(k) = Cardinality(Upto(k)) - 1
  BY DEF TransactionId
<1> HIDE DEF Upto
<1> QED BY <1>6, <1>7, <1>8

(* A TCP response is taken for an answer to the request that it answers.   *)
LEMMA IdentifiedIsOwn ==
  ASSUME requests \in Seq(Extract), NEW j \in Request
  PROVE  Identified(j) = j
<1> DEFINE Same(k) == /\ requests[k].function = requests[j].function
                      /\ requests[k].unitId = requests[j].unitId
                      /\ TransactionId(k) = TransactionId(j)
<1>1. Same(j)
  OBVIOUS
<1>2. ASSUME NEW k \in Request, Same(k)
      PROVE  k = j
  <2>1. j \in Nat /\ k \in Nat
    BY DEF Request
  <2>2. ASSUME j < k
        PROVE  FALSE
    <3>1. TransactionId(j) < TransactionId(k)
      BY <1>2, <2>2, IndexGrows
    <3>2. TransactionId(j) \in Int
      BY <2>1, Indexed
    <3> QED BY <1>2, <3>1, <3>2
  <2>3. ASSUME k < j
        PROVE  FALSE
    <3>1. TransactionId(k) < TransactionId(j)
      BY <1>2, <2>3, IndexGrows
    <3>2. TransactionId(j) \in Int
      BY <2>1, Indexed
    <3> QED BY <1>2, <3>1, <3>2
  <2> QED BY <2>1, <2>2, <2>3
<1>3. Identified(j) = CHOOSE k \in Request : Same(k)
  BY DEF Identified
<1> HIDE DEF Same
<1> QED BY <1>1, <1>2, <1>3

-----------------------------------------------------------------------------
(* What is made of an answer names the request and the answer.             *)
LEMMA MessagesTyped ==
  ASSUME NEW j \in Request,
         NEW m \in [session : Session, request : Request,
                    valid : BOOLEAN, clean : BOOLEAN],
         NEW r \in Messages(j, m)
  PROVE  /\ r \in [extract : Request, request : Request,
                   answered : Request, clean : BOOLEAN]
         /\ r.request = j /\ r.answered = m.request
BY DEF Messages

(* The invariant holds of the initial states.                              *)
LEMMA InitPolled == Init => Polled
<1> SUFFICES ASSUME Init PROVE Polled
  OBVIOUS
<1>1. requests \in Seq(Extract)
  BY PreparedTyped DEF Init
<1>2. Len(requests) \in Nat
  BY <1>1
<1>3. TypeOK
  <2>1. /\ source \in Sources /\ delayed \in BOOLEAN /\ current = 0
        /\ open = {} /\ pending = {} /\ line = {} /\ readings = {}
    BY DEF Init
  <2>2. /\ ticks \in 0 .. MaxTicks /\ faults \in 0 .. MaxFaults
        /\ next \in 1 .. Len(requests) + 1 /\ sent \in Nat /\ givenUp \in Nat
    BY <1>2, BoundsAssumption DEF Init
  <2> QED BY <1>1, <2>1, <2>2 DEF TypeOK
<1>4. OnePlace /\ Awaited /\ OwnAnswer
  BY DEF Init, OnePlace, Awaited, OwnAnswer
<1> QED BY <1>3, <1>4 DEF Polled

(* Ticks and the starts of rounds leave sessions alone.                    *)
LEMMA ClockPolled ==
  ASSUME Polled, Tick \/ StartRound
  PROVE  Polled'
<1>0. requests \in Seq(Extract) /\ Len(requests) \in Nat
  BY DEF Polled, TypeOK
<1>1. /\ UNCHANGED <<source, requests, current, open, sent, pending, line,
                     readings, givenUp, faults>>
      /\ ticks' \in 0 .. MaxTicks /\ delayed' \in BOOLEAN
      /\ next' \in 1 .. Len(requests) + 1
  <2>1. CASE Tick
    BY <2>1, BoundsAssumption DEF Polled, TypeOK, Tick, netVars
  <2>2. CASE StartRound
    <3>1. /\ UNCHANGED <<source, requests, ticks, current, open, sent, pending,
                         line, readings, givenUp, faults>>
          /\ next' = 1
      BY <2>2 DEF StartRound, netVars
    <3>2. delayed' \in BOOLEAN
      BY <2>2, Zenon DEF StartRound
    <3>3. next' \in 1 .. Len(requests) + 1
      BY <3>1, <1>0
    <3>4. ticks' \in 0 .. MaxTicks
      BY <3>1 DEF Polled, TypeOK
    <3> QED BY <3>1, <3>2, <3>3, <3>4
  <2> QED BY <2>1, <2>2
<1>2. Request' = Request /\ Session' = Session
  BY <1>1 DEF Request, Session
<1>3. TypeOK'
  BY <1>1, <1>2 DEF Polled, TypeOK
<1>4. OnePlace' /\ Awaited' /\ OwnAnswer'
  BY <1>1, <1>2 DEF Polled, OnePlace, Awaited, OwnAnswer
<1> QED BY <1>3, <1>4 DEF Polled

(* The session of a new request is new.                                    *)
LEMMA SendPolled ==
  ASSUME Polled, SendFrame \/ SendRequest
  PROVE  Polled'
<1> USE DEF Polled
<1>0. sent \in Nat /\ Len(requests) \in Nat /\ givenUp \in Nat /\ faults \in Nat
  BY BoundsAssumption DEF TypeOK
<1> DEFINE new == [session |-> sent + 1, request |-> next]
<1>1. /\ UNCHANGED <<source, requests, ticks, delayed, line, readings,
                     givenUp, faults>>
      /\ next \in Request /\ next' = next + 1 /\ sent' = sent + 1
      /\ pending' = pending \cup {new}
  BY DEF SendFrame, SendRequest
<1>2. \/ source = "tcp" /\ open' = open /\ current' = current
      \/ /\ source # "tcp" /\ current = 0
         /\ open' = open \cup {new} /\ current' = sent + 1
  BY DEF SendFrame, SendRequest
<1>3. Request' = Request /\ Session \subseteq Session' /\ sent + 1 \in Session'
      /\ sent + 1 \notin Session
  BY <1>0, <1>1 DEF Request, Session
<1>4. next' \in 1 .. Len(requests) + 1
  BY <1>0, <1>1 DEF Request
<1>5. new \in [session : Session', request : Request] /\ new.session = sent + 1
      /\ new.request = next
  BY <1>1, <1>3
<1> HIDE DEF new
<1>6. TypeOK'
  <2>1. pending' \subseteq [session : Session', request : Request']
    BY <1>1, <1>3, <1>5 DEF TypeOK
  <2>2. open' \subseteq [session : Session', request : Request']
    BY <1>2, <1>3, <1>5 DEF TypeOK
  <2>3. line' \subseteq [session : Session', request : Request',
                         valid : BOOLEAN, clean : BOOLEAN]
    BY <1>1, <1>3 DEF TypeOK
  <2>4. current' # 0 => \E s \in open' : s.session = current'
    BY <1>2, <1>5 DEF TypeOK
  <2>5. sent' \in Nat
    BY <1>0, <1>1
  <2> QED BY <1>1, <1>3, <1>4, <2>1, <2>2, <2>3, <2>4, <2>5 DEF TypeOK
<1>7. /\ \A p \in pending : p.session # sent + 1
      /\ \A m \in line : m.session # sent + 1
      /\ \A s \in open : s.session # sent + 1
  BY <1>3 DEF TypeOK
<1>8. OnePlace'
  BY <1>1, <1>2, <1>5, <1>7 DEF OnePlace
<1>9. Awaited'
  <2> SUFFICES ASSUME source = "rtu", givenUp + faults = 0
               PROVE  /\ \A p \in pending' : p.session = current'
                      /\ \A m \in line : m.session = current'
                      /\ \A s \in open' : s.session = current'
    BY <1>1 DEF Awaited
  <2>1. /\ open' = open \cup {new} /\ current' = sent + 1 /\ current = 0
    BY <1>2
  <2>2. /\ \A p \in pending : p.session \in Nat \ {0}
        /\ \A m \in line : m.session \in Nat \ {0}
        /\ \A s \in open : s.session \in Nat \ {0}
    BY <1>0 DEF TypeOK, Session
  <2>3. pending = {} /\ line = {} /\ open = {}
    BY <2>1, <2>2 DEF Awaited
  <2> QED BY <1>1, <1>5, <2>1, <2>3
<1>10. OwnAnswer'
  BY <1>1 DEF OwnAnswer
<1> QED BY <1>6, <1>8, <1>9, <1>10

(* An answer takes the place of its request.                               *)
LEMMA AnswerPolled ==
  ASSUME Polled, NEW p \in pending, NEW valid \in BOOLEAN,
         NEW clean \in BOOLEAN, SlaveAnswers(p, valid, clean)
  PROVE  Polled'
<1> USE DEF Polled
<1> DEFINE m == [session |-> p.session, request |-> p.request,
                 valid |-> valid, clean |-> clean]
<1>1. /\ UNCHANGED <<source, requests, ticks, delayed, next, current, open, sent,
                     readings, givenUp>>
      /\ pending' = pending \ {p} /\ line' = line \cup {m}
      /\ faults' = faults \/ (faults < MaxFaults /\ faults' = faults + 1)
  BY DEF SlaveAnswers, pollVars
<1>2. Request' = Request /\ Session' = Session
  BY <1>1 DEF Request, Session
<1>3. m \in [session : Session, request : Request, valid : BOOLEAN,
             clean : BOOLEAN] /\ m.session = p.session /\ m.request = p.request
  BY DEF TypeOK
<1> HIDE DEF m
<1>4. /\ faults' \in 0 .. MaxFaults
      /\ givenUp' + faults' = 0 => givenUp + faults = 0
  BY <1>1, BoundsAssumption DEF TypeOK
<1>5. TypeOK'
  BY <1>1, <1>2, <1>3, <1>4 DEF TypeOK
<1>6. OnePlace'
  BY <1>1, <1>3 DEF OnePlace
<1>7. Awaited'
  BY <1>1, <1>3, <1>4 DEF Awaited
<1>8. OwnAnswer'
  BY <1>1, <1>4 DEF OwnAnswer
<1> QED BY <1>5, <1>6, <1>7, <1>8

(* A response over TCP is turned into messages of its own request.         *)
LEMMA ReceiveFramePolled ==
  ASSUME Polled, NEW m \in line, ReceiveFrame(m)
  PROVE  Polled'
<1> USE DEF Polled
<1>1. /\ UNCHANGED <<source, requests, ticks, delayed, next, current, open, sent,
                     pending, givenUp, faults>>
      /\ line' = line \ {m}
      /\ readings' = readings \cup Messages(Identified(m.request), m)
  BY DEF ReceiveFrame, pollVars
<1>2. Request' = Request /\ Session' = Session
  BY <1>1 DEF Request, Session
<1>3. /\ m \in [session : Session, request : Request, valid : BOOLEAN,
                clean : BOOLEAN]
      /\ m.request \in Request
  BY DEF TypeOK
<1>4. Identified(m.request) = m.request
  BY <1>3, IdentifiedIsOwn DEF TypeOK
<1>5. \A r \in Messages(m.request, m) :
         /\ r \in [extract : Request, request : Request,
                   answered : Request, clean : BOOLEAN]
         /\ r.answered = r.request
  BY <1>3, MessagesTyped
<1>6. readings' \subseteq [extract : Request, request : Request,
                           answered : Request, clean : BOOLEAN]
  BY <1>1, <1>4, <1>5 DEF TypeOK
<1>7. TypeOK'
  BY <1>1, <1>2, <1>6 DEF TypeOK
<1>8. OnePlace' /\ Awaited'
  BY <1>1 DEF OnePlace, Awaited
<1>9. OwnAnswer'
  BY <1>1, <1>4, <1>5 DEF OwnAnswer
<1> QED BY <1>7, <1>8, <1>9

(* A session that gets an answer, and is waited for, got its own; unless a *)
(* serial source gave up a request before, or had a failure.               *)
LEMMA ReceivePolled ==
  ASSUME Polled, NEW s \in open, NEW m \in line, source # "tcp", Receive(s, m)
  PROVE  Polled'
<1> USE DEF Polled
<1>1. /\ UNCHANGED <<source, requests, ticks, delayed, next, sent, pending,
                     givenUp, faults>>
      /\ open' = open \ {s} /\ line' = line \ {m}
      /\ Hears(s, m)
      /\ \/ /\ s.session = current /\ current' = 0
            /\ readings' = readings \cup Messages(s.request, m)
         \/ s.session # current /\ current' = current /\ readings' = readings
  BY DEF Receive
<1>2. Request' = Request /\ Session' = Session
  BY <1>1 DEF Request, Session
<1>3. /\ m \in [session : Session, request : Request, valid : BOOLEAN,
                clean : BOOLEAN]
      /\ s.request \in Request
  BY DEF TypeOK
<1>4. \A r \in Messages(s.request, m) :
         /\ r \in [extract : Request, request : Request,
                   answered : Request, clean : BOOLEAN]
         /\ r.request = s.request /\ r.answered = m.request
  BY <1>3, MessagesTyped
<1>5. readings' \subseteq [extract : Request, request : Request,
                           answered : Request, clean : BOOLEAN]
  BY <1>1, <1>4 DEF TypeOK
<1>6. current' # 0 => \E t \in open' : t.session = current'
  BY <1>1 DEF TypeOK
<1>7. TypeOK'
  BY <1>1, <1>2, <1>5, <1>6 DEF TypeOK
<1>8. OnePlace'
  BY <1>1 DEF OnePlace
<1>9. (source = "rtu" /\ givenUp + faults = 0) =>
        s.session = current /\ m.session = current
  BY DEF Awaited
<1>10. Awaited'
  BY <1>1, <1>8, <1>9 DEF Awaited, OnePlace
<1>11. OwnAnswer'
  <2> SUFFICES ASSUME source # "rtu" \/ givenUp + faults = 0,
                      NEW r \in Messages(s.request, m)
               PROVE  r.answered = r.request
    BY <1>1 DEF OwnAnswer
  <2>1. s.session = m.session
    BY <1>1, <1>9 DEF Hears
  <2> QED BY <2>1, <1>4 DEF OnePlace
<1> QED BY <1>7, <1>8, <1>10, <1>11

(* Time-outs, failures and lost connections are counted, and only take     *)
(* sessions and answers away.                                              *)
LEMMA GiveUpPolled ==
  ASSUME Polled, TimeOut \/ (\E s \in open : SessionFails(s)) \/ ConnectionLost
  PROVE  Polled'
<1> USE DEF Polled
<1>0. /\ requests \in Seq(Extract) /\ Len(requests) \in Nat
      /\ givenUp \in Nat /\ faults \in Nat
  BY BoundsAssumption DEF TypeOK
<1>1. /\ UNCHANGED <<source, requests, ticks, delayed, sent, readings>>
      /\ pending' \subseteq pending /\ line' \subseteq line /\ open' \subseteq open
      /\ next' = next \/ next' = Len(requests) + 1
  BY DEF TimeOut, SessionFails, ConnectionLost, netVars
<1>2. \/ givenUp' = givenUp + 1 /\ faults' = faults
      \/ givenUp' = givenUp /\ faults < MaxFaults /\ faults' = faults + 1
  BY DEF TimeOut, SessionFails, ConnectionLost
<1>3. current' # 0 => \E s \in open' : s.session = current'
  BY DEF TimeOut, SessionFails, ConnectionLost, TypeOK
<1>4. Request' = Request /\ Session' = Session
  BY <1>1 DEF Request, Session
<1>5. givenUp' \in Nat /\ faults' \in 0 .. MaxFaults /\ givenUp' + faults' # 0
  BY <1>0, <1>2, BoundsAssumption DEF TypeOK
<1>6. next' \in 1 .. Len(requests) + 1
  BY <1>0, <1>1 DEF TypeOK
<1>7. TypeOK'
  BY <1>1, <1>3, <1>4, <1>5, <1>6 DEF TypeOK
<1>8. OnePlace'
  BY <1>1 DEF OnePlace
<1>9. Awaited'
  BY <1>5 DEF Awaited
<1>10. OwnAnswer'
  BY <1>1, <1>5 DEF OwnAnswer
<1> QED BY <1>7, <1>8, <1>9, <1>10

(* Every step keeps the invariant.                                         *)
LEMMA StepPolled == Polled /\ [Next]_vars => Polled'
<1> SUFFICES ASSUME Polled, [Next]_vars PROVE Polled'
  OBVIOUS
<1>1. CASE Tick \/ StartRound
  BY <1>1, ClockPolled
<1>2. CASE SendFrame \/ SendRequest
  BY <1>2, SendPolled
<1>3. CASE \E p \in pending, valid, clean \in BOOLEAN : SlaveAnswers(p, valid, clean)
  BY <1>3, AnswerPolled
<1>4. CASE \E m \in line : ReceiveFrame(m)
  BY <1>4, ReceiveFramePolled
<1>5. CASE \E s \in open, m \in line : Receive(s, m)
  <2>1. PICK s \in open, m \in line : Receive(s, m)
    BY <1>5
  <2>2. source # "tcp"
    BY <2>1 DEF Receive, Hears
  <2> QED BY <2>1, <2>2, ReceivePolled
<1>6. CASE TimeOut \/ (\E s \in open : SessionFails(s)) \/ ConnectionLost
  BY <1>6, GiveUpPolled
<1>7. CASE UNCHANGED vars
  BY <1>7 DEF vars, pollVars, netVars, Polled, TypeOK, OnePlace, Awaited, OwnAnswer,
     Request, Session
<1> QED BY <1>1, <1>2, <1>3, <1>4, <1>5, <1>6, <1>7 DEF Next, Poll

(* An extract that is found in the answer to the request that it is taken  *)
(* to answer is found in its own registers.                                *)
LEMMA MatchedIsRight ==
  ASSUME requests \in Seq(Extract),
         \A k, j \in Request : Separate(k, j),
         NEW j \in Request,
         NEW m \in [session : Session, request : Request,
                    valid : BOOLEAN, clean : BOOLEAN],
         m.request = j,
         NEW r \in Messages(j, m)
  PROVE  Right(r)
<1>1. /\ r.extract \in Request /\ r.request = j /\ r.answered = j
      /\ Matches(r.extract, j, j)
  BY DEF Messages
<1> DEFINE e == requests[r.extract]
           a == requests[j]
<1>2. e \in Extract /\ a \in Extract
  BY <1>1 DEF Request
<1>3. /\ e.address \in Nat /\ e.registers \in Nat \ {0} /\ e.function \in 1 .. 4
      /\ a.address \in Nat /\ a.registers \in Nat \ {0} /\ a.function \in 1 .. 4
  BY <1>2 DEF Extract, Function
<1>4. /\ e.function = a.function /\ a.address <= e.address
      /\ a.address + DataLength(j) >= e.address + 2 * e.registers
  BY <1>1 DEF Matches
<1>5. /\ \/ e.unitId = a.unitId /\ e.address = a.address
         \/ e.address < a.address
         \/ a.address + 2 * a.registers < e.address + 2 * e.registers
      /\ a.function \in {1, 2} => a.registers <= 8
  BY <1>1, <1>4 DEF Separate
<1>6. DataLength(j) = IF a.function \in {1, 2} THEN (a.registers + 7) \div 8
                                              ELSE 2 * a.registers
  BY DEF DataLength
<1>7. Right(r) = (/\ a.function = e.function /\ e.function \in {3, 4}
                  /\ a.unitId = e.unitId
                  /\ 2 * a.address + (e.address - a.address) = 2 * e.address
                  /\ a.address + a.registers >= e.address + e.registers)
  BY <1>1 DEF Right
<1> HIDE DEF e, a
<1>8. a.function \in {3, 4}
  <2> SUFFICES ASSUME a.function \in {1, 2} PROVE FALSE
    BY <1>3
  <2>1. (a.registers + 7) \div 8 <= 1
    BY <1>3, <1>5
  <2>2. DataLength(j) <= 1
    BY <2>1, <1>6
  <2>3. DataLength(j) \in Int
    BY <1>3, <1>6
  <2>4. a.address + 1 >= e.address + 2 * e.registers
    BY <2>2, <2>3, <1>3, <1>4
  <2>5. e.address + 2 * e.registers <= a.address + 2 * a.registers
    <3> DEFINE x == a.registers
               y == e.registers
               u == a.address
               v == e.address
    <3>1. x \in Nat /\ x >= 1 /\ y \in Nat /\ u \in Nat /\ v \in Nat
      BY <1>3
    <3>2. u + 1 >= v + 2 * y
      BY <2>4
    <3> HIDE DEF x, y, u, v
    <3>3. v + 2 * y <= u + 2 * x
      BY <3>1, <3>2
    <3> QED BY <3>3 DEF x, y, u, v
  <2>6. e.address = a.address
    BY <2>5, <1>3, <1>4, <1>5
  <2> QED BY <2>4, <2>6, <1>3
<1>9. DataLength(j) = 2 * a.registers
  BY <1>6, <1>8
<1>10. e.unitId = a.unitId /\ e.address = a.address
  BY <1>3, <1>4, <1>5, <1>9
<1>11. a.registers >= e.registers
  BY <1>3, <1>4, <1>9, <1>10
<1> QED BY <1>3, <1>4, <1>7, <1>8, <1>10, <1>11

(* A step that reads nothing keeps what was read; one that reads an answer *)
(* reads it for its own request.                                           *)
LEMMA StepRight ==
  ASSUME Polled, Polled', RightRegisters, [Next]_vars
  PROVE  RightRegisters'
<1> SUFFICES ASSUME \A k, j \in Request : Separate(k, j),
                    source # "rtu" \/ givenUp' + faults' = 0,
                    NEW r \in readings', r.clean
             PROVE  requests' = requests /\ source' = source /\ Right(r)
  <2>1. requests' = requests /\ source' = source
    BY DEF Next, Poll, Tick, StartRound, SendFrame, SendRequest, TimeOut,
       ReceiveFrame, Receive, SlaveAnswers, SessionFails, ConnectionLost, vars
  <2>2. /\ (\A k, j \in Request : Separate(k, j))'
             = (\A k, j \in Request : Separate(k, j))
        /\ \A r \in readings' : Right(r)' = Right(r)
    BY <2>1 DEF Request, Separate, Right
  <2> QED BY <2>1, <2>2 DEF RightRegisters
<1>1. requests' = requests /\ source' = source
  BY DEF Next, Poll, Tick, StartRound, SendFrame, SendRequest, TimeOut,
     ReceiveFrame, Receive, SlaveAnswers, SessionFails, ConnectionLost, vars
<1>2. givenUp \in Nat /\ faults \in Nat
  BY BoundsAssumption DEF Polled, TypeOK
<1>3. givenUp' + faults' = 0 => givenUp + faults = 0
  BY <1>2 DEF Next, Poll, Tick, StartRound, SendFrame, SendRequest, TimeOut,
     ReceiveFrame, Receive, SlaveAnswers, SessionFails, ConnectionLost, vars
<1>4. CASE r \in readings
  BY <1>1, <1>3, <1>4 DEF RightRegisters
<1>5. CASE r \notin readings
  <2>1. PICK m \in line, j \in Request : r \in Messages(j, m)
    <3>1. \/ \E m \in line : r \in Messages(Identified(m.request), m)
          \/ \E s \in open, m \in line : r \in Messages(s.request, m)
      BY <1>5 DEF Next, Poll, Tick, StartRound, SendFrame, SendRequest, TimeOut,
         ReceiveFrame, Receive, SlaveAnswers, SessionFails, ConnectionLost, vars
    <3>2. /\ \A m \in line : m.request \in Request
          /\ \A s \in open : s.request \in Request
      BY DEF Polled, TypeOK
    <3> QED BY <3>1, <3>2, IdentifiedIsOwn DEF Polled, TypeOK
  <2>2. m \in [session : Session, request : Request, valid : BOOLEAN,
               clean : BOOLEAN]
    BY DEF Polled, TypeOK
  <2>3. r.request = j /\ r.answered = m.request
    BY <2>1, <2>2, MessagesTyped
  <2>4. r.answered = r.request
    BY <1>1 DEF Polled, OwnAnswer
  <2> QED BY <1>1, <2>1, <2>2, <2>3, <2>4, MatchedIsRight DEF Polled, TypeOK
<1> QED BY <1>1, <1>4, <1>5

-----------------------------------------------------------------------------
(* The requests on the network, and those among them that the source has   *)
(* left behind.                                                            *)
Out == pending \cup {[session |-> m.session, request |-> m.request] : m \in line}
Left == {p \in Out : p.session # current}

(* A request is left behind by a time-out or a fault only.                 *)
LeftBounded ==
  source # "tcp" =>
    IsFiniteSet(Out) /\ Cardinality(Left) <= givenUp + faults

(* What is on the network belongs to sessions, one request each.           *)
LEMMA OutIsOnePlace ==
  ASSUME Polled
  PROVE  /\ \A p \in Out : p.session \in Session
         /\ \A p, q \in Out : p.session = q.session => p = q
<1>1. \A p \in Out : p.session \in Session
  BY DEF Polled, TypeOK, Out
<1>2. ASSUME NEW p \in Out, NEW q \in Out, p.session = q.session
      PROVE  p = q
  <2>1. CASE p \in pending /\ q \in pending
    BY <1>2, <2>1 DEF Polled, OnePlace
  <2>2. CASE p \notin pending /\ q \notin pending
    <3>1. PICK m \in line : p = [session |-> m.session, request |-> m.request]
      BY <2>2 DEF Out
    <3>2. PICK n \in line : q = [session |-> n.session, request |-> n.request]
      BY <2>2 DEF Out
    <3>3. m.session = n.session
      BY <1>2, <3>1, <3>2
    <3> QED BY <3>1, <3>2, <3>3 DEF Polled, OnePlace
  <2>3. CASE (p \in pending) # (q \in pending)
    BY <1>2, <2>3 DEF Polled, OnePlace, Out
  <2> QED BY <2>1, <2>2, <2>3
<1> QED BY <1>1, <1>2

(* At most one request on the network has not been left behind.            *)
LEMMA AllButOneLeft ==
  ASSUME Polled, IsFiniteSet(Out)
  PROVE  /\ IsFiniteSet(Left)
         /\ Cardinality(Out) \in Nat /\ Cardinality(Left) \in Nat
         /\ Cardinality(Out) <= Cardinality(Left) + 1
<1>1. IsFiniteSet(Left) /\ Cardinality(Left) \in Nat /\ Cardinality(Out) \in Nat
  BY FS_Subset, FS_CardinalityType DEF Left
<1>2. CASE Out = Left
  BY <1>1, <1>2
<1>3. CASE Out # Left
  <2>1. PICK p \in Out : p.session = current
    BY <1>3 DEF Left
  <2>2. Out = Left \cup {p}
    BY <2>1, OutIsOnePlace DEF Left
  <2>3. p \notin Left
    BY <2>1 DEF Left
  <2>4. Cardinality(Out) = Cardinality(Left) + 1
    BY <1>1, <2>2, <2>3, FS_AddElement
  <2> QED BY <1>1, <2>4
<1> QED BY <1>1, <1>2, <1>3

(* An answer that is taken off the network takes its request with it.      *)
LEMMA TakenFromOut ==
  ASSUME Polled, NEW m \in line, line' = line \ {m}, pending' = pending
  PROVE  LET p == [session |-> m.session, request |-> m.request]
         IN p \in Out /\ Out' = Out \ {p}
<1> DEFINE p == [session |-> m.session, request |-> m.request]
<1>1. p \in Out
  BY DEF Out
<1>2. p \notin pending
  BY DEF Polled, OnePlace
<1>3. \A n \in line : n # m =>
         [session |-> n.session, request |-> n.request] # p
  BY DEF Polled, OnePlace
<1>4. Out' = Out \ {p}
  BY <1>2, <1>3 DEF Out
<1> QED BY <1>1, <1>4

(* A step leaves a request behind if it counts a time-out or a fault; what *)
(* a step of mistaken identity leaves behind makes up for what it takes.   *)
LEMMA StepLeft ==
  ASSUME Polled, Polled', LeftBounded, [Next]_vars
  PROVE  LeftBounded'
<1>0. /\ givenUp \in Nat /\ faults \in Nat /\ sent \in Nat
      /\ givenUp' \in Nat /\ faults' \in Nat
  BY BoundsAssumption DEF Polled, TypeOK
<1>1. source' = source
  BY DEF Next, Poll, Tick, StartRound, SendFrame, SendRequest, TimeOut,
     ReceiveFrame, Receive, SlaveAnswers, SessionFails, ConnectionLost, vars
<1> SUFFICES ASSUME source # "tcp"
             PROVE  IsFiniteSet(Out') /\ Cardinality(Left') <= givenUp' + faults'
  BY <1>1 DEF LeftBounded
<1>2. IsFiniteSet(Out) /\ Cardinality(Left) <= givenUp + faults
  BY DEF LeftBounded
<1>3. /\ IsFiniteSet(Left) /\ Cardinality(Out) \in Nat /\ Cardinality(Left) \in Nat
      /\ Cardinality(Out) <= Cardinality(Left) + 1
  BY <1>2, AllButOneLeft
<1>4. \A p \in Out : p.session \in Session
  BY OutIsOnePlace
<1>5. CASE Tick \/ StartRound \/ UNCHANGED vars
  <2>1. UNCHANGED <<current, pending, line, givenUp, faults>>
    BY <1>5 DEF Tick, StartRound, vars, pollVars, netVars
  <2>2. Out' = Out /\ Left' = Left
    BY <2>1 DEF Out, Left
  <2> QED BY <1>2, <2>1, <2>2
<1>6. CASE SendRequest
  <2> DEFINE new == [session |-> sent + 1, request |-> next]
  <2>1. /\ UNCHANGED <<line, givenUp, faults>> /\ current = 0
        /\ pending' = pending \cup {new} /\ current' = sent + 1
    BY <1>6 DEF SendRequest
  <2>2. Out' = Out \cup {new}
    BY <2>1 DEF Out
  <2>3. \A p \in Out : p.session # 0 /\ p.session # sent + 1
    BY <1>0, <1>4 DEF Session
  <2>4. Left' = Out /\ Left = Out
    BY <2>1, <2>2, <2>3 DEF Left
  <2>5. IsFiniteSet(Out')
    BY <1>2, <2>2, FS_AddElement
  <2> QED BY <1>2, <2>1, <2>4, <2>5
<1>7. CASE \E p \in pending, valid, clean \in BOOLEAN : SlaveAnswers(p, valid, clean)
  <2>1. PICK p \in pending, valid \in BOOLEAN, clean \in BOOLEAN :
              SlaveAnswers(p, valid, clean)
    BY <1>7
  <2> DEFINE m == [session |-> p.session, request |-> p.request,
                   valid |-> valid, clean |-> clean]
             key(n) == [session |-> n.session, request |-> n.request]
  <2>2. /\ pending' = pending \ {p} /\ current' = current /\ givenUp' = givenUp
        /\ line' = line \cup {m}
        /\ faults' >= faults
    BY <1>0, <2>1 DEF SlaveAnswers, pollVars
  <2>3. p = key(m)
    BY DEF Polled, TypeOK
  <2>4. Out' = Out
    <3>1. Out = pending \cup {key(n) : n \in line}
      BY DEF Out
    <3>2. Out' = pending' \cup {key(n) : n \in line'}
      BY DEF Out
    <3> HIDE DEF m, key
    <3>3. {key(n) : n \in line \cup {m}} = {key(n) : n \in line} \cup {p}
      BY <2>3
    <3> QED BY <2>2, <3>1, <3>2, <3>3
  <2>5. Left' = Left
    BY <2>2, <2>4 DEF Left
  <2> QED BY <1>0, <1>2, <1>3, <2>2, <2>4, <2>5
<1>8. CASE \E s \in open, m \in line : Receive(s, m)
  <2>1. PICK s \in open, m \in line : Receive(s, m)
    BY <1>8
  <2>2. /\ UNCHANGED <<pending, givenUp, faults>> /\ line' = line \ {m}
        /\ current' = 0 \/ current' = current
    BY <2>1 DEF Receive
  <2>3. PICK p \in Out : Out' = Out \ {p}
    BY <2>2, TakenFromOut
  <2>4. IsFiniteSet(Out') /\ Cardinality(Out') = Cardinality(Out) - 1
    BY <1>2, <2>3, FS_RemoveElement
  <2>5. CASE current' = 0
    <3>1. \A q \in Out : q.session # 0
      BY <1>0, <1>4 DEF Session
    <3>2. Left' = Out'
      BY <2>3, <2>5, <3>1 DEF Left
    <3> QED BY <1>0, <1>2, <1>3, <2>2, <2>4, <3>2
  <2>6. CASE current' = current
    <3>1. Left' \in SUBSET Left
      BY <2>3, <2>6 DEF Left
    <3>2. Cardinality(Left') <= Cardinality(Left) /\ Cardinality(Left') \in Nat
      BY <1>3, <3>1, FS_Subset, FS_CardinalityType
    <3> QED BY <1>0, <1>2, <1>3, <2>2, <2>4, <3>2
  <2> QED BY <2>2, <2>5, <2>6
<1>9. CASE TimeOut \/ \E s \in open : SessionFails(s)
  <2>1. /\ UNCHANGED <<pending, line>>
        /\ givenUp' + faults' = givenUp + faults + 1
    <3>1. CASE TimeOut
      BY <1>0, <3>1 DEF TimeOut, netVars
    <3>2. CASE \E s \in open : SessionFails(s)
      BY <1>0, <3>2 DEF SessionFails, netVars
    <3> QED BY <1>9, <3>1, <3>2
  <2>2. Out' = Out
    BY <2>1 DEF Out
  <2>3. Left' \in SUBSET Out
    BY <2>2 DEF Left
  <2>4. Cardinality(Left') <= Cardinality(Out) /\ Cardinality(Left') \in Nat
    BY <1>2, <2>3, FS_Subset, FS_CardinalityType
  <2>5. Cardinality(Left') <= givenUp + faults + 1
    BY <1>0, <1>2, <1>3, <2>4
  <2> QED BY <1>2, <2>1, <2>2, <2>5
<1>10. ~SendFrame /\ ~ConnectionLost /\ \A m \in line : ~ReceiveFrame(m)
  BY DEF SendFrame, ConnectionLost, ReceiveFrame
<1> QED BY <1>5, <1>6, <1>7, <1>8, <1>9, <1>10 DEF Next, Poll

-----------------------------------------------------------------------------
(* The types of the state, and a session for every wait (TypeOK).          *)
THEOREM TypeCorrect == Spec => []TypeOK
<1>1. Polled => TypeOK
  BY DEF Polled
<1> QED BY <1>1, InitPolled, StepPolled, PTL DEF Spec

(* A message is built from the answer to its own request, whatever the     *)
(* order of answers and the time-outs, except on a serial line after one   *)
(* of them (OwnAnswer; TCPMessageFactory.scala:31,                         *)
(* ModbusRTUSource.scala:105-135).                                         *)
THEOREM AnswersAreOwn == Spec => []OwnAnswer
<1>1. Polled => OwnAnswer
  BY DEF Polled
<1> QED BY <1>1, InitPolled, StepPolled, PTL DEF Spec

(* With separate extracts, a message has the value of the registers that   *)
(* are configured for it (RightRegisters; Extract.scala:30-43).            *)
THEOREM RegistersAreRight == Spec => []RightRegisters
<1>1. Init => RightRegisters
  BY DEF Init, RightRegisters
<1>2. Polled /\ Polled' /\ RightRegisters /\ [Next]_vars => RightRegisters'
  BY StepRight
<1> QED BY <1>1, <1>2, InitPolled, StepPolled, PTL DEF Spec

(* One request is on the network, and one for each that was left there.    *)
OneAndThoseLeft == source # "tcp" => Cardinality(Out) <= 1 + givenUp + faults

(* A source that waits for answers has one request on the network, and one *)
(* more for each that it gave up or that failed: nothing withdraws those   *)
(* (ModbusRTUSource.scala:105-135).                                        *)
THEOREM WaitsForOne == Spec => []OneAndThoseLeft
<1>1. Init => LeftBounded
  <2> SUFFICES ASSUME Init
               PROVE  IsFiniteSet(Out) /\ Cardinality(Left) <= givenUp + faults
    BY DEF LeftBounded
  <2>1. Out = {} /\ Left = {} /\ givenUp = 0 /\ faults = 0
    BY DEF Init, Out, Left
  <2> QED BY <2>1, FS_EmptySet
<1>2. Polled /\ Polled' /\ LeftBounded /\ [Next]_vars => LeftBounded'
  BY StepLeft
<1>3. Polled /\ LeftBounded => OneAndThoseLeft
  <2> SUFFICES ASSUME Polled, LeftBounded, source # "tcp"
               PROVE  Cardinality(Out) <= 1 + givenUp + faults
    BY DEF OneAndThoseLeft
  <2>1. givenUp \in Nat /\ faults \in Nat
    BY BoundsAssumption DEF Polled, TypeOK
  <2> QED BY <2>1, AllButOneLeft DEF LeftBounded
<1> QED BY <1>1, <1>2, <1>3, InitPolled, StepPolled, PTL DEF Spec

=============================================================================
