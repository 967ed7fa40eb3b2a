----------------------------- MODULE ModbusPoll -----------------------------
(***************************************************************************)
(* A Modbus source of the collector.  Ticks start rounds; a round sends    *)
(* one request for each configured extract; the answer of a slave is       *)
(* turned into one message for each extract that it is taken to contain.   *)
(* "tcp" sends all the requests of a round over one connection.  "rtu-tcp" *)
(* and "rtu" wait for an answer, or a time-out, before the next request;   *)
(* each request is a session of its own, with a connection of its own for  *)
(* "rtu-tcp", and on the only serial port for "rtu".                       *)
(***************************************************************************)
EXTENDS Integers, Sequences, FiniteSets

CONSTANTS
  Sources,    \* the kinds of source to consider
  Layouts,    \* the dictionaries of extracts to consider
  MaxTicks,   \* bound: number of ticks
  MaxFaults   \* bound: number of garbled answers and of failed connections

SourceKind == {"tcp", "rtu-tcp", "rtu"}

(* Function codes: 1 output_coils, 2 input_contacts, 3 holding_registers,  *)
(* 4 input_registers.                                                      *)
Function == 1 .. 4

(* An extract: registers is the registerCount of its type.                 *)
Extract == [function : Function, unitId : Nat, address : Nat,
            registers : Nat \ {0}]

ASSUME SourcesAssumption == Sources \subseteq SourceKind
(* The configuration has a list of extracts for each function.             *)
ASSUME LayoutsAssumption ==
  /\ Layouts \subseteq [Function -> Seq(Extract)]
  /\ \A l \in Layouts : \A f \in Function :
       \A i \in DOMAIN l[f] : l[f][i].function = f
ASSUME BoundsAssumption == MaxTicks \in Nat /\ MaxFaults \in Nat

VARIABLES
  source,     \* the kind of the source
  requests,   \* its requests, in the order in which a round sends them
  ticks,      \* number of ticks so far
  delayed,    \* a tick waits in the buffer of the poller
  next,       \* the next request of the round; after the last one, no round
  sent,       \* number of requests sent so far: it numbers the sessions
  current,    \* the session that the source waits for, or 0
  open,       \* sessions that still read from their connection
  pending,    \* requests that the slave has not answered
  line,       \* answers on their way
  readings,   \* the messages produced: which extract, from which answer
  givenUp,    \* number of requests that timed out
  faults      \* number of faults so far

pollVars == <<ticks, delayed, next, current, open>>
netVars == <<sent, pending, line>>
vars == <<source, requests, pollVars, netVars, readings, givenUp, faults>>

Request == 1 .. Len(requests)
Session == 1 .. sent

(* No round is under way.                                                  *)
Idle == next > Len(requests) /\ current = 0

-----------------------------------------------------------------------------
(* Requests and responses.                                                 *)

(* One request for each extract, with its function, unit and registers; the*)
(* functions follow one another in the order of the dictionary.            *)
Prepared(l) == l[1] \o l[4] \o l[2] \o l[3]

(* The same identifier for all requests.                                   *)
TransactionIdConstant(j) == 0

(* The transaction identifier: the index among the requests of a function. *)
TransactionId(j) ==
  Cardinality({k \in 1 .. j : requests[k].function = requests[j].function}) - 1

(* The request that a TCP response is an answer to, by its function, unit  *)
(* and transaction identifier.                                             *)
Identified(j) ==
  CHOOSE k \in Request : /\ requests[k].function = requests[j].function
                         /\ requests[k].unitId = requests[j].unitId
                         /\ TransactionId(k) = TransactionId(j)

(* The length of the data of an answer: two bytes for a register, and one  *)
(* bit for a coil or a contact.                                            *)
DataLength(j) ==
  IF requests[j].function \in {1, 2} THEN (requests[j].registers + 7) \div 8
                                     ELSE 2 * requests[j].registers

(* Answers that end far enough are taken, wherever they start.             *)
MatchesFromAnywhere(k, j, a) ==
  /\ requests[k].function = requests[a].function
  /\ requests[a].unitId = requests[j].unitId
  /\ requests[j].address + DataLength(a)
       >= requests[k].address + 2 * requests[k].registers

(* Extract k is looked for in the answer to request a, taken for that to j.*)
(* Neither the unit of the extract nor the width of registers counts.      *)
Matches(k, j, a) ==
  /\ requests[k].function = requests[a].function
  /\ requests[a].unitId = requests[j].unitId
  /\ requests[j].address <= requests[k].address
  /\ requests[j].address + DataLength(a)
       >= requests[k].address + 2 * requests[k].registers

(* The messages made of answer m, taken for that to request j.             *)
Messages(j, m) ==
  IF m.valid /\ requests[j].function = requests[m.request].function
  THEN { [extract |-> k, request |-> j, answered |-> m.request,
          clean |-> m.clean] : k \in {k \in Request : Matches(k, j, m.request)} }
  ELSE {}

-----------------------------------------------------------------------------
Init ==
  /\ source \in Sources
  /\ \E l \in Layouts : requests = Prepared(l)
  /\ ticks = 0
  /\ delayed = FALSE
  /\ next = Len(requests) + 1
  /\ sent = 0
  /\ current = 0
  /\ open = {}
  /\ pending = {}
  /\ line = {}
  /\ readings = {}
  /\ givenUp = 0
  /\ faults = 0

(* A tick enters the buffer of one place; it replaces the one that waits.  *)
Tick ==
  /\ ticks < MaxTicks
  /\ ticks' = ticks + 1
  /\ delayed' = TRUE
  /\ UNCHANGED <<source, requests, next, current, open, netVars, readings,
                 givenUp, faults>>

(* mapConcat asks for the next tick when its requests are used up, and it  *)
(* is itself asked when mapAsync(1) has emitted its last answer.           *)
StartRound ==
  /\ delayed
  /\ Idle
  /\ delayed' = FALSE
  /\ next' = 1
  /\ UNCHANGED <<source, requests, ticks, current, open, netVars, readings,
                 givenUp, faults>>

(* "tcp" does not wait for answers.                                        *)
SendFrame ==
  /\ source = "tcp"
  /\ next \in Request
  /\ next' = next + 1
  /\ sent' = sent + 1
  /\ pending' = pending \cup {[session |-> sent + 1, request |-> next]}
  /\ UNCHANGED <<source, requests, ticks, delayed, current, open, line,
                 readings, givenUp, faults>>

(* sendRequest: a session is materialised for one request.                 *)
SendRequest ==
  /\ source # "tcp"
  /\ current = 0
  /\ next \in Request
  /\ next' = next + 1
  /\ sent' = sent + 1
  /\ current' = sent + 1
  /\ open' = open \cup {[session |-> sent + 1, request |-> next]}
  /\ pending' = pending \cup {[session |-> sent + 1, request |-> next]}
  /\ UNCHANGED <<source, requests, ticks, delayed, line, readings, givenUp,
                 faults>>

(* A slave answers, by the data or an error, in its own time.  A serial    *)
(* frame may be garbled: the response with an invalid CRC is built, and    *)
(* dropped, so that the data are used anyway (ModbusResponseFactory:61).   *)
SlaveAnswers(p, valid, clean) ==
  /\ p \in pending
  /\ ~clean => valid /\ source # "tcp" /\ faults < MaxFaults
  /\ faults' = IF clean THEN faults ELSE faults + 1
  /\ pending' = pending \ {p}
  /\ line' = line \cup {[session |-> p.session, request |-> p.request,
                         valid |-> valid, clean |-> clean]}
  /\ UNCHANGED <<source, requests, pollVars, sent, readings, givenUp>>

ReceiveFrame(m) ==
  /\ source = "tcp"
  /\ m \in line
  /\ line' = line \ {m}
  /\ readings' = readings \cup Messages(Identified(m.request), m)
  /\ UNCHANGED <<source, requests, pollVars, sent, pending, givenUp, faults>>

(* All serial sessions read from the same port.                            *)
Hears(s, m) == source = "rtu" \/ (source = "rtu-tcp" /\ s.session = m.session)

(* The source is not told that its session has its answer.                *)
ReceiveUnnoticed(s, m) ==
  /\ s \in open
  /\ m \in line
  /\ Hears(s, m)
  /\ open' = open \ {s}
  /\ line' = line \ {m}
  /\ readings' = readings \cup Messages(s.request, m)
  /\ UNCHANGED <<current, source, requests, ticks, delayed, next, sent, pending,
                 givenUp, faults>>

(* Session s gets an answer, and ends.  It is of use only for the session  *)
(* that the source still waits for.                                        *)
Receive(s, m) ==
  /\ s \in open
  /\ m \in line
  /\ Hears(s, m)
  /\ open' = open \ {s}
  /\ line' = line \ {m}
  /\ IF s.session = current
     THEN /\ current' = 0
          /\ readings' = readings \cup Messages(s.request, m)
     ELSE UNCHANGED <<current, readings>>
  /\ UNCHANGED <<source, requests, ticks, delayed, next, sent, pending, givenUp,
                 faults>>

(* The future is that of the response alone.                               *)
NoTimeOut == FALSE

(* breakOnTimeout fails the future first; the session is not cancelled, and*)
(* mapAsync resumes with the next request.                                 *)
TimeOut ==
  /\ current # 0
  /\ current' = 0
  /\ givenUp' = givenUp + 1
  /\ UNCHANGED <<source, requests, ticks, delayed, next, open, netVars, readings,
                 faults>>

(* A session fails, or ends without an answer.                             *)
SessionFails(s) ==
  /\ faults < MaxFaults
  /\ s \in open
  /\ faults' = faults + 1
  /\ open' = open \ {s}
  /\ current' = IF current = s.session THEN 0 ELSE current
  /\ UNCHANGED <<source, requests, ticks, delayed, next, netVars, readings,
                 givenUp>>

(* The TCP connection is lost: RestartFlow builds the flow anew, without   *)
(* the rest of the round and the answers to come.                          *)
ConnectionLost ==
  /\ source = "tcp"
  /\ faults < MaxFaults
  /\ faults' = faults + 1
  /\ next' = Len(requests) + 1
  /\ pending' = {}
  /\ line' = {}
  /\ UNCHANGED <<source, requests, ticks, delayed, current, open, sent, readings,
                 givenUp>>

-----------------------------------------------------------------------------
(* The steps of the source itself, its timer included.                     *)
Poll ==
  \/ StartRound
  \/ SendFrame
  \/ SendRequest
  \/ TimeOut
  \/ \E m \in line : ReceiveFrame(m)
  \/ \E s \in open, m \in line : Receive(s, m)

Next ==
  \/ Tick
  \/ Poll
  \/ \E p \in pending, valid, clean \in BOOLEAN : SlaveAnswers(p, valid, clean)
  \/ \E s \in open : SessionFails(s)
  \/ ConnectionLost

Spec == Init /\ [][Next]_vars

(* The stages and the timer run; slaves need not answer, ticks may stop.   *)
FairSpec == Spec /\ WF_vars(Poll)

-----------------------------------------------------------------------------
(* Type invariant.  A session that is waited for is open.                  *)
TypeOK ==
  /\ source \in Sources
  /\ requests \in Seq(Extract)
  /\ ticks \in 0 .. MaxTicks
  /\ delayed \in BOOLEAN
  /\ next \in 1 .. Len(requests) + 1
  /\ sent \in Nat
  /\ current # 0 => \E s \in open : s.session = current
  /\ open \subseteq [session : Session, request : Request]
  /\ pending \subseteq [session : Session, request : Request]
  /\ line \subseteq [session : Session, request : Request,
                     valid : BOOLEAN, clean : BOOLEAN]
  /\ readings \subseteq [extract : Request, request : Request,
                         answered : Request, clean : BOOLEAN]
  /\ givenUp \in Nat
  /\ faults \in 0 .. MaxFaults

(* A message is built from the answer to the request that it is taken to   *)
(* answer, in any order of answers, with the same identifiers in every     *)
(* round, and with late ones.  Only a serial source that has given up a    *)
(* request, or whose session failed, may take its late answer for that of  *)
(* the next one (ModbusRTUSource.scala:105-135).                           *)
OwnAnswer ==
  (source # "rtu" \/ givenUp + faults = 0) =>
    \A r \in readings : r.answered = r.request

(* The code compares registers with bytes and forgets the unit of extracts.*)
(* Extracts k and j are separate when that does not confuse them, and when *)
(* an answer about coils or contacts is too short to be of use.            *)
Separate(k, j) ==
  /\ \/ requests[k].function # requests[j].function
     \/ requests[k].unitId = requests[j].unitId
          /\ requests[k].address = requests[j].address
     \/ requests[k].address < requests[j].address
     \/ requests[j].address + 2 * requests[j].registers
          < requests[k].address + 2 * requests[k].registers
  /\ requests[j].function \in {1, 2} => requests[j].registers <= 8

(* The value of an extract is read from its own unit and registers.        *)
Right(r) ==
  LET e == requests[r.extract]
      q == requests[r.request]
      a == requests[r.answered]
  IN /\ a.function = e.function /\ e.function \in {3, 4}
     /\ a.unitId = e.unitId
     /\ 2 * a.address + (e.address - q.address) = 2 * e.address
     /\ a.address + a.registers >= e.address + e.registers

(* Extract.scala:24-26: an extract is only read from responses that comply *)
(* with it.  So it is with separate extracts, intact answers, and, on a    *)
(* serial line, no request given up.                                       *)
RightRegisters ==
  ( /\ \A k, j \in Request : Separate(k, j)
    /\ source # "rtu" \/ givenUp + faults = 0 ) =>
    \A r \in readings : r.clean => Right(r)

(* collecting_ts.inc:149: "Only once request is submitted to the network at*)
(* a time", and :165: the deadline of an answer terminates its session.    *)
OneAtATime == source = "rtu" => \A s, t \in open : s = t

(* Slaves that never answer do not stop the source: a round ends, and the  *)
(* tick that waits for its end starts another one (PollSource.scala:17-18).*)
RoundsEnd == delayed ~> ~delayed

=============================================================================
