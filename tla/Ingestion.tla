------------------------------ MODULE Ingestion ------------------------------
(***************************************************************************)
(* How messages reach the Processor, whose indexes TagIndex follows: by a  *)
(* request to an HTTP interface, which answers without waiting for Kafka,  *)
(* or through an MQTT broker and the ingestion stream, whose Kafka sink    *)
(* encodes messages in a way that the Processor does not understand.       *)
(***************************************************************************)
EXTENDS TagIndex

CONSTANTS
  Request,      \* requests that clients post
  Carries,      \* Carries[r]: the messages in the body of request r
  Published,    \* messages that clients publish to the MQTT broker
  MaxFaults     \* bound on the failures of the ingestion and of Kafka

ASSUME IngestionAssumption ==
  /\ Carries \in [Request -> SUBSET (Message \ Published)]
  /\ \A r, q \in Request : r # q => Carries[r] \cap Carries[q] = {}
  /\ MaxFaults \in Nat

VARIABLES
  answer,      \* answer[r]: how far request r is
  producing,   \* messages in the buffer of the Kafka producer of an interface
  relaying,    \* messages that the ingestion stream took from the MQTT broker
  gone,        \* history: messages that a fault took before they were in Kafka
  faults       \* number of faults

ingestionVars == <<answer, producing, relaying, gone, faults>>
allVars == <<vars, ingestionVars>>

IngestionInit ==
  /\ Init
  /\ answer = [r \in Request |-> "none"]
  /\ producing = {} /\ relaying = {} /\ gone = {}
  /\ faults = 0

(* A request comes; its token is submitted to the authentication service.  *)
Post(r) ==
  /\ answer[r] = "none"
  /\ answer' = [answer EXCEPT ![r] = "verifying"]
  /\ UNCHANGED <<vars, producing, relaying, gone, faults>>

(* The service gives no user, or does not answer.                          *)
Reject(r) ==
  /\ answer[r] = "verifying"
  /\ answer' = [answer EXCEPT ![r] = "rejected"]
  /\ UNCHANGED <<vars, producing, relaying, gone, faults>>

(* Only one message of the body is sent.                                   *)
AcceptOne(r) ==
  /\ answer[r] = "verifying"
  /\ answer' = [answer EXCEPT ![r] = "ok"]
  /\ producing' = producing \cup {CHOOSE m \in Carries[r] : TRUE}
  /\ UNCHANGED <<vars, relaying, gone, faults>>

(* Every message is given to the producer, and the request is answered:    *)
(* nobody looks at the outcome of the sendings.                            *)
Accept(r) ==
  /\ answer[r] = "verifying"
  /\ answer' = [answer EXCEPT ![r] = "ok"]
  /\ producing' = producing \cup Carries[r]
  /\ UNCHANGED <<vars, relaying, gone, faults>>

Produce(m) ==
  /\ m \in producing
  /\ producing' = producing \ {m}
  /\ Send(m)
  /\ UNCHANGED <<answer, relaying, gone, faults>>

(* The broker forgets a message that the source has taken (atMostOnce).    *)
Take(m) ==
  /\ m \in Published \ (relaying \cup gone) /\ at[m] = "unsent"
  /\ relaying' = relaying \cup {m}
  /\ UNCHANGED <<vars, answer, producing, gone, faults>>

Relay(m) ==
  /\ m \in relaying
  /\ relaying' = relaying \ {m}
  /\ Send(m)
  /\ UNCHANGED <<answer, producing, gone, faults>>

(* The producer gives up a message.                                        *)
GiveUp(m) ==
  /\ faults < MaxFaults /\ faults' = faults + 1
  /\ m \in producing
  /\ producing' = producing \ {m}
  /\ gone' = gone \cup {m}
  /\ UNCHANGED <<vars, answer, relaying>>

(* The interface stops: its clients get no answer.                         *)
StopInterface ==
  /\ faults < MaxFaults /\ faults' = faults + 1
  /\ answer' = [r \in Request |->
                  IF answer[r] = "verifying" THEN "broken" ELSE answer[r]]
  /\ producing' = {}
  /\ gone' = gone \cup producing
  /\ UNCHANGED <<vars, relaying>>

(* A source or a sink of the ingestion stream fails and is built again.    *)
RestartStream ==
  /\ faults < MaxFaults /\ faults' = faults + 1
  /\ relaying' = {}
  /\ gone' = gone \cup relaying
  /\ UNCHANGED <<vars, answer, producing>>

(* The bytes of a published message are not the JSON text that the         *)
(* Processor parses: the exception fails its whole stream, which nothing   *)
(* starts again.                                                           *)
Choke(m) ==
  /\ m \in Published /\ at[m] = "topic"
  /\ Fail
  /\ UNCHANGED crashes

Processing ==
  /\ \/ Progress /\ \A m \in Published : at'[m] = at[m]
     \/ \E m \in Published : Choke(m)
  /\ UNCHANGED ingestionVars

Producing == \E m \in Message : Produce(m)

IngestionNext ==
  \/ \E r \in Request : Post(r) \/ Reject(r) \/ Accept(r)
  \/ Producing
  \/ \E m \in Message : Take(m) \/ Relay(m) \/ GiveUp(m)
  \/ StopInterface \/ RestartStream
  \/ Processing
  \/ (Crash \/ Start) /\ UNCHANGED ingestionVars

(* The producer sends what it has, and the Processor works while it runs.  *)
IngestionSpec ==
  /\ IngestionInit /\ [][IngestionNext]_allVars
  /\ WF_allVars(Producing) /\ WF_allVars(Processing)

-----------------------------------------------------------------------------
(* The Processor writes and indexes a message of a supported type, unless  *)
(* it has no value to write.                                               *)
Treatable(m) == m \in Supported /\ ObsShards[m] # {}

(* Each message of a request that was answered OK ends up in the indexes   *)
(* of its metric and of its tags, unless a fault takes it on its way, or   *)
(* the Processor fails or is down: nothing else comes between the answer,  *)
(* which waits for nothing, and the search that finds the series. Messages *)
(* that the Processor does not treat are discarded after the same answer.  *)
AcceptedIsFound ==
  \A r \in Request : \A m \in Carries[r] :
    answer[r] = "ok" ~>
      \/ Treatable(m) /\ Found(m)
      \/ ~ Treatable(m) /\ at[m] \in {"discarded", "stored"}
      \/ m \in gone \/ at[m] = "lost" \/ ~ running
=============================================================================
