----------------------------- MODULE Submission -----------------------------
(***************************************************************************)
(* The collector's way from its sources to the ingestion layer.  Messages  *)
(* go through a durable AMQP queue; a second stream takes them from the    *)
(* queue, broadcasts each one to every configured sink, zips the outputs   *)
(* of the sinks by position, and acknowledges the message that the first   *)
(* sink put into the zipped row.  Either stream is restarted when it       *)
(* fails: the queue then delivers again what was not acknowledged.         *)
(***************************************************************************)
EXTENDS Naturals, Sequences, FiniteSets

CONSTANTS
  Messages,     \* bound: number of messages that the sources produce
  Setups,       \* the configurations of "sinks" to consider
  Slots,        \* parallelism of HttpSender (4)
  Prefetch,     \* bufferSize of the committable AMQP source (10)
  MaxRestarts   \* bound: number of failures of the submission stream

(* "stdout/json" is "stdout", "mqtt/pb" and "mqtt/json" are "mqtt".        *)
Kind == {"http", "mqtt", "stdout"}

ASSUME MessagesAssumption == Messages \in Nat
ASSUME SetupsAssumption == Setups \subseteq Seq(Kind)
ASSUME SlotsAssumption == Slots \in Nat \ {0}
ASSUME PrefetchAssumption == Prefetch \in Nat \ {0}
ASSUME RestartsAssumption == MaxRestarts \in Nat

(* Messages are named by the order in which the sources produce them.      *)
Message == 1 .. Messages

VARIABLES
  sinks,      \* the configured sinks, in the order of collector.conf
  collected,  \* number of messages produced by the sources so far
  dropped,    \* messages lost before they reached the queue
  queue,      \* messages in the queue, to be delivered the oldest first
  unacked,    \* messages delivered to the stream and not acknowledged yet
  acking,     \* those whose acknowledgement is on its way to the broker
  acked,      \* messages the broker has forgotten
  working,    \* working[i]: messages that sink i is sending
  ready,      \* ready[i]: messages that sink i offers to the zip, in order
  broken,     \* broken[i]: the MQTT connection of sink i is gone
  taken,      \* taken[i]: messages that the target of sink i accepted
  refused,    \* refused[i]: messages that got an answer other than a success
  restarts    \* number of failures of the submission stream so far

streamVars == <<unacked, acking, working, ready, broken>>
vars == <<sinks, collected, dropped, queue, streamVars, acked, taken, refused,
          restarts>>

Sink == DOMAIN sinks

(* The stages that need no answer before they emit what they were given.   *)
IsDirect(i) == sinks[i] \in {"mqtt", "stdout"}

Init ==
  /\ sinks \in Setups
  /\ collected = 0
  /\ dropped = {}
  /\ queue = {}
  /\ unacked = {}
  /\ acking = {}
  /\ acked = {}
  /\ working = [i \in Sink |-> {}]
  /\ ready = [i \in Sink |-> <<>>]
  /\ broken = [i \in Sink |-> FALSE]
  /\ taken = [i \in Sink |-> {}]
  /\ refused = [i \in Sink |-> {}]
  /\ restarts = 0

-----------------------------------------------------------------------------
(* The buffer.                                                             *)

(* A message of a source reaches the durable queue, or is lost with the    *)
(* sink that RestartSink replaces: nobody confirms a publication.          *)
Collect(reaches) ==
  /\ collected < Messages
  /\ collected' = collected + 1
  /\ queue' = IF reaches THEN queue \cup {collected + 1} ELSE queue
  /\ dropped' = IF reaches THEN dropped ELSE dropped \cup {collected + 1}
  /\ UNCHANGED <<sinks, streamVars, acked, taken, refused, restarts>>

-----------------------------------------------------------------------------
(* The submission stream.                                                  *)

(* A message in the inlet of the zip no longer counts for mapAsyncUnordered.*)
InOwnBuffer(i) == IF ready[i] = <<>> THEN 0 ELSE Len(ready[i]) - 1

HasRoomBuffered(i) ==
  \/ /\ sinks[i] = "http"
     /\ Cardinality(working[i]) + InOwnBuffer(i) < Slots
  \/ IsDirect(i) /\ Len(ready[i]) < Slots /\ working[i] = {}

HasRoomConnected(i) ==
  \/ /\ sinks[i] = "http"
     /\ Cardinality(working[i]) + InOwnBuffer(i) < Slots
  \/ IsDirect(i) /\ ready[i] = <<>> /\ working[i] = {} /\ ~broken[i]

(* The sink has demand.  A direct stage is pulled when the zip has used its*)
(* last message; MqttSink takes a message when the previous is published.  *)
HasRoom(i) ==
  \/ /\ sinks[i] = "http"
     /\ Cardinality(working[i]) + InOwnBuffer(i) < Slots
  \/ IsDirect(i) /\ ready[i] = <<>> /\ working[i] = {}

Oldest == CHOOSE m \in queue : \A n \in queue : m <= n

(* A message enters every sink: stdout prints it, stdout and mqtt emit it  *)
(* at once; a broken MQTT connection is left out by the sender's broadcast.*)
EnterSinks(m) ==
  /\ working' = [i \in Sink |->
                   IF sinks[i] = "stdout" \/ broken[i]
                   THEN working[i] ELSE working[i] \cup {m}]
  /\ ready' = [i \in Sink |->
                 IF IsDirect(i) THEN Append(ready[i], m) ELSE ready[i]]
  /\ taken' = [i \in Sink |->
                 IF sinks[i] = "stdout" THEN taken[i] \cup {m} ELSE taken[i]]

DeliverAndAck ==
  /\ queue # {}
  /\ Cardinality(unacked) < Prefetch
  /\ \A i \in Sink : HasRoom(i)
  /\ queue' = queue \ {Oldest}
  /\ unacked' = unacked \cup {Oldest}
  /\ EnterSinks(Oldest)
  /\ acking' = acking \cup {Oldest}
  /\ UNCHANGED <<sinks, collected, dropped, acked, broken, refused, restarts>>

(* Broadcast emits when all its outputs have demand.                       *)
Deliver ==
  /\ queue # {}
  /\ Cardinality(unacked) < Prefetch
  /\ \A i \in Sink : HasRoom(i)
  /\ queue' = queue \ {Oldest}
  /\ unacked' = unacked \cup {Oldest}
  /\ EnterSinks(Oldest)
  /\ UNCHANGED <<sinks, collected, dropped, acking, acked, broken, refused,
                 restarts>>

(* The ingestion layer answers one of the requests, in any order; HttpSender*)
(* forwards the message whatever the status of the answer.                 *)
Answer(i, m, success) ==
  /\ sinks[i] = "http"
  /\ m \in working[i]
  /\ working' = [working EXCEPT ![i] = @ \ {m}]
  /\ ready' = [ready EXCEPT ![i] = Append(@, m)]
  /\ taken' = IF success THEN [taken EXCEPT ![i] = @ \cup {m}] ELSE taken
  /\ refused' = IF success THEN refused ELSE [refused EXCEPT ![i] = @ \cup {m}]
  /\ UNCHANGED <<sinks, collected, dropped, queue, unacked, acking, acked,
                 broken, restarts>>

(* The MQTT broker confirms the publication (AtLeastOnce).                 *)
Published(i, m) ==
  /\ sinks[i] = "mqtt"
  /\ m \in working[i]
  /\ working' = [working EXCEPT ![i] = @ \ {m}]
  /\ taken' = [taken EXCEPT ![i] = @ \cup {m}]
  /\ UNCHANGED <<sinks, collected, dropped, queue, unacked, acking, acked,
                 ready, broken, refused, restarts>>

(* The connection breaks, and MqttSink cancels.  The broadcast of the      *)
(* sender goes on with its other output until the whole stream restarts.   *)
MqttBreaks(i) ==
  /\ sinks[i] = "mqtt"
  /\ ~broken[i]
  /\ broken' = [broken EXCEPT ![i] = TRUE]
  /\ working' = [working EXCEPT ![i] = {}]
  /\ \E published \in SUBSET working[i] :
       taken' = [taken EXCEPT ![i] = @ \cup published]
  /\ UNCHANGED <<sinks, collected, dropped, queue, unacked, acking, acked,
                 ready, refused, restarts>>

(* Every sink offers a message: the row is reduced to the message of the   *)
(* first sink, which is acknowledged.                                      *)
ZipAndAck ==
  /\ sinks # <<>>
  /\ \A i \in Sink : ready[i] # <<>>
  /\ acking' = acking \cup {Head(ready[1])}
  /\ ready' = [i \in Sink |-> Tail(ready[i])]
  /\ UNCHANGED <<sinks, collected, dropped, queue, unacked, acked, working,
                 broken, taken, refused, restarts>>

AckArrives(m) ==
  /\ m \in acking
  /\ acking' = acking \ {m}
  /\ unacked' = unacked \ {m}
  /\ acked' = acked \cup {m}
  /\ UNCHANGED <<sinks, collected, dropped, queue, working, ready, broken,
                 taken, refused, restarts>>

(* The channel is gone: the acknowledgements that arrived before count, and*)
(* the broker takes every other delivered message back.                    *)
TakeNothingBack(arrived) ==
  /\ acked' = acked \cup arrived
  /\ queue' = queue

TakeBack(arrived) ==
  /\ acked' = acked \cup arrived
  /\ queue' = queue \cup (unacked \ arrived)

RebuildAround ==
  /\ unacked' = {}
  /\ acking' = acking
  /\ working' = [i \in Sink |-> {}]
  /\ ready' = [i \in Sink |-> <<>>]
  /\ broken' = [i \in Sink |-> FALSE]

(* RestartSource materialises the source and the sinks anew.               *)
Rebuild ==
  /\ unacked' = {}
  /\ acking' = {}
  /\ working' = [i \in Sink |-> {}]
  /\ ready' = [i \in Sink |-> <<>>]
  /\ broken' = [i \in Sink |-> FALSE]

(* A request fails, the channel is lost or the process dies.  Some of the  *)
(* requests on their way may still arrive.                                 *)
Restart ==
  /\ restarts < MaxRestarts
  /\ restarts' = restarts + 1
  /\ \E arrived \in SUBSET acking : TakeBack(arrived)
  /\ \E sent \in [Sink -> SUBSET UNION {working[i] : i \in Sink}] :
       /\ \A i \in Sink : sent[i] \subseteq working[i]
       /\ taken' = [i \in Sink |-> taken[i] \cup sent[i]]
  /\ Rebuild
  /\ UNCHANGED <<sinks, collected, dropped, refused>>

-----------------------------------------------------------------------------
(* The steps of a stream whose partners answer.                            *)
Submit ==
  \/ Deliver
  \/ ZipAndAck
  \/ \E m \in Message : AckArrives(m)
  \/ \E i \in Sink, m \in Message : Published(i, m)
  \/ \E i \in Sink, m \in Message, success \in BOOLEAN : Answer(i, m, success)

Next ==
  \/ \E reaches \in BOOLEAN : Collect(reaches)
  \/ Submit
  \/ \E i \in Sink : MqttBreaks(i)
  \/ Restart

Spec == Init /\ [][Next]_vars

(* Each enabled step of the running stream is a task of a dispatcher, an   *)
(* answer, or a confirmation; a partner that never answers makes its pool  *)
(* or channel time out, which is Restart or MqttBreaks.                    *)
FairSpec == Spec /\ WF_vars(Submit)

-----------------------------------------------------------------------------
(* Type invariant.  An acknowledgement on its way is that of a message     *)
(* delivered on the present channel (Collector.scala:95).                  *)
TypeOK ==
  /\ sinks \in Setups
  /\ collected \in 0 .. Messages
  /\ dropped \subseteq Message
  /\ queue \subseteq Message
  /\ unacked \subseteq Message
  /\ acking \subseteq unacked
  /\ acked \subseteq Message
  /\ working \in [Sink -> SUBSET Message]
  /\ ready \in [Sink -> Seq(Message)]
  /\ broken \in [Sink -> BOOLEAN]
  /\ taken \in [Sink -> SUBSET Message]
  /\ refused \in [Sink -> SUBSET Message]
  /\ restarts \in 0 .. MaxRestarts

(* Every message of the sources is in one place: lost before the queue, in *)
(* the queue, delivered, or acknowledged.  Whatever fails while it is being*)
(* submitted, it is neither forgotten nor acknowledged and queued at once. *)
Accounted ==
  /\ 1 .. collected = dropped \cup queue \cup unacked \cup acked
  /\ dropped \cap (queue \cup unacked \cup acked) = {}
  /\ queue \cap (unacked \cup acked) = {}
  /\ unacked \cap acked = {}

(* A sink that needs no answer forces all sinks to take one message at a   *)
(* time.                                                                   *)
Lockstep == \E i \in Sink : IsDirect(i)

(* Sink i keeps no message of the row that is being acknowledged waiting.  *)
Paced(i) == sinks[i] \in {"http", "stdout"} /\ (i = 1 \/ Lockstep)

(* No message is acknowledged before sink i has got an answer for it, where*)
(* i is the first sink, or any sink of a setup with a direct stage: only   *)
(* there does the zip by position (Collector.scala:74) pair the copies of  *)
(* one message.                                                            *)
AnsweredBeforeAcked ==
  \A i \in Sink : Paced(i) => acking \cup acked \subseteq taken[i] \cup refused[i]

(* The messages that the broker has forgotten and that HTTP sink i neither *)
(* submitted nor is submitting any more.                                   *)
Lost(i) == acked \ (taken[i] \cup refused[i] \cup working[i])

(* HTTP sinks that answer at different paces are zipped out of step, so a  *)
(* failure loses messages that the first sink had answered for; but never  *)
(* more than the other slots of the slow sink at each failure.             *)
LossIsBounded ==
  \A i \in Sink :
    sinks[i] = "http" => Cardinality(Lost(i)) <= restarts * (Slots - 1)

(* HttpSender.scala:45-49 says that a message is emitted only once the     *)
(* sender knows it has been taken into account.                            *)
EmittedOnceTaken ==
  \A i \in Sink : sinks[i] = "http" =>
    \A k \in DOMAIN ready[i] : ready[i][k] \in taken[i]

(* A message that is in the durable queue is eventually acknowledged: the  *)
(* stages of the stream never wait for one another for good, whatever the  *)
(* order of the answers and the number of sinks.                           *)
EveryBufferedSubmitted ==
  \A m \in Message : (sinks # <<>> /\ m \in queue) ~> (m \in acked)

=============================================================================
