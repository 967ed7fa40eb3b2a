-------------------------- MODULE Submission_proofs --------------------------
(***************************************************************************)
(* Theorems about Submission, for any number of messages, restarts and     *)
(* slots, and any configuration of sinks.                                  *)
(***************************************************************************)
EXTENDS Submission, WellFoundedInduction, FiniteSetTheorems, TLAPS

(* There is an oldest message in a queue that is not empty.                *)
LEMMA OldestIsQueued ==
  ASSUME queue \subseteq Message, queue # {}
  PROVE  Oldest \in queue /\ Oldest \in Message
<1>1. queue \subseteq Nat
  BY MessagesAssumption DEF Message
<1> DEFINE Less == OpToRel(<, Nat)
<1>2. IsWellFoundedOn(Less, Nat)
  BY NatLessThanWellFounded
<1>3. \A n, m \in Nat : n < m => <<n, m>> \in Less
  BY DEF OpToRel
<1> HIDE DEF Less
<1>4. PICK m \in queue : \A n \in queue : ~(<<n, m>> \in Less)
  BY <1>1, <1>2, WFMin
<1>5. \A n \in queue : m <= n
  <2> TAKE n \in queue
  <2>1. n \in Nat /\ m \in Nat
    BY <1>1
  <2>2. ~(n < m)
    BY <2>1, <1>3, <1>4
  <2> QED BY <2>1, <2>2
<1> QED BY <1>5 DEF Oldest

(* The number of configured sinks does not change while messages flow.     *)
LEMMA SinkFixed == sinks' = sinks => Sink' = Sink
BY DEF Sink

(* The messages of the first sink that are not emitted yet.  An mqtt stage *)
(* emits a message before it is published.                                 *)
Held == IF sinks[1] = "http" THEN working[1] ELSE {}

(* The first sink offers a delivered message once at most, and no more once*)
(* its acknowledgement has been asked for.                                 *)
OfferedOnce ==
  sinks # <<>> =>
    /\ Held \subseteq unacked \ acking
    /\ \A k \in DOMAIN ready[1] : ready[1][k] \in unacked \ (acking \cup Held)
    /\ \A k, l \in DOMAIN ready[1] : ready[1][k] = ready[1][l] => k = l

(* The other sinks may still offer acknowledged messages, so the first one *)
(* alone bears the invariant that every acknowledgement is for a delivered *)
(* message.                                                                *)
Submitted == TypeOK /\ Accounted /\ OfferedOnce

(* Taking the head of the offers of the first sink leaves it no copy.      *)
LEMMA HeadIsOfferedOnce ==
  ASSUME NEW S, NEW q \in Seq(S), q # <<>>,
         \A k, l \in DOMAIN q : q[k] = q[l] => k = l
  PROVE  /\ Head(q) = q[1] /\ 1 \in DOMAIN q
         /\ Tail(q) \in Seq(S)
         /\ \A k \in DOMAIN Tail(q) : /\ k + 1 \in DOMAIN q
                                      /\ Tail(q)[k] = q[k + 1]
                                      /\ Tail(q)[k] # Head(q)
         /\ \A k, l \in DOMAIN Tail(q) : Tail(q)[k] = Tail(q)[l] => k = l
<1>1. Head(q) = q[1] /\ 1 \in DOMAIN q /\ Tail(q) \in Seq(S)
  OBVIOUS
<1>2. \A k \in DOMAIN Tail(q) : /\ k \in Nat \ {0} /\ k + 1 \in DOMAIN q
                               /\ Tail(q)[k] = q[k + 1]
  OBVIOUS
<1> QED BY <1>1, <1>2

(* Appending a message that is not offered yet keeps the offers distinct.  *)
LEMMA AppendedOnce ==
  ASSUME NEW S, NEW q \in Seq(S), NEW m \in S,
         \A k \in DOMAIN q : q[k] # m,
         \A k, l \in DOMAIN q : q[k] = q[l] => k = l
  PROVE  /\ Append(q, m) \in Seq(S)
         /\ \A k \in DOMAIN Append(q, m) :
              \/ k \in DOMAIN q /\ Append(q, m)[k] = q[k]
              \/ Append(q, m)[k] = m
         /\ \A k, l \in DOMAIN Append(q, m) :
              Append(q, m)[k] = Append(q, m)[l] => k = l
OBVIOUS

(* The type invariant is inductive: acknowledgements on their way do not   *)
(* outlive the channel of the delivered messages.                          *)
LEMMA TypeIsInductive ==
  /\ Init => TypeOK
  /\ Submitted /\ [Next]_vars => TypeOK'
<1> USE MessagesAssumption, RestartsAssumption
<1>1. Init => TypeOK
  BY DEF Init, TypeOK
<1>2. ASSUME Submitted, [Next]_vars PROVE TypeOK'
  <2> USE <1>2 DEF Submitted, TypeOK
  <2>1. ASSUME NEW reaches \in BOOLEAN, Collect(reaches) PROVE TypeOK'
    <3>1. Sink' = Sink
      BY <2>1, SinkFixed DEF Collect
    <3>2. collected' \in 0 .. Messages /\ collected + 1 \in Message
      BY <2>1 DEF Collect, Message
    <3> QED BY <2>1, <3>1, <3>2 DEF Collect, streamVars
  <2>2. CASE Deliver
    <3>1. Sink' = Sink
      BY <2>2, SinkFixed DEF Deliver
    <3>2. Oldest \in Message
      BY <2>2, OldestIsQueued DEF Deliver
    <3>3. \A i \in Sink : Append(ready[i], Oldest) \in Seq(Message)
      BY <3>2
    <3>4. /\ working' \in [Sink -> SUBSET Message]
          /\ ready' \in [Sink -> Seq(Message)]
          /\ taken' \in [Sink -> SUBSET Message]
      BY <2>2, <3>2, <3>3 DEF Deliver, EnterSinks
    <3> QED BY <2>2, <3>1, <3>2, <3>4 DEF Deliver
  <2>3. CASE ZipAndAck
    <3>1. Sink' = Sink
      BY <2>3, SinkFixed DEF ZipAndAck
    <3>2. \A i \in Sink : Tail(ready[i]) \in Seq(Message)
      BY <2>3 DEF ZipAndAck
    <3>3. 1 \in Sink
      BY <2>3, SetupsAssumption DEF ZipAndAck, Sink
    <3>4. Head(ready[1]) \in unacked
      BY <2>3, <3>3 DEF OfferedOnce, ZipAndAck
    <3> QED BY <2>3, <3>1, <3>2, <3>4 DEF ZipAndAck
  <2>4. ASSUME NEW m \in Message, AckArrives(m) PROVE TypeOK'
    <3>1. Sink' = Sink
      BY <2>4, SinkFixed DEF AckArrives
    <3> QED BY <2>4, <3>1 DEF AckArrives
  <2>5. ASSUME NEW i \in Sink, NEW m \in Message, Published(i, m) PROVE TypeOK'
    <3>1. Sink' = Sink
      BY <2>5, SinkFixed DEF Published
    <3> QED BY <2>5, <3>1 DEF Published
  <2>6. ASSUME NEW i \in Sink, NEW m \in Message, NEW success \in BOOLEAN,
               Answer(i, m, success)
        PROVE  TypeOK'
    <3>1. Sink' = Sink
      BY <2>6, SinkFixed DEF Answer
    <3>2. Append(ready[i], m) \in Seq(Message)
      OBVIOUS
    <3> QED BY <2>6, <3>1, <3>2 DEF Answer
  <2>7. ASSUME NEW i \in Sink, MqttBreaks(i) PROVE TypeOK'
    <3>1. Sink' = Sink
      BY <2>7, SinkFixed DEF MqttBreaks
    <3>2. taken' \in [Sink -> SUBSET Message]
      BY <2>7 DEF MqttBreaks
    <3> QED BY <2>7, <3>1, <3>2 DEF MqttBreaks
  <2>8. CASE Restart
    <3>1. Sink' = Sink
      BY <2>8, SinkFixed DEF Restart
    <3>2. restarts' \in 0 .. MaxRestarts
      BY <2>8 DEF Restart
    <3>3. acked' \subseteq Message /\ queue' \subseteq Message
      BY <2>8 DEF Restart, TakeBack
    <3>4. taken' \in [Sink -> SUBSET Message]
      BY <2>8 DEF Restart
    <3> QED BY <2>8, <3>1, <3>2, <3>3, <3>4 DEF Restart, Rebuild
  <2>9. CASE UNCHANGED vars
    <3>1. Sink' = Sink
      BY <2>9, SinkFixed DEF vars
    <3> QED BY <2>9, <3>1 DEF vars, streamVars
  <2> QED BY <2>1, <2>2, <2>3, <2>4, <2>5, <2>6, <2>7, <2>8, <2>9
          DEF Next, Submit
<1> QED BY <1>1, <1>2

(* Every step keeps a message in exactly one place.                        *)
LEMMA AccountedIsInductive ==
  /\ Init => Accounted
  /\ Submitted /\ [Next]_vars => Accounted'
<1>1. Init => Accounted
  BY DEF Init, Accounted
<1>2. ASSUME Submitted, [Next]_vars PROVE Accounted'
  <2>1. TypeOK /\ Accounted
    BY <1>2 DEF Submitted
  <2>2. ASSUME NEW reaches \in BOOLEAN, Collect(reaches) PROVE Accounted'
    <3>1. collected \in Nat
      BY <2>1, MessagesAssumption DEF TypeOK
    <3>2. 1 .. collected' = (1 .. collected) \cup {collected + 1}
      BY <2>2, <3>1 DEF Collect
    <3>3. collected + 1 \notin 1 .. collected
      BY <3>1
    <3> QED BY <2>1, <2>2, <3>2, <3>3 DEF Collect, Accounted, streamVars
  <2>3. CASE Deliver
    <3>1. Oldest \in queue
      BY <2>1, <2>3, OldestIsQueued DEF Deliver, TypeOK
    <3> QED BY <2>1, <2>3, <3>1 DEF Deliver, Accounted
  <2>4. CASE ZipAndAck
    BY <2>1, <2>4 DEF ZipAndAck, Accounted
  <2>5. ASSUME NEW m \in Message, AckArrives(m) PROVE Accounted'
    <3>1. m \in unacked
      BY <2>1, <2>5 DEF AckArrives, TypeOK
    <3> QED BY <2>1, <2>5, <3>1 DEF AckArrives, Accounted
  <2>6. ASSUME NEW i \in Sink, NEW m \in Message, Published(i, m)
        PROVE  Accounted'
    BY <2>1, <2>6 DEF Published, Accounted
  <2>7. ASSUME NEW i \in Sink, NEW m \in Message, NEW success \in BOOLEAN,
               Answer(i, m, success)
        PROVE  Accounted'
    BY <2>1, <2>7 DEF Answer, Accounted
  <2>8. ASSUME NEW i \in Sink, MqttBreaks(i) PROVE Accounted'
    BY <2>1, <2>8 DEF MqttBreaks, Accounted
  <2>9. CASE Restart
    <3>1. PICK arrived \in SUBSET acking : TakeBack(arrived)
      BY <2>9 DEF Restart
    <3>2. arrived \subseteq unacked
      BY <2>1 DEF TypeOK
    <3>3. /\ unacked' = {} /\ collected' = collected /\ dropped' = dropped
          /\ acked' = acked \cup arrived /\ queue' = queue \cup (unacked \ arrived)
      BY <2>9, <3>1 DEF Restart, Rebuild, TakeBack
    <3> QED BY <2>1, <3>2, <3>3 DEF Accounted
  <2>10. CASE UNCHANGED vars
    BY <2>1, <2>10 DEF vars, streamVars, Accounted
  <2> QED BY <1>2, <2>2, <2>3, <2>4, <2>5, <2>6, <2>7, <2>8, <2>9, <2>10
          DEF Next, Submit
<1> QED BY <1>1, <1>2

(* The first sink never offers a message twice: it emits what it was given *)
(* once, and the stream is only ever given messages that were queued.      *)
LEMMA OfferedOnceIsInductive ==
  /\ Init => OfferedOnce
  /\ Submitted /\ [Next]_vars => OfferedOnce'
<1>1. Init => OfferedOnce
  <2>1. ASSUME Init, sinks # <<>>
        PROVE  ready[1] = <<>> /\ working[1] = {}
    BY <2>1, SetupsAssumption DEF Init, Sink
  <2> QED BY <2>1 DEF OfferedOnce, Held
<1>2. ASSUME Submitted, [Next]_vars, sinks' # <<>> PROVE OfferedOnce'
  <2>1. TypeOK /\ Accounted /\ OfferedOnce /\ sinks' = sinks /\ Sink' = Sink
    BY <1>2 DEF Submitted, Next, Submit, vars, streamVars, Sink, Collect, Deliver,
       ZipAndAck, AckArrives, Published, Answer, MqttBreaks, Restart
  <2>2. /\ 1 \in Sink /\ sinks # <<>> /\ ready[1] \in Seq(Message)
        /\ sinks[1] \in Kind
    BY <1>2, <2>1, SetupsAssumption DEF TypeOK, Sink
  <2> DEFINE Offers(h, r) ==
        /\ h \subseteq unacked' \ acking'
        /\ \A k \in DOMAIN r : r[k] \in unacked' \ (acking' \cup h)
        /\ \A k, l \in DOMAIN r : r[k] = r[l] => k = l
  <2>3. ASSUME Offers(Held', ready'[1]) PROVE OfferedOnce'
    BY <2>3 DEF OfferedOnce
  <2>4. ASSUME NEW reaches \in BOOLEAN, Collect(reaches) PROVE OfferedOnce'
    BY <2>1, <2>4 DEF Collect, OfferedOnce, Held, streamVars
  <2>5. CASE Deliver
    <3>1. Oldest \in queue /\ Oldest \in Message
      BY <2>1, <2>5, OldestIsQueued DEF Deliver, TypeOK
    <3>2. Oldest \notin unacked /\ Oldest \notin acking
      BY <2>1, <3>1 DEF Accounted, TypeOK
    <3>3. unacked' = unacked \cup {Oldest} /\ acking' = acking
      BY <2>5 DEF Deliver
    <3>4. CASE sinks[1] = "http"
      <4>1. ready'[1] = ready[1] /\ Held' \subseteq Held \cup {Oldest}
        BY <2>1, <2>2, <2>5, <3>4 DEF Deliver, EnterSinks, IsDirect, Held
      <4> QED BY <2>1, <2>2, <2>3, <3>2, <3>3, <4>1 DEF OfferedOnce
    <3>5. CASE sinks[1] # "http"
      <4>1. Held' = {} /\ ready'[1] = Append(ready[1], Oldest)
        BY <2>1, <2>2, <2>5, <3>5 DEF Deliver, EnterSinks, IsDirect, Held, Kind
      <4>2. \A k \in DOMAIN ready[1] : ready[1][k] # Oldest
        BY <2>1, <2>2, <3>2 DEF OfferedOnce
      <4>3. \A k, l \in DOMAIN ready[1] : ready[1][k] = ready[1][l] => k = l
        BY <2>1, <2>2 DEF OfferedOnce
      <4> DEFINE q == Append(ready[1], Oldest)
      <4>4. /\ \A k \in DOMAIN q : \/ k \in DOMAIN ready[1] /\ q[k] = ready[1][k]
                                   \/ q[k] = Oldest
            /\ \A k, l \in DOMAIN q : q[k] = q[l] => k = l
        BY <2>2, <3>1, <4>2, <4>3, AppendedOnce
      <4> HIDE DEF q
      <4>5. Offers({}, q)
        BY <2>1, <2>2, <3>2, <3>3, <4>4 DEF OfferedOnce
      <4> QED BY <2>3, <4>1, <4>5 DEF q
    <3> QED BY <3>4, <3>5
  <2>6. CASE ZipAndAck
    <3> DEFINE q == Tail(ready[1])
    <3>1. ready[1] # <<>> /\ ready'[1] = q /\ Held' = Held /\ unacked' = unacked
      BY <2>1, <2>2, <2>6 DEF ZipAndAck, Held
    <3>2. acking' = acking \cup {Head(ready[1])}
      BY <2>6 DEF ZipAndAck
    <3>3. \A k, l \in DOMAIN ready[1] : ready[1][k] = ready[1][l] => k = l
      BY <2>1, <2>2 DEF OfferedOnce
    <3>4. /\ Head(ready[1]) = ready[1][1] /\ 1 \in DOMAIN ready[1]
          /\ \A k \in DOMAIN q : /\ k + 1 \in DOMAIN ready[1]
                                /\ q[k] = ready[1][k + 1]
                                /\ q[k] # Head(ready[1])
          /\ \A k, l \in DOMAIN q : q[k] = q[l] => k = l
      BY <2>2, <3>1, <3>3, HeadIsOfferedOnce
    <3> HIDE DEF q
    <3>5. Offers(Held, q)
      BY <2>1, <2>2, <3>1, <3>2, <3>4 DEF OfferedOnce
    <3> QED BY <2>3, <3>1, <3>5
  <2>7. ASSUME NEW m \in Message, AckArrives(m) PROVE OfferedOnce'
    BY <2>1, <2>7 DEF AckArrives, OfferedOnce, Held
  <2>8. ASSUME NEW i \in Sink, NEW m \in Message, Published(i, m)
        PROVE  OfferedOnce'
    <3>1. Held' = Held
      BY <2>1, <2>2, <2>8 DEF Published, Held, TypeOK
    <3> QED BY <2>1, <2>8, <3>1 DEF Published, OfferedOnce
  <2>9. ASSUME NEW i \in Sink, NEW m \in Message, NEW success \in BOOLEAN,
               Answer(i, m, success)
        PROVE  OfferedOnce'
    <3>1. unacked' = unacked /\ acking' = acking
      BY <2>9 DEF Answer
    <3>2. CASE i # 1
      <4>1. ready'[1] = ready[1] /\ Held' = Held
        BY <2>1, <2>2, <2>9, <3>2 DEF Answer, Held, TypeOK
      <4> QED BY <2>1, <2>2, <2>3, <3>1, <4>1 DEF OfferedOnce
    <3>3. CASE i = 1
      <4> DEFINE q == Append(ready[1], m)
      <4>1. m \in Held /\ Held' = Held \ {m} /\ ready'[1] = q
        BY <2>1, <2>2, <2>9, <3>3 DEF Answer, Held, TypeOK
      <4>2. \A k \in DOMAIN ready[1] : ready[1][k] # m
        BY <2>1, <2>2, <4>1 DEF OfferedOnce
      <4>3. \A k, l \in DOMAIN ready[1] : ready[1][k] = ready[1][l] => k = l
        BY <2>1, <2>2 DEF OfferedOnce
      <4>4. /\ \A k \in DOMAIN q : \/ k \in DOMAIN ready[1] /\ q[k] = ready[1][k]
                                   \/ q[k] = m
            /\ \A k, l \in DOMAIN q : q[k] = q[l] => k = l
        BY <2>2, <4>2, <4>3, AppendedOnce
      <4> HIDE DEF q
      <4>5. Offers(Held \ {m}, q)
        BY <2>1, <2>2, <3>1, <4>1, <4>4 DEF OfferedOnce
      <4> QED BY <2>3, <4>1, <4>5
    <3> QED BY <3>2, <3>3
  <2>10. ASSUME NEW i \in Sink, MqttBreaks(i) PROVE OfferedOnce'
    <3>1. Held' = Held
      BY <2>1, <2>2, <2>10 DEF MqttBreaks, Held, TypeOK
    <3> QED BY <2>1, <2>10, <3>1 DEF MqttBreaks, OfferedOnce
  <2>11. CASE Restart
    <3>1. ready'[1] = <<>> /\ Held' = {}
      BY <2>1, <2>2, <2>11 DEF Restart, Rebuild, Held
    <3> QED BY <2>3, <3>1
  <2>12. CASE UNCHANGED vars
    BY <2>1, <2>12 DEF vars, streamVars, OfferedOnce, Held
  <2> QED BY <1>2, <2>1, <2>4, <2>5, <2>6, <2>7, <2>8, <2>9, <2>10, <2>11, <2>12
          DEF Next, Submit
<1> QED BY <1>1, <1>2 DEF OfferedOnce

(* All of the above holds in every state.                                  *)
LEMMA AlwaysSubmitted == Spec => []Submitted
<1>1. Init => Submitted
  BY TypeIsInductive, AccountedIsInductive, OfferedOnceIsInductive DEF Submitted
<1>2. Submitted /\ [Next]_vars => Submitted'
  BY TypeIsInductive, AccountedIsInductive, OfferedOnceIsInductive DEF Submitted
<1> QED BY <1>1, <1>2, PTL DEF Spec

(* What the streams know of the messages has its type in every state; an   *)
(* acknowledgement is for a message delivered on the present channel.      *)
THEOREM TypeCorrect == Spec => []TypeOK
<1>1. Submitted => TypeOK
  BY DEF Submitted
<1> QED BY <1>1, AlwaysSubmitted, PTL

(* Whatever fails, no message that reached the queue is forgotten, or both *)
(* acknowledged and delivered again.                                       *)
THEOREM NothingForgotten == Spec => []Accounted
<1>1. Submitted => Accounted
  BY DEF Submitted
<1> QED BY <1>1, AlwaysSubmitted, PTL

(* A sink that waits for its target, or prints, offers only messages that  *)
(* got an answer; only an MQTT connection breaks apart from the stream.    *)
OffersAreAnswered ==
  \A i \in Sink :
    /\ broken[i] => sinks[i] = "mqtt"
    /\ sinks[i] \in {"http", "stdout"} =>
         \A k \in DOMAIN ready[i] : ready[i][k] \in taken[i] \cup refused[i]

(* Sink i holds no message, or message m only.                             *)
Idle(i) == ready[i] = <<>> /\ (sinks[i] = "http" => working[i] = {})
Holds(i, m) ==
  \/ ready[i] = <<m>> /\ (sinks[i] = "http" => working[i] = {})
  \/ ready[i] = <<>> /\ sinks[i] = "http" /\ working[i] = {m}

(* Beside a direct stage, all sinks are at the same message.               *)
InStep ==
  Lockstep => \/ \A i \in Sink : Idle(i)
              \/ \E m \in Message : \A i \in Sink : Holds(i, m)

Answered == Submitted /\ OffersAreAnswered /\ InStep /\ AnsweredBeforeAcked

(* A step never changes the configuration.                                 *)
LEMMA SameSinks ==
  ASSUME [Next]_vars
  PROVE  sinks' = sinks /\ Sink' = Sink /\ (Lockstep' = Lockstep)
         /\ \A i : (Paced(i)' <=> Paced(i)) /\ (IsDirect(i)' <=> IsDirect(i))
<1>1. sinks' = sinks
  BY DEF Next, Submit, vars, streamVars, Collect, Deliver, ZipAndAck, AckArrives,
     Published, Answer, MqttBreaks, Restart
<1> QED BY <1>1 DEF Sink, Lockstep, Paced, IsDirect

(* Sinks emit a message when its answer is known, and answers are never    *)
(* taken back.                                                             *)
LEMMA OffersAreAnsweredIsInductive ==
  /\ Init => OffersAreAnswered
  /\ Submitted /\ OffersAreAnswered /\ [Next]_vars => OffersAreAnswered'
<1>1. Init => OffersAreAnswered
  BY DEF Init, OffersAreAnswered
<1>2. ASSUME Submitted, OffersAreAnswered, [Next]_vars,
             NEW i \in Sink
      PROVE  /\ broken'[i] => sinks[i] = "mqtt"
             /\ sinks[i] \in {"http", "stdout"} =>
                  \A k \in DOMAIN ready'[i] :
                    ready'[i][k] \in taken'[i] \cup refused'[i]
  <2> DEFINE Goal == /\ broken'[i] => sinks[i] = "mqtt"
                     /\ sinks[i] \in {"http", "stdout"} =>
                          \A k \in DOMAIN ready'[i] :
                            ready'[i][k] \in taken'[i] \cup refused'[i]
  <2>1. /\ broken[i] => sinks[i] = "mqtt"
        /\ sinks[i] \in {"http", "stdout"} =>
             \A k \in DOMAIN ready[i] : ready[i][k] \in taken[i] \cup refused[i]
    BY <1>2 DEF OffersAreAnswered
  <2>2. TypeOK /\ ready[i] \in Seq(Message)
    BY <1>2 DEF Submitted, TypeOK
  <2>3. ASSUME NEW reaches \in BOOLEAN, Collect(reaches) PROVE Goal
    BY <2>1, <2>3 DEF Collect, streamVars
  <2>4. CASE Deliver
    <3>1. Oldest \in Message
      BY <2>2, <2>4, OldestIsQueued DEF Deliver, TypeOK
    <3>2. broken'[i] = broken[i] /\ refused' = refused
      BY <2>4 DEF Deliver
    <3>3. CASE sinks[i] = "stdout"
      <4>1. ready'[i] = Append(ready[i], Oldest)
            /\ taken'[i] = taken[i] \cup {Oldest}
        BY <2>4, <3>3 DEF Deliver, EnterSinks, IsDirect
      <4>2. \A k \in DOMAIN ready'[i] : \/ k \in DOMAIN ready[i]
                                            /\ ready'[i][k] = ready[i][k]
                                       \/ ready'[i][k] = Oldest
        BY <2>2, <3>1, <4>1
      <4> QED BY <2>1, <3>2, <3>3, <4>1, <4>2
    <3>4. CASE sinks[i] = "http"
      <4>1. ready'[i] = ready[i] /\ taken'[i] = taken[i]
        BY <2>4, <3>4 DEF Deliver, EnterSinks, IsDirect
      <4> QED BY <2>1, <3>2, <4>1
    <3> QED BY <2>1, <3>2, <3>3, <3>4
  <2>5. CASE ZipAndAck
    <3>1. ready[i] # <<>> /\ ready'[i] = Tail(ready[i])
      BY <2>5 DEF ZipAndAck
    <3>2. \A k \in DOMAIN ready'[i] : /\ k + 1 \in DOMAIN ready[i]
                                     /\ ready'[i][k] = ready[i][k + 1]
      BY <2>2, <3>1
    <3> QED BY <2>1, <2>5, <3>2 DEF ZipAndAck
  <2>6. ASSUME NEW m \in Message, AckArrives(m) PROVE Goal
    BY <2>1, <2>6 DEF AckArrives
  <2>7. ASSUME NEW j \in Sink, NEW m \in Message, Published(j, m) PROVE Goal
    BY <2>1, <2>2, <2>7 DEF Published, TypeOK
  <2>8. ASSUME NEW j \in Sink, NEW m \in Message, NEW success \in BOOLEAN,
               Answer(j, m, success)
        PROVE  Goal
    <3>1. broken'[i] = broken[i]
      BY <2>8 DEF Answer
    <3>2. taken[i] \subseteq taken'[i] /\ refused[i] \subseteq refused'[i]
      BY <2>2, <2>8 DEF Answer, TypeOK
    <3>3. CASE i # j
      <4>1. ready'[i] = ready[i]
        BY <2>2, <2>8, <3>3 DEF Answer, TypeOK
      <4> QED BY <2>1, <3>1, <3>2, <4>1
    <3>4. CASE i = j
      <4>1. ready'[i] = Append(ready[i], m) /\ m \in taken'[i] \cup refused'[i]
        BY <2>2, <2>8, <3>4 DEF Answer, TypeOK
      <4>2. \A k \in DOMAIN ready'[i] : \/ k \in DOMAIN ready[i]
                                            /\ ready'[i][k] = ready[i][k]
                                       \/ ready'[i][k] = m
        BY <2>2, <4>1
      <4> QED BY <2>1, <3>1, <3>2, <4>1, <4>2
    <3> QED BY <3>3, <3>4
  <2>9. ASSUME NEW j \in Sink, MqttBreaks(j) PROVE Goal
    <3>1. /\ broken'[i] => broken[i] \/ i = j
          /\ ready'[i] = ready[i] /\ refused'[i] = refused[i]
          /\ taken[i] \subseteq taken'[i] /\ sinks[j] = "mqtt"
      BY <2>2, <2>9 DEF MqttBreaks, TypeOK
    <3> QED BY <2>1, <3>1
  <2>10. CASE Restart
    BY <2>10 DEF Restart, Rebuild
  <2>11. CASE UNCHANGED vars
    BY <2>1, <2>11 DEF vars, streamVars
  <2> QED BY <1>2, <2>3, <2>4, <2>5, <2>6, <2>7, <2>8, <2>9, <2>10, <2>11
          DEF Next, Submit
<1> QED BY <1>1, <1>2, SameSinks DEF OffersAreAnswered

(* A direct stage has demand only when the zip has used its last message,  *)
(* so the broadcast feeds all sinks one message at a time.                 *)
LEMMA InStepIsInductive ==
  /\ Init => InStep
  /\ Submitted /\ OffersAreAnswered /\ InStep /\ [Next]_vars => InStep'
<1>1. Init => InStep
  BY DEF Init, InStep, Idle
<1>2. ASSUME Submitted, OffersAreAnswered, InStep, [Next]_vars, Lockstep
      PROVE  InStep'
  <2>1. TypeOK /\ sinks' = sinks /\ Sink' = Sink
    BY <1>2, SameSinks DEF Submitted
  <2>2. \/ \A i \in Sink : Idle(i)
        \/ \E m \in Message : \A i \in Sink : Holds(i, m)
    BY <1>2 DEF InStep
  <2>3. PICK d \in Sink : IsDirect(d)
    BY <1>2 DEF Lockstep
  <2>4. sinks[d] # "http" /\ \A i \in Sink : sinks[i] \in Kind
    BY <2>1, <2>3, SetupsAssumption DEF IsDirect, TypeOK, Sink
  <2>5. ASSUME NEW reaches \in BOOLEAN, Collect(reaches) PROVE InStep'
    BY <2>1, <2>2, <2>5 DEF Collect, streamVars, InStep, Idle, Holds
  <2>6. CASE Deliver
    <3>1. Oldest \in Message
      BY <2>1, <2>6, OldestIsQueued DEF Deliver, TypeOK
    <3>2. ready[d] = <<>>
      BY <2>4, <2>6 DEF Deliver, HasRoom
    <3>3. \A m : ~Holds(d, m)
      BY <2>4, <3>2 DEF Holds
    <3>4. \A i \in Sink : Idle(i)
      BY <2>2, <3>3
    <3> DEFINE HoldsNext(i, m) ==
          \/ ready'[i] = <<m>> /\ (sinks'[i] = "http" => working'[i] = {})
          \/ ready'[i] = <<>> /\ sinks'[i] = "http" /\ working'[i] = {m}
    <3>5. ASSUME NEW i \in Sink PROVE HoldsNext(i, Oldest)
      <4>1. ready[i] = <<>> /\ (sinks[i] = "http" => working[i] = {})
        BY <3>4 DEF Idle
      <4>2. CASE sinks[i] = "http"
        <5>1. ~broken[i]
          BY <1>2, <4>2 DEF OffersAreAnswered
        <5>2. ready'[i] = <<>> /\ working'[i] = {Oldest}
          BY <2>6, <4>1, <4>2, <5>1 DEF Deliver, EnterSinks, IsDirect
        <5>3. sinks' = sinks
          BY <2>1
        <5> QED BY <4>2, <5>2, <5>3
      <4>3. CASE sinks[i] # "http"
        <5>1. ready'[i] = Append(<<>>, Oldest)
          BY <2>4, <2>6, <4>1, <4>3 DEF Deliver, EnterSinks, IsDirect, Kind
        <5>2. ready'[i] = <<Oldest>> /\ sinks' = sinks
          BY <2>1, <5>1
        <5> QED BY <4>3, <5>2
      <4> QED BY <4>2, <4>3
    <3> QED BY <2>1, <3>1, <3>5 DEF InStep, Holds
  <2>7. CASE ZipAndAck
    <3>1. \A i \in Sink : ready[i] # <<>> /\ ready'[i] = Tail(ready[i])
                         /\ working' = working
      BY <2>7 DEF ZipAndAck
    <3>2. PICK m \in Message : \A i \in Sink : Holds(i, m)
      BY <2>2, <2>3, <3>1 DEF Idle
    <3>3. ASSUME NEW i \in Sink
          PROVE  ready'[i] = <<>> /\ (sinks[i] = "http" => working'[i] = {})
      <4>1. ready[i] = <<m>> /\ (sinks[i] = "http" => working[i] = {})
        BY <3>1, <3>2 DEF Holds
      <4>2. Tail(<<m>>) = <<>>
        OBVIOUS
      <4> QED BY <3>1, <4>1, <4>2
    <3> QED BY <2>1, <3>3 DEF InStep, Idle
  <2>8. ASSUME NEW m \in Message, AckArrives(m) PROVE InStep'
    BY <2>1, <2>2, <2>8 DEF AckArrives, InStep, Idle, Holds
  <2>9. ASSUME NEW j \in Sink, NEW m \in Message, Published(j, m) PROVE InStep'
    <3>1. /\ ready' = ready
          /\ \A i \in Sink : sinks[i] = "http" => working'[i] = working[i]
      BY <2>1, <2>9 DEF Published, TypeOK
    <3> QED BY <2>1, <2>2, <3>1 DEF InStep, Idle, Holds
  <2>10. ASSUME NEW j \in Sink, NEW m \in Message, NEW success \in BOOLEAN,
                Answer(j, m, success)
         PROVE  InStep'
    <3>1. PICK n \in Message : \A i \in Sink : Holds(i, n)
      BY <2>2, <2>10 DEF Answer, Idle
    <3>2. m = n /\ ready[j] = <<>> /\ working[j] = {m} /\ sinks[j] = "http"
      BY <2>10, <3>1 DEF Answer, Holds
    <3>3. ready'[j] = Append(<<>>, m) /\ working'[j] = {}
      BY <2>1, <2>10, <3>2 DEF Answer, TypeOK
    <3>4. ready'[j] = <<m>>
      BY <3>3
    <3>5. \A i \in Sink : i # j => ready'[i] = ready[i] /\ working'[i] = working[i]
      BY <2>1, <2>10 DEF Answer, TypeOK
    <3> QED BY <2>1, <3>1, <3>2, <3>3, <3>4, <3>5 DEF InStep, Holds
  <2>11. ASSUME NEW j \in Sink, MqttBreaks(j) PROVE InStep'
    <3>1. /\ ready' = ready
          /\ \A i \in Sink : sinks[i] = "http" => working'[i] = working[i]
      BY <2>1, <2>11 DEF MqttBreaks, TypeOK
    <3> QED BY <2>1, <2>2, <3>1 DEF InStep, Idle, Holds
  <2>12. CASE Restart
    BY <2>1, <2>12 DEF Restart, Rebuild, InStep, Idle
  <2>13. CASE UNCHANGED vars
    BY <2>1, <2>2, <2>13 DEF vars, streamVars, InStep, Idle, Holds
  <2> QED BY <1>2, <2>5, <2>6, <2>7, <2>8, <2>9, <2>10, <2>11, <2>12, <2>13
          DEF Next, Submit
<1> QED BY <1>1, <1>2, SameSinks DEF InStep

(* A row acknowledges the message of the first sink.  Where the row holds  *)
(* copies of one message, sink i has an answer for it, too.                *)
LEMMA AnsweredIsInductive ==
  /\ Init => AnsweredBeforeAcked
  /\ Answered /\ [Next]_vars => AnsweredBeforeAcked'
<1>1. Init => AnsweredBeforeAcked
  BY DEF Init, AnsweredBeforeAcked
<1>2. ASSUME Answered, [Next]_vars, NEW i \in Sink, Paced(i)
      PROVE  acking' \cup acked' \subseteq taken'[i] \cup refused'[i]
  <2>1. /\ TypeOK
        /\ acking \cup acked \subseteq taken[i] \cup refused[i]
    BY <1>2 DEF Answered, Submitted, AnsweredBeforeAcked
  <2>2. taken[i] \subseteq taken'[i] /\ refused[i] \subseteq refused'[i]
    <3> DEFINE Kept == taken[i] \subseteq taken'[i] /\ refused[i] \subseteq refused'[i]
    <3>1. ASSUME taken' = taken, refused' = refused PROVE Kept
      BY <3>1
    <3>2. CASE Deliver
      BY <1>2, <3>2 DEF Deliver, EnterSinks
    <3>3. ASSUME NEW j \in Sink, NEW m \in Message, Published(j, m) PROVE Kept
      BY <1>2, <2>1, <3>3 DEF Published, TypeOK
    <3>4. ASSUME NEW j \in Sink, NEW m \in Message, NEW success \in BOOLEAN,
                 Answer(j, m, success)
          PROVE  Kept
      BY <1>2, <2>1, <3>4 DEF Answer, TypeOK
    <3>5. ASSUME NEW j \in Sink, MqttBreaks(j) PROVE Kept
      BY <1>2, <2>1, <3>5 DEF MqttBreaks, TypeOK
    <3>6. CASE Restart
      BY <1>2, <3>6 DEF Restart
    <3>7. ASSUME NEW reaches \in BOOLEAN, Collect(reaches) PROVE Kept
      BY <3>1, <3>7 DEF Collect
    <3>8. ASSUME NEW m \in Message, AckArrives(m) PROVE Kept
      BY <3>1, <3>8 DEF AckArrives
    <3>9. CASE ZipAndAck \/ UNCHANGED vars
      BY <3>1, <3>9 DEF ZipAndAck, vars
    <3> QED BY <1>2, <3>2, <3>3, <3>4, <3>5, <3>6, <3>7, <3>8, <3>9
            DEF Next, Submit
  <2>3. CASE ZipAndAck
    <3>1. 1 \in Sink /\ i \in Sink /\ \A j \in Sink : ready[j] # <<>>
      BY <2>1, <2>3, SetupsAssumption DEF ZipAndAck, TypeOK, Sink
    <3>2. ready[i] \in Seq(Message) /\ ready[1] \in Seq(Message)
      BY <2>1, <3>1 DEF TypeOK
    <3>3. Head(ready[i]) \in taken[i] \cup refused[i]
      <4>1. 1 \in DOMAIN ready[i] /\ Head(ready[i]) = ready[i][1]
        BY <3>1, <3>2
      <4> QED BY <1>2, <4>1 DEF Answered, OffersAreAnswered, Paced
    <3>4. Head(ready[1]) = Head(ready[i])
      <4>1. CASE i = 1
        BY <4>1
      <4>2. CASE Lockstep
        <5>1. PICK m \in Message : \A j \in Sink : Holds(j, m)
          BY <1>2, <3>1, <4>2 DEF Answered, InStep, Idle
        <5>2. ready[i] = <<m>> /\ ready[1] = <<m>>
          BY <3>1, <5>1 DEF Holds
        <5> QED BY <5>2
      <4> QED BY <1>2, <4>1, <4>2 DEF Paced
    <3> QED BY <2>1, <2>2, <2>3, <3>3, <3>4 DEF ZipAndAck
  <2>4. CASE ~ZipAndAck
    <3>1. acking' \cup acked' \subseteq acking \cup acked
      BY <1>2, <2>1, <2>4 DEF Next, Submit, vars, streamVars, Collect, Deliver,
         AckArrives, Published, Answer, MqttBreaks, Restart, TakeBack, Rebuild
    <3> QED BY <2>1, <2>2, <3>1
  <2> QED BY <2>3, <2>4
<1> QED BY <1>1, <1>2, SameSinks DEF AnsweredBeforeAcked, Answered

(* All that the acknowledgements rely on is kept by every step.            *)
LEMMA AnsweredInductive ==
  /\ Init => Answered
  /\ Answered /\ [Next]_vars => Answered'
BY TypeIsInductive, AccountedIsInductive, OfferedOnceIsInductive,
   OffersAreAnsweredIsInductive, InStepIsInductive, AnsweredIsInductive
   DEF Answered, Submitted

(* No message leaves the queue for good before the first sink, and every   *)
(* HTTP sink beside a direct one, has got an answer for it, whatever the   *)
(* number of sinks, the order of the answers and the failures.             *)
THEOREM AckedMeansAnswered == Spec => []AnsweredBeforeAcked
<1>1. Answered => AnsweredBeforeAcked
  BY DEF Answered
<1> QED BY <1>1, AnsweredInductive, PTL DEF Spec

(* What the zip and the slots of sink i count: the messages that it has    *)
(* taken and that have left no row yet.                                    *)
Load(i) == Cardinality(working[i]) + Len(ready[i])

(* A message that keeps a slot of sink i busy and that no row has          *)
(* acknowledged, nor will acknowledge before sink i offers one more.       *)
KeepsSlot(i, m) ==
  /\ m \in working[i] \ (acking \cup acked)
  /\ ready[i] # <<>> /\ ready[1] # <<>> => Head(ready[1]) # m

(* Without a direct stage every sink is an HTTP one.  The sinks may get out*)
(* of step, but each has been given as many messages as the others, so when*)
(* all the slots of a sink are busy one of them holds a message that is not*)
(* acknowledged.                                                           *)
Slow(i) ==
  /\ working[i] \subseteq unacked \cup acked
  /\ unacked \subseteq taken[i] \cup refused[i] \cup working[i]
  /\ Cardinality(working[i]) + InOwnBuffer(i) <= Slots
  /\ Load(i) = Load(1)
  /\ Cardinality(working[i]) = Slots => \E m \in Message : KeepsSlot(i, m)

SlowSinks == ~Lockstep => \A i \in Sink : Slow(i)

(* There are finitely many messages, and adding or taking one away changes *)
(* a number of messages by one.                                            *)
LEMMA CountMessages ==
  ASSUME NEW S, S \subseteq Message
  PROVE  /\ IsFiniteSet(S) /\ Cardinality(S) \in Nat
         /\ \A m \in S : Cardinality(S \ {m}) = Cardinality(S) - 1
         /\ \A m : m \notin S => Cardinality(S \cup {m}) = Cardinality(S) + 1
         /\ \A T : T \subseteq S => Cardinality(T) <= Cardinality(S)
<1>1. IsFiniteSet(Message)
  BY MessagesAssumption, FS_Interval DEF Message
<1>2. IsFiniteSet(S)
  BY <1>1, FS_Subset
<1> QED BY <1>2, FS_CardinalityType, FS_RemoveElement, FS_AddElement, FS_Subset

(* What a sink offers is empty or has a head, whose removal leaves the     *)
(* rest.                                                                   *)
LEMMA OffersCounted ==
  ASSUME NEW S, NEW q \in Seq(S)
  PROVE  /\ Len(q) \in Nat /\ (q = <<>> <=> Len(q) = 0)
         /\ q # <<>> => Tail(q) \in Seq(S) /\ Len(Tail(q)) = Len(q) - 1
         /\ \A m \in S : Append(q, m) \in Seq(S) /\ Len(Append(q, m)) = Len(q) + 1
OBVIOUS

(* Without a direct stage there are HTTP sinks only.                       *)
LEMMA AllHttp ==
  ASSUME TypeOK, ~Lockstep
  PROVE  \A i \in Sink : sinks[i] = "http" /\ 1 \in Sink
BY SetupsAssumption DEF TypeOK, Lockstep, IsDirect, Kind, Sink

(* The slots and the zip bound how far apart the HTTP sinks get.           *)
LEMMA SlowSinksIsInductive ==
  /\ Init => SlowSinks
  /\ Answered /\ SlowSinks /\ [Next]_vars => SlowSinks'
<1> USE SlotsAssumption
<1>1. ASSUME Init, NEW i \in Sink PROVE Slow(i)
  <2>1. /\ unacked = {} /\ working[i] = {} /\ ready[i] = <<>>
        /\ working[1] = {} /\ ready[1] = <<>>
    BY <1>1, SetupsAssumption DEF Init, Sink
  <2>2. Cardinality({}) = 0
    BY FS_EmptySet
  <2>3. Len(<<>>) = 0 /\ Slots # 0
    OBVIOUS
  <2>4. Load(i) = 0 /\ Load(1) = 0 /\ InOwnBuffer(i) = 0
    BY <2>1, <2>2, <2>3 DEF Load, InOwnBuffer
  <2> QED BY <2>1, <2>2, <2>3, <2>4 DEF Slow
<1>2. ASSUME Answered, SlowSinks, [Next]_vars, ~Lockstep, NEW i \in Sink
      PROVE  Slow(i)'
  <2>1. /\ TypeOK /\ Accounted /\ OfferedOnce /\ sinks' = sinks
        /\ OffersAreAnswered /\ i \in Sink /\ 1 \in Sink /\ sinks # <<>>
    BY <1>2, SameSinks, AllHttp DEF Answered, Submitted, Sink
  <2>2. \A j \in Sink : sinks[j] = "http" /\ Slow(j) /\ ~broken[j]
    BY <1>2, <2>1, AllHttp DEF SlowSinks, OffersAreAnswered
  <2>3. \A j \in Sink : /\ ready[j] \in Seq(Message) /\ working[j] \subseteq Message
                        /\ Cardinality(working[j]) \in Nat
    BY <2>1, CountMessages DEF TypeOK
  <2>4. ready[1] # <<>> => Head(ready[1]) \in unacked \ acking
    <3>1. ready[1] # <<>> => 1 \in DOMAIN ready[1] /\ Head(ready[1]) = ready[1][1]
      BY <2>1, <2>3
    <3> QED BY <2>1, <3>1 DEF OfferedOnce
  <2>4a. /\ \A j \in Sink : /\ Len(ready[j]) \in Nat
                           /\ ready[j] = <<>> <=> Len(ready[j]) = 0
                           /\ InOwnBuffer(j) \in Nat
         /\ Load(i) = Load(1)
    BY <2>1, <2>2, <2>3, OffersCounted DEF Slow, InOwnBuffer
  <2>5. ASSUME NEW reaches \in BOOLEAN, Collect(reaches) PROVE Slow(i)'
    BY <2>1, <2>2, <2>5
       DEF Collect, streamVars, Slow, Load, InOwnBuffer, KeepsSlot
  <2>6. CASE Deliver
    <3>1. Oldest \in queue /\ Oldest \in Message
      BY <2>1, <2>6, OldestIsQueued DEF Deliver, TypeOK
    <3>2. /\ unacked' = unacked \cup {Oldest} /\ ready' = ready
          /\ acking' = acking /\ acked' = acked /\ refused' = refused
          /\ \A j \in Sink : /\ working'[j] = working[j] \cup {Oldest}
                              /\ taken'[j] = taken[j]
      BY <2>1, <2>2, <2>6 DEF Deliver, EnterSinks, IsDirect, TypeOK
    <3>3. \A j \in Sink : Oldest \notin working[j]
      BY <2>1, <2>2, <3>1 DEF Slow, Accounted
    <3>4. \A j \in Sink : Cardinality(working'[j]) = Cardinality(working[j]) + 1
      BY <2>3, <3>2, <3>3, CountMessages
    <3>5. Cardinality(working[i]) + InOwnBuffer(i) < Slots
      BY <2>2, <2>6 DEF Deliver, HasRoom, IsDirect
    <3>6. InOwnBuffer(i)' = InOwnBuffer(i) /\ InOwnBuffer(i) \in Nat
      BY <2>3, <3>2 DEF InOwnBuffer
    <3>7. \E m \in Message : KeepsSlot(i, m)'
      <4>1. Oldest \notin acking' \cup acked' /\ Oldest \in working'[i]
        BY <2>1, <3>1, <3>2 DEF Accounted, TypeOK
      <4>2. ready'[1] # <<>> => Head(ready'[1]) # Oldest
        BY <2>1, <2>4, <3>1, <3>2 DEF Accounted
      <4> DEFINE o == Oldest
      <4>3. o \in Message /\ o \notin acking' \cup acked' /\ o \in working'[i]
            /\ (ready'[1] # <<>> => Head(ready'[1]) # o)
        BY <3>1, <4>1, <4>2
      <4> HIDE DEF o
      <4> QED BY <4>3 DEF KeepsSlot
    <3>8. Load(i)' = Load(1)'
      <4>1. ASSUME NEW j \in Sink PROVE Load(j)' = Load(j) + 1
        <5>1. /\ Cardinality(working'[j]) = Cardinality(working[j]) + 1
              /\ Cardinality(working[j]) \in Nat /\ Len(ready[j]) \in Nat
          BY <2>3, <2>4a, <3>4
        <5> QED BY <3>2, <5>1 DEF Load
      <4> QED BY <2>1, <2>4a, <4>1
    <3>9. Cardinality(working[i])' + InOwnBuffer(i)' <= Slots
      BY <2>3, <3>4, <3>5, <3>6
    <3> QED BY <2>2, <3>1, <3>2, <3>7, <3>8, <3>9 DEF Slow
  <2>7. CASE ZipAndAck
    <3>1. /\ unacked' = unacked /\ acked' = acked /\ working' = working
          /\ taken' = taken /\ refused' = refused
          /\ acking' = acking \cup {Head(ready[1])}
          /\ \A j \in Sink : ready[j] # <<>> /\ ready'[j] = Tail(ready[j])
      BY <2>7 DEF ZipAndAck
    <3>2. \A j \in Sink : /\ Len(ready[j]) \in Nat \ {0}
                          /\ Len(ready'[j]) = Len(ready[j]) - 1
                          /\ ready'[j] = <<>> <=> Len(ready'[j]) = 0
      BY <2>3, <3>1, OffersCounted
    <3>3. Load(i)' = Load(1)'
      <4>1. Load(i)' = Load(i) - 1 /\ Load(1)' = Load(1) - 1
        BY <2>1, <2>3, <3>1, <3>2 DEF Load
      <4> QED BY <2>4a, <4>1
    <3>4. InOwnBuffer(i) = Len(ready[i]) - 1
      BY <3>1 DEF InOwnBuffer
    <3>5. InOwnBuffer(i)' <= InOwnBuffer(i) /\ InOwnBuffer(i)' \in Nat
      BY <3>2, <3>4 DEF InOwnBuffer
    <3>6. Cardinality(working[i])' + InOwnBuffer(i)' <= Slots
      BY <2>2, <2>3, <3>1, <3>2, <3>4, <3>5 DEF Slow
    <3>7. ASSUME Cardinality(working[i]) = Slots
          PROVE  \E m \in Message : KeepsSlot(i, m)'
      <4>1. PICK m \in Message : KeepsSlot(i, m)
        BY <2>2, <3>7 DEF Slow
      <4>2. Cardinality(working[i]) + InOwnBuffer(i) <= Slots
        BY <2>2 DEF Slow
      <4>3. ready'[i] = <<>>
        BY <3>2, <3>4, <3>7, <4>2
      <4> QED BY <2>1, <3>1, <4>1, <4>3 DEF KeepsSlot
    <3> QED BY <2>2, <3>1, <3>3, <3>6, <3>7 DEF Slow
  <2>8. ASSUME NEW m \in Message, AckArrives(m) PROVE Slow(i)'
    <3>1. acking' \cup acked' = acking \cup acked /\ unacked' \subseteq unacked
          /\ unacked' \cup acked' = unacked \cup acked
          /\ UNCHANGED <<working, ready, taken, refused>>
      BY <2>1, <2>8 DEF AckArrives, TypeOK
    <3>2. \A n \in Message : KeepsSlot(i, n) => KeepsSlot(i, n)'
      BY <3>1 DEF KeepsSlot
    <3>3. Load(i)' = Load(i) /\ Load(1)' = Load(1)
          /\ InOwnBuffer(i)' = InOwnBuffer(i)
      BY <3>1 DEF Load, InOwnBuffer
    <3> QED BY <2>2, <3>1, <3>2, <3>3 DEF Slow
  <2>9. ASSUME NEW j \in Sink, NEW m \in Message, Published(j, m) PROVE Slow(i)'
    BY <2>2, <2>9 DEF Published
  <2>10. ASSUME NEW j \in Sink, NEW m \in Message, NEW success \in BOOLEAN,
                Answer(j, m, success)
         PROVE  Slow(i)'
    <3>1. /\ UNCHANGED <<unacked, acking, acked>>
          /\ m \in working[j] /\ m \in taken'[j] \cup refused'[j]
          /\ working'[j] = working[j] \ {m} /\ ready'[j] = Append(ready[j], m)
          /\ \A k \in Sink \ {j} : working'[k] = working[k] /\ ready'[k] = ready[k]
          /\ \A k \in Sink : taken[k] \subseteq taken'[k] /\ refused[k] \subseteq refused'[k]
      BY <2>1, <2>10 DEF Answer, TypeOK
    <3>2. /\ Cardinality(working'[j]) = Cardinality(working[j]) - 1
          /\ Cardinality(working'[j]) \in Nat
      BY <2>3, <3>1, CountMessages
    <3>3. Len(ready'[j]) = Len(ready[j]) + 1 /\ ready'[j] # <<>>
      <4>1. Append(ready[j], m) \in Seq(Message)
            /\ Len(Append(ready[j], m)) = Len(ready[j]) + 1
        BY <2>3, OffersCounted
      <4> QED BY <2>4a, <3>1, <4>1, OffersCounted
    <3>4. Load(j)' = Load(j) /\ \A k \in Sink \ {j} : Load(k)' = Load(k)
      <4>1. Load(j)' = Load(j)
        <5>1. Cardinality(working[j]) \in Nat /\ Len(ready[j]) \in Nat
          BY <2>3, <2>4a
        <5> QED BY <3>2, <3>3, <5>1 DEF Load
      <4>2. ASSUME NEW k \in Sink \ {j} PROVE Load(k)' = Load(k)
        BY <3>1 DEF Load
      <4> QED BY <4>1, <4>2
    <3>5. Load(i)' = Load(1)'
      BY <2>1, <2>2, <3>4 DEF Slow
    <3>6. CASE i = j
      <4>1. InOwnBuffer(i)' = Len(ready[i])
        BY <2>3, <3>3, <3>6 DEF InOwnBuffer
      <4>2. Len(ready[i]) \in Nat /\ Len(ready[i]) <= InOwnBuffer(i) + 1
        BY <2>3 DEF InOwnBuffer
      <4>3. Cardinality(working[i]) <= Slots
        BY <2>2, <2>3 DEF Slow, InOwnBuffer
      <4>4. InOwnBuffer(i) \in Nat
        BY <2>3 DEF InOwnBuffer
      <4>5. /\ Cardinality(working[i])' + InOwnBuffer(i)' <= Slots
            /\ Cardinality(working[i])' # Slots
        BY <2>2, <2>3, <3>2, <3>6, <4>1, <4>2, <4>3, <4>4 DEF Slow
      <4> QED BY <2>2, <3>1, <3>5, <3>6, <4>5 DEF Slow
    <3>7. CASE i # j
      <4>1. working'[i] = working[i] /\ ready'[i] = ready[i]
        BY <3>1, <3>7
      <4>2. InOwnBuffer(i)' = InOwnBuffer(i)
        BY <4>1 DEF InOwnBuffer
      <4>3. ASSUME Cardinality(working[i]) = Slots
            PROVE  \E n \in Message : KeepsSlot(i, n)'
        <5>1. PICK n \in Message : KeepsSlot(i, n)
          BY <2>2, <4>3 DEF Slow
        <5>2. CASE ready[1] # <<>>
          <6>1. Head(ready'[1]) = Head(ready[1])
            BY <2>1, <2>3, <3>1, <5>2
          <6> QED BY <3>1, <4>1, <5>1, <5>2, <6>1 DEF KeepsSlot
        <5>3. CASE ready[1] = <<>>
          <6>1. Cardinality(working[1]) <= Slots /\ Load(1) = Cardinality(working[1])
            BY <2>1, <2>2, <2>3, <5>3 DEF Slow, InOwnBuffer, Load
          <6>2. Load(i) <= Slots /\ Load(i) = Slots + Len(ready[i])
            BY <2>2, <4>3, <6>1 DEF Slow, Load
          <6>3. ready[i] = <<>>
            BY <2>3, <6>2
          <6> QED BY <3>1, <4>1, <5>1, <6>3 DEF KeepsSlot
        <5> QED BY <5>2, <5>3
      <4> QED BY <2>2, <3>1, <3>5, <4>1, <4>2, <4>3 DEF Slow
    <3> QED BY <3>6, <3>7
  <2>11. ASSUME NEW j \in Sink, MqttBreaks(j) PROVE Slow(i)'
    BY <2>2, <2>11 DEF MqttBreaks
  <2>12. CASE Restart
    <3>1. /\ unacked' = {} /\ working'[i] = {} /\ ready'[i] = <<>>
          /\ working'[1] = {} /\ ready'[1] = <<>>
      BY <2>1, <2>12 DEF Restart, Rebuild
    <3>2. Cardinality({}) = 0
      BY FS_EmptySet
    <3>3. Len(<<>>) = 0 /\ Slots # 0
      OBVIOUS
    <3>4. Load(i)' = 0 /\ Load(1)' = 0 /\ InOwnBuffer(i)' = 0
      BY <3>1, <3>2, <3>3 DEF Load, InOwnBuffer
    <3> QED BY <3>1, <3>2, <3>3, <3>4 DEF Slow
  <2>13. CASE UNCHANGED vars
    BY <2>1, <2>2, <2>13
       DEF vars, streamVars, Slow, Load, InOwnBuffer, KeepsSlot
  <2> QED BY <1>2, <2>5, <2>6, <2>7, <2>8, <2>9, <2>10, <2>11, <2>12, <2>13
          DEF Next, Submit
<1> QED BY <1>1, <1>2, SameSinks DEF SlowSinks

(* A failure loses for an HTTP sink what its slots still held of the       *)
(* acknowledged messages, and one slot at least holds another one.         *)
LEMMA LossIsInductive ==
  /\ Init => LossIsBounded
  /\ Answered /\ SlowSinks /\ LossIsBounded /\ [Next]_vars => LossIsBounded'
<1> USE SlotsAssumption
<1> DEFINE b == Slots - 1
<1>1. b \in Nat
  OBVIOUS
<1>2. ASSUME Init, NEW i \in Sink PROVE Cardinality(Lost(i)) <= restarts * b
  <2>1. Lost(i) = {} /\ restarts = 0
    BY <1>2 DEF Init, Lost
  <2> QED BY <1>1, <2>1, FS_EmptySet
<1>3. ASSUME Answered, SlowSinks, LossIsBounded, [Next]_vars,
             NEW i \in Sink, sinks[i] = "http"
      PROVE  Cardinality(Lost(i)') <= restarts' * b
  <2>1. /\ TypeOK /\ TypeOK' /\ sinks' = sinks /\ Sink' = Sink
        /\ AnsweredBeforeAcked'
    BY <1>3, SameSinks, TypeIsInductive, AnsweredIsInductive DEF Answered, Submitted
  <2>2. /\ restarts \in Nat /\ restarts' \in Nat
        /\ Lost(i) \subseteq Message /\ working[i] \subseteq Message
    BY <2>1, RestartsAssumption DEF TypeOK, Lost
  <2>3. Cardinality(Lost(i)) <= restarts * b
    BY <1>3 DEF LossIsBounded
  <2>4. CASE Lockstep
    <3>1. Lost(i)' = {}
      BY <1>3, <2>1, <2>4, SameSinks DEF AnsweredBeforeAcked, Paced, Lost
    <3> QED BY <1>1, <2>2, <3>1, FS_EmptySet
  <2>5. CASE ~Lockstep /\ ~Restart
    <3>1. Slow(i) /\ \A j \in Sink : sinks[j] = "http"
      BY <1>3, <2>1, <2>5, AllHttp DEF SlowSinks
    <3>2. Lost(i)' \subseteq Lost(i) /\ restarts' = restarts
      <4>1. ASSUME NEW reaches \in BOOLEAN, Collect(reaches)
            PROVE  Lost(i)' \subseteq Lost(i) /\ restarts' = restarts
        BY <4>1 DEF Collect, streamVars, Lost
      <4>2. CASE Deliver
        BY <2>1, <3>1, <4>2 DEF Deliver, EnterSinks, Lost, TypeOK
      <4>3. CASE ZipAndAck
        BY <4>3 DEF ZipAndAck, Lost
      <4>4. ASSUME NEW m \in Message, AckArrives(m)
            PROVE  Lost(i)' \subseteq Lost(i) /\ restarts' = restarts
        BY <2>1, <3>1, <4>4 DEF AckArrives, Lost, Slow, TypeOK
      <4>5. ASSUME NEW j \in Sink, NEW m \in Message, NEW success \in BOOLEAN,
                   Answer(j, m, success)
            PROVE  Lost(i)' \subseteq Lost(i) /\ restarts' = restarts
        BY <2>1, <4>5 DEF Answer, Lost, TypeOK
      <4>6. CASE UNCHANGED vars
        BY <4>6 DEF vars, streamVars, Lost
      <4> QED BY <1>3, <2>5, <3>1, <4>1, <4>2, <4>3, <4>4, <4>5, <4>6
              DEF Next, Submit, Published, MqttBreaks
    <3> QED BY <2>2, <2>3, <3>2, CountMessages, FS_Subset
  <2>6. CASE ~Lockstep /\ Restart
    <3> DEFINE S == (acking \cup acked) \cap working[i]
    <3>1. Slow(i)
      BY <1>3, <2>6 DEF SlowSinks
    <3>2. restarts' = restarts + 1 /\ Lost(i)' \subseteq Lost(i) \cup S
      BY <2>1, <2>6, <3>1 DEF Restart, TakeBack, Rebuild, Lost, Slow, TypeOK
    <3>3. Cardinality(working[i]) \in Nat /\ Cardinality(working[i]) <= Slots
      <4>1. Cardinality(working[i]) \in Nat /\ ready[i] \in Seq(Message)
        BY <2>1, <2>2, CountMessages DEF TypeOK
      <4>2. InOwnBuffer(i) \in Nat
        BY <4>1 DEF InOwnBuffer
      <4> QED BY <3>1, <4>1, <4>2 DEF Slow
    <3>4. Cardinality(S) <= b /\ Cardinality(S) \in Nat
      <4>1. Cardinality(S) <= Cardinality(working[i]) /\ Cardinality(S) \in Nat
        BY <2>2, CountMessages
      <4>2. CASE Cardinality(working[i]) = Slots
        <5>1. PICK m \in Message : KeepsSlot(i, m)
          BY <3>1, <4>2 DEF Slow
        <5>2. S \subseteq working[i] \ {m} /\ m \in working[i]
          BY <5>1 DEF KeepsSlot
        <5>3. Cardinality(working[i] \ {m}) = b
          BY <2>2, <4>2, <5>2, CountMessages
        <5>4. Cardinality(S) <= Cardinality(working[i] \ {m})
          <6>1. working[i] \ {m} \subseteq Message
            BY <2>2
          <6> HIDE DEF S
          <6> QED BY <5>2, <6>1, CountMessages
        <5> QED BY <4>1, <5>3, <5>4
      <4> QED BY <3>3, <4>1, <4>2
    <3>5. Cardinality(Lost(i)') <= Cardinality(Lost(i)) + Cardinality(S)
      <4>1. /\ S \subseteq Message /\ IsFiniteSet(S) /\ IsFiniteSet(Lost(i))
            /\ Lost(i) \cup S \subseteq Message
        BY <2>2, CountMessages
      <4> HIDE DEF S
      <4>2. Cardinality(Lost(i)') <= Cardinality(Lost(i) \cup S)
        BY <3>2, <4>1, CountMessages
      <4>3. Cardinality(Lost(i) \cup S)
              = Cardinality(Lost(i)) + Cardinality(S) - Cardinality(Lost(i) \cap S)
        BY <4>1, FS_Union
      <4>4. /\ Cardinality(Lost(i) \cap S) \in Nat /\ Cardinality(Lost(i)) \in Nat
            /\ Cardinality(S) \in Nat /\ Cardinality(Lost(i) \cup S) \in Nat
            /\ Cardinality(Lost(i)') \in Nat
        <5>1. Lost(i) \cap S \subseteq Message /\ Lost(i)' \subseteq Message
          BY <2>2, <3>2, <4>1
        <5> QED BY <2>2, <4>1, <5>1, CountMessages
      <4> QED BY <4>2, <4>3, <4>4
    <3>6. (restarts + 1) * b = restarts * b + b /\ restarts * b \in Nat
      BY <1>1, <2>2
    <3>7. Cardinality(Lost(i)) \in Nat /\ Cardinality(Lost(i)') \in Nat
      <4>1. Lost(i)' \subseteq Message
        BY <2>2, <3>2
      <4> QED BY <2>2, <4>1, CountMessages
    <3> HIDE DEF S, b
    <3> QED BY <1>1, <2>3, <3>2, <3>4, <3>5, <3>6, <3>7
  <2> QED BY <2>4, <2>5, <2>6
<1> QED BY <1>2, <1>3, SameSinks DEF LossIsBounded

(* HTTP sinks that answer at different paces lose at most the other slots  *)
(* of the slow sink at each failure of the stream, whatever the number of  *)
(* sinks, messages, slots and failures.                                    *)
THEOREM LossesAreBounded == Spec => []LossIsBounded
<1> DEFINE Inv == Answered /\ SlowSinks /\ LossIsBounded
<1>1. Init => Inv
  BY AnsweredInductive, SlowSinksIsInductive, LossIsInductive
<1>2. Inv /\ [Next]_vars => Inv'
  BY AnsweredInductive, SlowSinksIsInductive, LossIsInductive
<1>3. Inv => LossIsBounded
  OBVIOUS
<1> QED BY <1>1, <1>2, <1>3, PTL DEF Spec

=============================================================================
