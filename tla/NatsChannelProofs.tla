-------------------------- MODULE NatsChannelProofs --------------------------
(***************************************************************************)
(* Safety of NatsChannel for every number of messages and deliveries and   *)
(* every configuration: type correctness, the inductive invariant IInv,    *)
(* what the adapter loses and when, how often it tries and dead-letters a  *)
(* message, and that it implements AtLeastOnce.                            *)
(***************************************************************************)
EXTENDS NatsChannel, SequenceTheorems, TLAPS

USE JetStreamAssumption, NatsAssumption

\* Messages are positive integers; elsewhere Msgs is an opaque set.
LEMMA MsgsNat == Msgs \subseteq Nat \ {0} /\ (\A m \in Msgs : m <= MaxMsg)
  BY DEF Msgs

LEMMA DeliveryType ==
  ASSUME NEW d \in Deliveries
  PROVE  d[1] \in Msgs /\ d[2] \in 1 .. MaxDeliveries /\ d # Idle
  BY DEF Deliveries

-----------------------------------------------------------------------------
(* The queue of deliveries. *)

LEMMA QueueElement ==
  ASSUME NEW q \in Seq(Deliveries), NEW i \in 1 .. Len(q)
  PROVE  q[i] \in Deliveries /\ q[i][1] \in Msgs /\ q[i][2] \in 1 .. MaxDeliveries
  <1>1. q[i] \in Deliveries
    OBVIOUS
  <1> QED
    BY <1>1, DeliveryType

LEMMA QueueAppend ==
  ASSUME NEW q \in Seq(Deliveries), NEW d \in Deliveries
  PROVE  /\ Append(q, d) \in Seq(Deliveries)
         /\ Len(Append(q, d)) = Len(q) + 1
         /\ \A i \in 1 .. Len(q) : Append(q, d)[i] = q[i]
         /\ Append(q, d)[Len(q) + 1] = d
  OBVIOUS

LEMMA QueueTail ==
  ASSUME NEW q \in Seq(Deliveries), q # <<>>
  PROVE  /\ Len(q) \in Nat /\ Len(q) > 0
         /\ Head(q) \in Deliveries /\ Head(q) = q[1]
         /\ Tail(q) \in Seq(Deliveries)
         /\ Len(Tail(q)) = Len(q) - 1
         /\ \A i \in 1 .. Len(Tail(q)) : Tail(q)[i] = q[i + 1] /\ i + 1 \in 1 .. Len(q)
  OBVIOUS

-----------------------------------------------------------------------------
(* The operations of the server keep its part of the type invariant. *)
LEMMA ServerType ==
  ASSUME JetStreamTypeOK
  PROVE  /\ PubMessage => JetStreamTypeOK'
         /\ AddConsumer => JetStreamTypeOK'
         /\ \A m \in Msgs : FirstDelivery(m) => JetStreamTypeOK'
         /\ \A m \in Msgs : Redelivery(m) => JetStreamTypeOK'
         /\ \A m \in Msgs : AckMsg(m) => JetStreamTypeOK'
         /\ \A m \in Msgs : NakMsg(m) => JetStreamTypeOK'
         /\ \A m \in Msgs : WorkInProgress(m) => JetStreamTypeOK'
         /\ \A m \in Msgs : AckWaitPasses(m) => JetStreamTypeOK'
         /\ \A m \in Msgs : PubDeadLetter(m) => JetStreamTypeOK'
  <1> USE MsgsNat DEF JetStreamTypeOK, consumerVars, pendingVars
  <1>1. PubMessage => JetStreamTypeOK'
    BY DEF PubMessage
  <1>2. AddConsumer => JetStreamTypeOK'
    BY DEF AddConsumer
  <1>3. ASSUME NEW m \in Msgs, FirstDelivery(m) PROVE JetStreamTypeOK'
    <2>1. delivered' \in [Msgs -> 0 .. MaxDeliveries]
      BY <1>3 DEF FirstDelivery
    <2>2. last' \in 0 .. MaxMsg
      BY <1>3 DEF FirstDelivery
    <2> QED
      BY <1>3, <2>1, <2>2 DEF FirstDelivery
  <1>4. ASSUME NEW m \in Msgs, Redelivery(m) PROVE JetStreamTypeOK'
    <2>1. delivered[m] + 1 \in 0 .. MaxDeliveries
      BY <1>4 DEF Redelivery
    <2>2. delivered' \in [Msgs -> 0 .. MaxDeliveries]
      BY <1>4, <2>1 DEF Redelivery
    <2> QED
      BY <1>4, <2>2 DEF Redelivery
  <1>5. ASSUME NEW m \in Msgs, AckMsg(m) PROVE JetStreamTypeOK'
    BY <1>5 DEF AckMsg
  <1>6. ASSUME NEW m \in Msgs, NakMsg(m) PROVE JetStreamTypeOK'
    BY <1>6 DEF NakMsg
  <1>7. ASSUME NEW m \in Msgs, WorkInProgress(m) PROVE JetStreamTypeOK'
    BY <1>7 DEF WorkInProgress
  <1>8. ASSUME NEW m \in Msgs, AckWaitPasses(m) PROVE JetStreamTypeOK'
    BY <1>8 DEF AckWaitPasses
  <1>9. ASSUME NEW m \in Msgs, PubDeadLetter(m) PROVE JetStreamTypeOK'
    BY <1>9 DEF PubDeadLetter
  <1> QED
    BY <1>1, <1>2, <1>3, <1>4, <1>5, <1>6, <1>7, <1>8, <1>9

LEMMA InitTypeOK == Init => TypeOK
  <1> SUFFICES ASSUME Init PROVE TypeOK
    OBVIOUS
  <1> USE DEF Init, JetStreamInit
  <1>1. published \in 0 .. MaxMsg /\ start \in 0 .. MaxMsg /\ last \in 0 .. MaxMsg
    OBVIOUS
  <1>2. delivered \in [Msgs -> 0 .. MaxDeliveries] /\ dlq \in [Msgs -> Nat]
    OBVIOUS
  <1>3. consumer \in BOOLEAN /\ pending \subseteq Msgs /\ due \subseteq pending
    OBVIOUS
  <1>4. JetStreamTypeOK
    BY <1>1, <1>2, <1>3 DEF JetStreamTypeOK
  <1>5. queue \in Seq(Deliveries)
    OBVIOUS
  <1>6. faults \in 0 .. MaxFaults /\ stops \in 0 .. MaxStops
    OBVIOUS
  <1> QED
    BY <1>4, <1>5, <1>6 DEF TypeOK

-----------------------------------------------------------------------------
(* The adapter settles a message that no handler returned for and that is   *)
(* not dead-lettered if there is no dead letter queue, or if the publish    *)
(* to it may fail (_move_to_dlq only logs that) or be refused: disconnect   *)
(* came without unsubscribe, or after one whose drain failed.               *)
ClosesBusy == DisconnectsLive \/ "drain" \in FaultKinds

MoveMayFail == DlqEnabled /\ ("publish" \in FaultKinds \/ ClosesBusy)

Settleable(m) ==
    \/ m \in handled
    \/ dlq[m] > 0
    \/ delivered[m] >= MaxRetries /\ (~DlqEnabled \/ MoveMayFail)

Cared(m) == start < m /\ m <= last

\* A delivery that was made: what stays true of it whatever the server does.
Known(d) == Cared(d[1]) /\ d[2] <= delivered[d[1]]

ServerInv ==
    /\ JetStreamTypeOK
    /\ start <= last /\ last <= published
    /\ ~consumer => last = 0
    /\ \A m \in pending : Cared(m)
    /\ \A m \in Msgs : m > last => delivered[m] = 0 /\ dlq[m] = 0
    /\ \A m \in Msgs : dlq[m] > 0 => delivered[m] >= MaxRetries
    /\ \A m \in Published : m > last \/ m \in pending \/ Settleable(m)

\* A step of the whole system, seen from the server: one request, made when
\* what it stands for is true, or a handler that returns.
ServerStep ==
    \/ /\ handled' = handled
       /\ \/ UNCHANGED jsVars
          \/ PubMessage
          \/ AddConsumer
          \/ \E m \in Msgs : FirstDelivery(m)
          \/ \E m \in Msgs : Redelivery(m)
          \/ \E m \in Msgs : Settleable(m) /\ AckMsg(m)
          \/ \E m \in Msgs : NakMsg(m)
          \/ \E m \in Msgs : WorkInProgress(m)
          \/ \E m \in Msgs : AckWaitPasses(m)
          \/ \E m \in Msgs : Cared(m) /\ delivered[m] >= MaxRetries /\ PubDeadLetter(m)
    \/ /\ UNCHANGED jsVars
       /\ \E m \in Msgs : Cared(m) /\ delivered[m] > 0 /\ handled' = handled \cup {m}

Grows ==
    /\ \A d \in Deliveries : Known(d) => Known(d)'
    /\ \A m \in Msgs : Settleable(m) => Settleable(m)'
    /\ \A m \in Msgs : dlq[m] <= dlq'[m]
    /\ handled \subseteq handled'

\* The server's part of the invariant is kept, and what was true of a message
\* or a delivery stays true.
LEMMA ServerStepInv ==
  ASSUME ServerInv, ServerStep
  PROVE  ServerInv' /\ Grows
  <1> USE MsgsNat DEF consumerVars, pendingVars
  <1>t. JetStreamTypeOK
    BY DEF ServerInv
  <1>n. /\ published \in Nat /\ start \in Nat /\ last \in Nat
        /\ \A m \in Msgs : delivered[m] \in Nat /\ dlq[m] \in Nat
    BY <1>t DEF JetStreamTypeOK
  <1>d. \A d \in Deliveries : d[1] \in Msgs /\ d[1] \in Nat \ {0} /\ d[2] \in Nat
    <2> TAKE d \in Deliveries
    <2>1. d[1] \in Msgs /\ d[2] \in 1 .. MaxDeliveries
      BY DeliveryType
    <2>2. d[1] \in Nat \ {0}
      BY <2>1
    <2>3. d[2] \in Nat
      BY <2>1
    <2> QED
      BY <2>1, <2>2, <2>3
  <1>1. ASSUME UNCHANGED <<jsVars, handled>> PROVE ServerInv' /\ Grows
    BY <1>1, <1>n, <1>d
    DEF ServerInv, Grows, jsVars, JetStreamTypeOK, Published, Settleable, Cared, Known
  <1>2. ASSUME PubMessage, handled' = handled PROVE ServerInv' /\ Grows
    <2> USE <1>n, <1>d, <1>2 DEF PubMessage, Settleable, Cared, Known
    <2>1. JetStreamTypeOK'
      BY <1>t, ServerType
    <2>2. Grows
      BY DEF Grows
    <2>3. \A m \in Published' : m \in Published \/ m > last
      BY DEF Published, ServerInv
    <2> QED
      BY <2>1, <2>2, <2>3 DEF ServerInv
  <1>3. ASSUME AddConsumer, handled' = handled PROVE ServerInv' /\ Grows
    <2> USE <1>n, <1>d, <1>3 DEF AddConsumer
    <2>1. JetStreamTypeOK'
      BY <1>t, ServerType
    <2>2. CASE consumer
      BY <2>1, <2>2 DEF ServerInv, Grows, Published, Settleable, Cared, Known
    <2>3. CASE ~consumer
      <3>0. last = 0
        BY <2>3 DEF ServerInv
      <3>1. \A m \in Msgs : ~Cared(m)
        BY <3>0 DEF Cared
      <3>2. pending = {}
        BY <3>1 DEF ServerInv, JetStreamTypeOK
      <3>3. \A m \in Published' : FALSE
        <4>1. start' = published /\ published' = published /\ published \in Nat
          BY <2>3
        <4>2. \A m \in Published' : m \in Nat /\ start' < m /\ m <= published'
          BY DEF Published
        <4> HIDE <1>3 DEF AddConsumer
        <4> QED
          BY <4>1, <4>2
      <3>4. Grows
        BY <3>1 DEF Grows, Known, Settleable
      <3>5. \A m \in Msgs : m > last' => m > last
        BY <2>3, <3>0
      <3> QED
        BY <2>1, <2>3, <3>0, <3>2, <3>3, <3>4, <3>5 DEF ServerInv
    <2> QED
      BY <2>2, <2>3
  <1>4. ASSUME NEW m \in Msgs, FirstDelivery(m), handled' = handled
        PROVE  ServerInv' /\ Grows
    <2> USE <1>n, <1>d, <1>4 DEF FirstDelivery
    <2>1. JetStreamTypeOK'
      BY <1>t, ServerType
    <2>2. delivered[m] = 0 /\ dlq[m] = 0 /\ delivered'[m] = 1
      BY <1>t DEF ServerInv, JetStreamTypeOK
    <2>3. \A k \in Msgs : k # m => delivered'[k] = delivered[k]
      BY <1>t DEF JetStreamTypeOK
    <2>4. Grows
      BY <2>2, <2>3 DEF Grows, Known, Cared, Settleable
    <2>5. \A k \in pending' : Cared(k)'
      BY DEF ServerInv, Cared, JetStreamTypeOK
    <2>6. \A k \in Msgs : k > last' => delivered'[k] = 0 /\ dlq'[k] = 0
      BY <2>3 DEF ServerInv
    <2>7. \A k \in Msgs : dlq'[k] > 0 => delivered'[k] >= MaxRetries
      BY <2>2, <2>3 DEF ServerInv
    <2>8. \A k \in Published' : k > last' \/ k \in pending' \/ Settleable(k)'
      <3> SUFFICES ASSUME NEW k \in Published, k # m
                   PROVE  k > last' \/ k \in pending' \/ Settleable(k)'
        BY DEF Published
      <3>1. k \in Msgs
        BY DEF Published
      <3>2. k > last => k > last'
        BY <3>1
      <3> QED
        BY <2>4, <3>1, <3>2 DEF ServerInv, Grows
    <2> QED
      BY <2>1, <2>4, <2>5, <2>6, <2>7, <2>8 DEF ServerInv
  <1>5. ASSUME NEW m \in Msgs, Redelivery(m), handled' = handled
        PROVE  ServerInv' /\ Grows
    <2> USE <1>n, <1>d, <1>5 DEF Redelivery
    <2>1. JetStreamTypeOK'
      BY <1>t, ServerType
    <2>2. \A k \in Msgs : delivered'[k] >= delivered[k] /\ delivered'[k] \in Nat
      BY <1>t DEF JetStreamTypeOK
    <2>3. \A k \in Msgs : k # m => delivered'[k] = delivered[k]
      BY <1>t DEF JetStreamTypeOK
    <2>4. Grows
      BY <2>2 DEF Grows, Known, Cared, Settleable
    <2>5. m <= last
      BY <1>t DEF ServerInv, Cared, JetStreamTypeOK
    <2>6. \A k \in Published' : k > last' \/ k \in pending' \/ Settleable(k)'
      BY <2>4 DEF ServerInv, Grows, Published
    <2> QED
      BY <2>1, <2>2, <2>3, <2>4, <2>5, <2>6 DEF ServerInv, Cared
  <1>6. ASSUME NEW m \in Msgs, Settleable(m), AckMsg(m), handled' = handled
        PROVE  ServerInv' /\ Grows
    <2> USE <1>n, <1>d, <1>6 DEF AckMsg
    <2>1. JetStreamTypeOK'
      BY <1>t, ServerType
    <2>2. Grows
      BY DEF Grows, Known, Cared, Settleable
    <2>3. \A k \in Published' : k > last' \/ k \in pending' \/ Settleable(k)'
      BY <2>2 DEF ServerInv, Grows, Published
    <2> QED
      BY <2>1, <2>2, <2>3 DEF ServerInv, Cared
  <1>7. ASSUME NEW m \in Msgs, NakMsg(m) \/ WorkInProgress(m) \/ AckWaitPasses(m),
               handled' = handled
        PROVE  ServerInv' /\ Grows
    <2> USE <1>n, <1>d, <1>7 DEF NakMsg, WorkInProgress, AckWaitPasses
    <2>1. JetStreamTypeOK'
      BY <1>t, ServerType
    <2>2. Grows
      BY DEF Grows, Known, Cared, Settleable
    <2> QED
      BY <2>1, <2>2 DEF ServerInv, Cared, Published, Settleable
  <1>8. ASSUME NEW m \in Msgs, Cared(m), delivered[m] >= MaxRetries, PubDeadLetter(m),
               handled' = handled
        PROVE  ServerInv' /\ Grows
    <2> USE <1>n, <1>d, <1>8 DEF PubDeadLetter
    <2>1. JetStreamTypeOK'
      BY <1>t, ServerType
    <2>2. \A k \in Msgs : dlq[k] <= dlq'[k] /\ (k # m => dlq'[k] = dlq[k])
      BY <1>t DEF JetStreamTypeOK
    <2>3. Grows
      BY <2>2 DEF Grows, Known, Cared, Settleable
    <2>4. \A k \in Published' : k > last' \/ k \in pending' \/ Settleable(k)'
      BY <2>3 DEF ServerInv, Grows, Published
    <2> QED
      BY <2>1, <2>2, <2>3, <2>4 DEF ServerInv, Cared
  <1>9. ASSUME UNCHANGED jsVars, NEW m \in Msgs, handled' = handled \cup {m}
        PROVE  ServerInv' /\ Grows
    BY <1>9, <1>n, <1>d
    DEF ServerInv, Grows, jsVars, JetStreamTypeOK, Published, Settleable, Cared, Known
  <1> QED
    BY <1>1, <1>2, <1>3, <1>4, <1>5, <1>6, <1>7, <1>8, <1>9 DEF ServerStep

-----------------------------------------------------------------------------
(* The consumer's part of the invariant. *)
Lives  == {"down", "up", "waiting", "draining", "unsubscribed", "undrained", "closing"}
Places == {"idle", "progress", "handler", "ack", "move", "lastack", "nak"}

ClientTypeOK ==
    /\ life \in Lives
    /\ queue \in Seq(Deliveries)
    /\ current \in Deliveries \cup {Idle}
    /\ at \in Places
    /\ active \subseteq Msgs
    /\ handled \subseteq Msgs
    /\ faults \in 0 .. MaxFaults
    /\ stops \in 0 .. MaxStops

\* Every delivery the client library holds was made by the server.
QueueInv == \A i \in 1 .. Len(queue) : Known(queue[i])

\* What _process_message knows of its delivery at each of its awaits.
TaskInv ==
    /\ (current = Idle) <=> (at = "idle")
    /\ current # Idle => Known(current)
    /\ at = "ack" => current[1] \in handled
    /\ at \in {"move", "lastack"} => current[2] >= MaxRetries
    /\ at = "move" => DlqEnabled
    /\ at = "lastack" => ~DlqEnabled \/ dlq[current[1]] > 0 \/ MoveMayFail

Quiet == queue = <<>> /\ current = Idle

\* Nothing is held by a process that has unsubscribed, or that is not there.
StopInv ==
    /\ life \in {"unsubscribed", "down"} => Quiet
    /\ life = "undrained" => "drain" \in FaultKinds
    /\ life = "closing" => ClosesBusy \/ Quiet

\* The delivery in _process_message is among those unsubscribe waits for; no
\* other is, unless in_progress can raise.
ActiveInv ==
    /\ current # Idle => current[1] \in active
    /\ "progress" \notin FaultKinds => ActiveTracksTask

FullInv == ServerInv /\ ClientTypeOK /\ QueueInv /\ TaskInv /\ StopInv /\ ActiveInv

LEMMA FullIsIInv == FullInv => IInv
  <1> SUFFICES ASSUME FullInv PROVE IInv
    OBVIOUS
  <1>1. TypeOK
    BY DEF FullInv, ServerInv, ClientTypeOK, TypeOK, Lives, Places
  <1> QED
    BY <1>1 DEF FullInv, ServerInv, QueueInv, TaskInv, Known, Cared, IInv

\* Facts about the delivery in _process_message.
LEMMA CurrentFacts ==
  ASSUME FullInv, current # Idle
  PROVE  /\ current \in Deliveries /\ current[1] \in Msgs /\ current[2] \in 1 .. MaxDeliveries
         /\ Cared(current[1]) /\ current[2] <= delivered[current[1]]
         /\ delivered[current[1]] \in Nat /\ delivered[current[1]] > 0
  <1>1. current \in Deliveries
    BY DEF FullInv, ClientTypeOK
  <1>2. current[1] \in Msgs /\ current[2] \in 1 .. MaxDeliveries
    BY <1>1, DeliveryType
  <1>3. Cared(current[1]) /\ current[2] <= delivered[current[1]]
    BY DEF FullInv, TaskInv, Known
  <1>4. delivered[current[1]] \in 0 .. MaxDeliveries
    BY <1>2 DEF FullInv, ServerInv, JetStreamTypeOK
  <1> QED
    BY <1>1, <1>2, <1>3, <1>4

LEMMA TaskServerStep ==
  ASSUME FullInv, ProcessStep \/ ProcessFails
  PROVE  ServerStep
  <1> DEFINE c == current[1]
  <1>0. at # "idle" =>
          /\ c \in Msgs /\ Cared(c) /\ delivered[c] \in Nat /\ delivered[c] > 0
          /\ current[2] \in Nat /\ current[2] <= delivered[c]
    BY CurrentFacts DEF FullInv, TaskInv
  <1>1. at \in {"move", "lastack"} => delivered[c] >= MaxRetries
    BY <1>0 DEF FullInv, TaskInv
  <1>2. at = "lastack" => Settleable(c)
    BY <1>1 DEF FullInv, TaskInv, Settleable
  <1>3. at = "ack" => Settleable(c)
    BY DEF FullInv, TaskInv, Settleable
  <1>4. CASE Take \/ HandlerRaises \/ InProgressFails \/ AckFails \/ AnswerLost
    BY <1>4 DEF Take, HandlerRaises, InProgressFails, AckFails, AnswerLost, ServerStep
  <1>5. CASE InProgress
    BY <1>5, <1>0 DEF InProgress, ServerStep
  <1>6. CASE HandlerReturns
    BY <1>6, <1>0 DEF HandlerReturns, ServerStep
  <1>7. CASE Ack
    BY <1>7, <1>0, <1>3 DEF Ack, ServerStep
  <1>8. CASE Move
    BY <1>8, <1>0, <1>1 DEF Move, ServerStep
  <1>9. CASE MoveFails
    BY <1>9, <1>0, <1>1 DEF MoveFails, ServerStep
  <1>10. CASE LastAck
    BY <1>10, <1>0, <1>2 DEF LastAck, ServerStep
  <1>11. CASE Nak
    BY <1>11, <1>0 DEF Nak, ServerStep
  <1> QED
    BY <1>4, <1>5, <1>6, <1>7, <1>8, <1>9, <1>10, <1>11 DEF ProcessStep, ProcessFails

\* Every step of the system is such a step, or leaves everything alone.
LEMMA EveryServerStep == FullInv /\ [Next]_vars => ServerStep
  <1> SUFFICES ASSUME FullInv, [Next]_vars PROVE ServerStep
    OBVIOUS
  <1>1. CASE Publish
    BY <1>1 DEF Publish, ServerStep
  <1>2. CASE Subscribe
    BY <1>2 DEF Subscribe, ServerStep
  <1>3. ASSUME NEW m \in Msgs, Deliver(m) PROVE ServerStep
    BY <1>3 DEF Deliver, ServerStep
  <1>4. ASSUME NEW m \in Msgs, Expire(m) PROVE ServerStep
    BY <1>4 DEF Expire, ServerStep
  <1>5. CASE ProcessStep \/ ProcessFails
    BY <1>5, TaskServerStep
  <1>6. CASE StopStep
    BY <1>6 DEF StopStep, UnsubscribeBegin, UnsubscribeDrain, UnsubscribeEnd,
                UnsubscribeFails, DisconnectBegin, DisconnectEnd, Crash, ServerStep
  <1>7. CASE UNCHANGED vars
    BY <1>7 DEF vars, ServerStep
  <1> QED
    BY <1>1, <1>2, <1>3, <1>4, <1>5, <1>6, <1>7 DEF Next

LEMMA ServerInvStep == FullInv /\ [Next]_vars => ServerInv' /\ Grows
  BY EveryServerStep, ServerStepInv DEF FullInv

-----------------------------------------------------------------------------
(* Each kind of step keeps the consumer's part. *)

\* A step that leaves the deliveries of the process alone.
LEMMA SameTask ==
  ASSUME FullInv, ServerInv', Grows, UNCHANGED taskVars
  PROVE  QueueInv' /\ TaskInv' /\ ActiveInv' /\ (Quiet <=> Quiet')
  <1> USE DEF taskVars, FullInv
  <1>1. QueueInv'
    <2> SUFFICES ASSUME NEW i \in 1 .. Len(queue) PROVE Known(queue[i])'
      BY DEF QueueInv
    <2>1. queue[i] \in Deliveries
      BY QueueElement DEF ClientTypeOK
    <2> QED
      BY <2>1 DEF QueueInv, Grows, Known, Cared
  <1>2. TaskInv'
    <2>1. CASE current = Idle
      BY <2>1 DEF TaskInv
    <2>2. CASE current # Idle
      <3>1. Known(current)'
        BY <2>2, CurrentFacts DEF Grows, TaskInv, Known, Cared
      <3>2. dlq[current[1]] <= dlq'[current[1]] /\ handled \subseteq handled'
        BY <2>2, CurrentFacts DEF Grows
      <3>3. dlq[current[1]] \in Nat /\ dlq'[current[1]] \in Nat
        BY <2>2, CurrentFacts DEF ServerInv, JetStreamTypeOK
      <3> QED
        BY <2>2, <3>1, <3>2, <3>3 DEF TaskInv
    <2> QED
      BY <2>1, <2>2
  <1>3. ActiveInv'
    BY DEF ActiveInv, ActiveTracksTask
  <1> QED
    BY <1>1, <1>2, <1>3 DEF Quiet

\* A step of the publishers, the server or the process as a whole.
LEMMA OutsideStepInv ==
  ASSUME FullInv, ServerInv', Grows,
         \/ Publish \/ Subscribe \/ StopStep \/ (\E m \in Msgs : Expire(m))
         \/ UNCHANGED vars
  PROVE  FullInv'
  <1>t. ClientTypeOK /\ StopInv
    BY DEF FullInv
  <1>p. ASSUME ProcessEnds, handled' = handled, faults' \in 0 .. MaxFaults,
               stops' \in 0 .. MaxStops
        PROVE  FullInv'
    <2>1. queue' \in Seq(Deliveries) /\ Len(queue') = 0
      BY <1>p DEF ProcessEnds
    <2>2. ClientTypeOK'
      BY <1>p, <1>t, <2>1 DEF ProcessEnds, ClientTypeOK, Lives, Places
    <2>3. QueueInv' /\ TaskInv' /\ StopInv' /\ ActiveInv'
      BY <1>p, <2>1
      DEF ProcessEnds, QueueInv, TaskInv, StopInv, Quiet, ActiveInv, ActiveTracksTask
    <2> QED
      BY <2>2, <2>3 DEF FullInv
  <1>s. ASSUME UNCHANGED taskVars, handled' = handled, life' \in Lives,
               faults' \in 0 .. MaxFaults, stops' \in 0 .. MaxStops, StopInv'
        PROVE  FullInv'
    <2>1. ClientTypeOK'
      BY <1>s, <1>t DEF taskVars, ClientTypeOK
    <2> QED
      BY <1>s, <2>1, SameTask DEF FullInv
  <1>q. UNCHANGED taskVars => (Quiet <=> Quiet')
    BY SameTask
  <1>i. UNCHANGED <<faults, stops>> => faults' \in 0 .. MaxFaults /\ stops' \in 0 .. MaxStops
    BY <1>t DEF ClientTypeOK
  <1>f. faults' = faults => faults' \in 0 .. MaxFaults
    BY <1>t DEF ClientTypeOK
  <1>j. Stop => stops' \in 0 .. MaxStops
    BY <1>t DEF Stop, ClientTypeOK
  <1>1. CASE \/ Publish \/ (\E m \in Msgs : Expire(m)) \/ UNCHANGED vars
    <2>1. UNCHANGED <<taskVars, life, faults, stops, handled>>
      BY <1>1 DEF Publish, Expire, vars
    <2>2. StopInv'
      BY <2>1, <1>q, <1>t DEF StopInv
    <2> QED
      BY <2>1, <2>2, <1>s, <1>i, <1>t DEF ClientTypeOK
  <1>2. CASE Subscribe
    <2>1. StopInv' /\ life' \in Lives
      BY <1>2 DEF Subscribe, StopInv, Lives
    <2> QED
      BY <1>2, <2>1, <1>s, <1>i DEF Subscribe
  <1>3. CASE UnsubscribeBegin
    <2>1. StopInv' /\ life' \in Lives
      BY <1>3 DEF UnsubscribeBegin, StopInv, Lives
    <2> QED
      BY <1>3, <2>1, <1>s, <1>j, <1>f DEF UnsubscribeBegin
  <1>4. CASE UnsubscribeDrain
    <2>1. StopInv' /\ life' \in Lives
      BY <1>4 DEF UnsubscribeDrain, StopInv, Lives
    <2> QED
      BY <1>4, <2>1, <1>s, <1>i DEF UnsubscribeDrain
  <1>5. CASE UnsubscribeEnd
    <2>1. StopInv' /\ life' \in Lives
      BY <1>5 DEF UnsubscribeEnd, StopInv, Quiet, Lives, taskVars
    <2> QED
      BY <1>5, <2>1, <1>s, <1>i DEF UnsubscribeEnd
  <1>9. CASE UnsubscribeFails
    <2>1. faults' \in 0 .. MaxFaults /\ "drain" \in FaultKinds
      BY <1>9, <1>t DEF UnsubscribeFails, Fault, ClientTypeOK
    <2>2. StopInv' /\ life' \in Lives
      BY <1>9, <2>1 DEF UnsubscribeFails, StopInv, Lives
    <2>3. stops' \in 0 .. MaxStops
      BY <1>9, <1>t DEF UnsubscribeFails, ClientTypeOK
    <2> QED
      BY <1>9, <2>1, <2>2, <2>3, <1>s DEF UnsubscribeFails
  <1>6. CASE DisconnectBegin
    <2>1. StopInv' /\ life' \in Lives
      BY <1>6, <1>q, <1>t DEF DisconnectBegin, StopInv, Lives, ClosesBusy
    <2>2. stops' \in 0 .. MaxStops
      BY <1>6, <1>j, <1>t DEF DisconnectBegin, ClientTypeOK
    <2> QED
      BY <1>6, <2>1, <2>2, <1>s, <1>f DEF DisconnectBegin
  <1>7. CASE DisconnectEnd
    BY <1>7, <1>p, <1>i DEF DisconnectEnd
  <1>8. CASE Crash
    <2>1. faults' \in 0 .. MaxFaults
      BY <1>8, <1>t DEF Crash, ClientTypeOK
    <2> QED
      BY <1>8, <2>1, <1>p, <1>j DEF Crash
  <1> QED
    BY <1>1, <1>2, <1>3, <1>4, <1>5, <1>6, <1>7, <1>8, <1>9 DEF StopStep

LEMMA DeliverStepInv ==
  ASSUME FullInv, ServerInv', Grows, NEW m \in Msgs, Deliver(m)
  PROVE  FullInv'
  <1>t. ClientTypeOK
    BY DEF FullInv
  <1>n. /\ start \in Nat /\ last \in Nat /\ start <= last /\ m \in Nat
        /\ delivered \in [Msgs -> 0 .. MaxDeliveries]
    BY MsgsNat DEF FullInv, ServerInv, JetStreamTypeOK
  <1>c. Cared(m)' /\ delivered'[m] \in 1 .. MaxDeliveries
    <2>1. CASE FirstDelivery(m)
      BY <2>1, <1>n DEF FirstDelivery, Cared
    <2>2. CASE Redelivery(m)
      <3>1. delivered'[m] \in 1 .. MaxDeliveries
        BY <2>2, <1>n DEF Redelivery
      <3>2. Cared(m)
        BY <2>2 DEF Redelivery, FullInv, ServerInv, JetStreamTypeOK
      <3> QED
        BY <2>2, <3>1, <3>2 DEF Redelivery, consumerVars, Cared
    <2> QED
      BY <2>1, <2>2 DEF Deliver
  <1> PICK d \in Deliveries : d = <<m, delivered'[m]>>
    BY <1>c DEF Deliveries
  <1>1. Known(d)'
    BY <1>c DEF Known, Cared
  <1>2. CASE queue' = Append(queue, d) /\ UNCHANGED faults
    <2>1. /\ queue' \in Seq(Deliveries) /\ Len(queue') = Len(queue) + 1 /\ Len(queue) \in Nat
          /\ \A i \in 1 .. Len(queue) : queue'[i] = queue[i]
          /\ queue'[Len(queue) + 1] = d
      BY <1>1, <1>2, <1>t, QueueAppend DEF ClientTypeOK
    <2>2. QueueInv'
      <3> SUFFICES ASSUME NEW i \in 1 .. Len(queue') PROVE Known(queue[i])'
        BY DEF QueueInv
      <3>1. CASE i = Len(queue) + 1
        BY <1>1, <2>1, <3>1 DEF Known, Cared
      <3>2. CASE i # Len(queue) + 1
        <4>1. i \in 1 .. Len(queue) /\ queue'[i] = queue[i]
          BY <2>1, <3>2
        <4>2. queue[i] \in Deliveries
          BY <4>1, <1>t, QueueElement DEF ClientTypeOK
        <4> QED
          BY <4>1, <4>2 DEF FullInv, QueueInv, Grows, Known, Cared
      <3> QED
        BY <3>1, <3>2
    <2>3. ClientTypeOK' /\ StopInv'
      BY <1>2, <1>t, <2>1 DEF Deliver, FullInv, ClientTypeOK, StopInv
    <2>4. TaskInv' /\ ActiveInv'
      <3>1. UNCHANGED <<current, at, active>>
        BY DEF Deliver
      <3>2. ActiveInv'
        BY <3>1 DEF FullInv, ActiveInv, ActiveTracksTask
      <3>3. CASE current = Idle
        BY <3>1, <3>2, <3>3 DEF FullInv, TaskInv
      <3>4. CASE current # Idle
        <4>1. Known(current)'
          BY <3>4, <3>1, CurrentFacts DEF Grows, FullInv, TaskInv, Known, Cared
        <4>2. dlq' = dlq /\ handled' = handled
          BY DEF Deliver, FirstDelivery, Redelivery
        <4> QED
          BY <3>1, <3>2, <3>4, <4>1, <4>2 DEF FullInv, TaskInv
      <3> QED
        BY <3>3, <3>4
    <2> QED
      BY <2>2, <2>3, <2>4 DEF FullInv
  <1>3. CASE Fault("deliver") /\ UNCHANGED queue
    <2>1. UNCHANGED taskVars
      BY <1>3 DEF Deliver, taskVars
    <2>2. ClientTypeOK' /\ StopInv'
      BY <1>3, <1>t, <2>1 DEF Deliver, FullInv, ClientTypeOK, StopInv, Fault, taskVars
    <2> QED
      BY <2>1, <2>2, SameTask DEF FullInv
  <1> QED
    BY <1>2, <1>3 DEF Deliver

\* A step of _process_message that stays with its delivery.
LEMMA GotoStepInv ==
  ASSUME FullInv, ServerInv', Grows, at # "idle",
         NEW to \in Places \ {"idle"}, Goto(to), UNCHANGED life,
         handled' \subseteq Msgs, faults' \in 0 .. MaxFaults, stops' = stops,
         to = "ack" => current[1] \in handled',
         to \in {"move", "lastack"} => current[2] >= MaxRetries,
         to = "move" => DlqEnabled,
         to = "lastack" => ~DlqEnabled \/ dlq'[current[1]] > 0 \/ MoveMayFail
  PROVE  FullInv'
  <1> USE DEF Goto
  <1>0. current # Idle
    BY DEF FullInv, TaskInv
  <1>1. ClientTypeOK'
    BY DEF FullInv, ClientTypeOK
  <1>2. QueueInv'
    <2> SUFFICES ASSUME NEW i \in 1 .. Len(queue) PROVE Known(queue[i])'
      BY DEF QueueInv
    <2>1. queue[i] \in Deliveries
      BY QueueElement DEF FullInv, ClientTypeOK
    <2> QED
      BY <2>1 DEF FullInv, QueueInv, Grows, Known, Cared
  <1>3. Known(current)'
    BY <1>0, CurrentFacts DEF Grows, FullInv, TaskInv, Known, Cared
  <1>4. TaskInv'
    BY <1>0, <1>3 DEF TaskInv
  <1>5. StopInv' /\ ActiveInv'
    BY <1>0 DEF FullInv, StopInv, Quiet, ActiveInv, ActiveTracksTask
  <1> QED
    BY <1>1, <1>2, <1>4, <1>5 DEF FullInv

\* _process_message is over.
LEMMA EndStepInv ==
  ASSUME FullInv, ServerInv', Grows, at # "idle",
         current' = Idle, at' = "idle", UNCHANGED <<queue, life, handled, stops>>,
         faults' \in 0 .. MaxFaults,
         \/ active' = active \ {current[1]}
         \/ active' = active /\ "progress" \in FaultKinds
  PROVE  FullInv'
  <1>0. current # Idle
    BY DEF FullInv, TaskInv
  <1>1. ClientTypeOK'
    BY DEF FullInv, ClientTypeOK, Places
  <1>2. QueueInv'
    <2> SUFFICES ASSUME NEW i \in 1 .. Len(queue) PROVE Known(queue[i])'
      BY DEF QueueInv
    <2>1. queue[i] \in Deliveries
      BY QueueElement DEF FullInv, ClientTypeOK
    <2> QED
      BY <2>1 DEF FullInv, QueueInv, Grows, Known, Cared
  <1>3. TaskInv'
    BY DEF TaskInv
  <1>4. StopInv'
    BY <1>0 DEF FullInv, StopInv, Quiet
  <1>5. ActiveInv'
    BY <1>0 DEF FullInv, ActiveInv, ActiveTracksTask
  <1> QED
    BY <1>1, <1>2, <1>3, <1>4, <1>5 DEF FullInv

LEMMA TakeStepInv ==
  ASSUME FullInv, Take, ServerInv', Grows
  PROVE  FullInv'
  <1> USE DEF Take
  <1>t. ClientTypeOK
    BY DEF FullInv
  <1>1. /\ Head(queue) \in Deliveries /\ Head(queue) = queue[1] /\ 1 \in 1 .. Len(queue)
        /\ queue' \in Seq(Deliveries) /\ Len(queue') = Len(queue) - 1 /\ Len(queue) \in Nat
        /\ \A i \in 1 .. Len(queue') : queue'[i] = queue[i + 1] /\ i + 1 \in 1 .. Len(queue)
    BY <1>t, QueueTail DEF ClientTypeOK
  <1>2. current' # Idle /\ current'[1] \in Msgs
    BY <1>1, DeliveryType
  <1>3. UNCHANGED <<start, last, delivered, life>>
    BY DEF jsVars
  <1>4. /\ \A i \in 1 .. Len(queue) : Known(queue[i])
        /\ \A d \in Deliveries : Known(d) => Known(d)'
    BY DEF FullInv, QueueInv, Grows
  <1>5. ClientTypeOK'
    BY <1>1, <1>2, <1>t DEF ClientTypeOK, Places
  <1>6. QueueInv'
    <2> SUFFICES ASSUME NEW i \in 1 .. Len(queue') PROVE Known(queue[i])'
      BY DEF QueueInv
    <2>1. queue'[i] = queue[i + 1] /\ i + 1 \in 1 .. Len(queue)
      BY <1>1
    <2>2. queue[i + 1] \in Deliveries
      BY <2>1, <1>t, QueueElement DEF ClientTypeOK
    <2> QED
      BY <2>1, <2>2, <1>4 DEF Known, Cared
  <1>7. Known(current)'
    BY <1>1, <1>4 DEF Known, Cared
  <1>8. TaskInv'
    BY <1>2, <1>7 DEF TaskInv
  <1>9. StopInv' /\ ActiveInv'
    BY <1>2, <1>3 DEF FullInv, StopInv, Quiet, ActiveInv, ActiveTracksTask
  <1> QED
    BY <1>5, <1>6, <1>8, <1>9 DEF FullInv

LEMMA ProcessStepInv ==
  ASSUME FullInv, ServerInv', Grows, ProcessStep \/ ProcessFails
  PROVE  FullInv'
  <1> DEFINE c == current[1]
  <1>t. ClientTypeOK
    BY DEF FullInv
  <1>0. at # "idle" => c \in Msgs /\ current[2] \in Nat
    BY CurrentFacts DEF FullInv, TaskInv
  <1>h. handled' = handled => handled' \subseteq Msgs
    BY <1>t DEF ClientTypeOK
  <1>u. UNCHANGED faults => faults' \in 0 .. MaxFaults
    BY <1>t DEF ClientTypeOK
  <1>v. ASSUME NEW kind, Fault(kind) PROVE faults' \in 0 .. MaxFaults
    BY <1>v, <1>t DEF ClientTypeOK, Fault
  <1>e. ASSUME at # "idle", OnError, UNCHANGED <<life, handled, stops>>,
               faults' \in 0 .. MaxFaults
        PROVE  FullInv'
    <2>1. CASE current[2] < MaxRetries
      <3>1. Goto("nak")
        BY <1>e, <2>1 DEF OnError
      <3> QED
        BY <1>e, <1>h, <3>1, GotoStepInv DEF Places
    <2>2. CASE ~ (current[2] < MaxRetries)
      <3>0. current[2] >= MaxRetries
        BY <2>2, <1>e, <1>0
      <3>1. CASE DlqEnabled
        <4>1. Goto("move")
          BY <1>e, <2>2, <3>1 DEF OnError
        <4> QED
          BY <1>e, <1>h, <3>0, <3>1, <4>1, GotoStepInv DEF Places
      <3>2. CASE ~DlqEnabled
        <4>1. Goto("lastack")
          BY <1>e, <2>2, <3>2 DEF OnError
        <4> QED
          BY <1>e, <1>h, <3>0, <3>2, <4>1, GotoStepInv DEF Places
      <3> QED
        BY <3>1, <3>2
    <2> QED
      BY <2>1, <2>2
  <1>f. ASSUME at # "idle", Finish, UNCHANGED <<life, handled, stops>>,
               faults' \in 0 .. MaxFaults
        PROVE  FullInv'
    BY <1>f, EndStepInv DEF Finish
  <1>1. CASE Take
    BY <1>1, TakeStepInv
  <1>2. CASE InProgress
    BY <1>2, <1>h, <1>u, GotoStepInv DEF InProgress, Places
  <1>3. CASE InProgressFails
    <2>1. faults' \in 0 .. MaxFaults /\ "progress" \in FaultKinds
      BY <1>3, <1>v DEF InProgressFails, Fault
    <2> QED
      BY <1>3, <2>1, EndStepInv DEF InProgressFails
  <1>4. CASE HandlerReturns
    <2>1. handled' \subseteq Msgs /\ c \in handled'
      BY <1>4, <1>0, <1>t DEF HandlerReturns, ClientTypeOK
    <2> QED
      BY <1>4, <2>1, <1>u, GotoStepInv DEF HandlerReturns, Places
  <1>5. CASE HandlerRaises
    BY <1>5, <1>e, <1>u DEF HandlerRaises
  <1>6. CASE AckFails
    BY <1>6, <1>e, <1>v DEF AckFails
  <1>7. CASE Move
    <2>1. dlq'[c] > 0
      <3>1. dlq \in [Msgs -> Nat] /\ c \in Msgs
        BY <1>7, <1>0 DEF Move, FullInv, ServerInv, JetStreamTypeOK
      <3> QED
        BY <1>7, <3>1 DEF Move, PubDeadLetter
    <2>2. current[2] >= MaxRetries
      BY <1>7 DEF Move, FullInv, TaskInv
    <2> QED
      BY <1>7, <2>1, <2>2, <1>h, <1>u, GotoStepInv DEF Move, Places
  <1>8. CASE MoveFails
    <2>1. current[2] >= MaxRetries /\ DlqEnabled
      BY <1>8 DEF MoveFails, FullInv, TaskInv
    <2>2. faults' \in 0 .. MaxFaults
      BY <1>8, <1>u, <1>v DEF MoveFails
    \* A process that is closing with a delivery in hand did not unsubscribe, or
    \* its drain failed.
    <2>3. MoveMayFail
      <3>1. CASE life = "closing"
        <4>1. current # Idle
          BY <1>8 DEF MoveFails, FullInv, TaskInv
        <4> QED
          BY <2>1, <3>1, <4>1 DEF FullInv, StopInv, Quiet, MoveMayFail
      <3>2. CASE life # "closing"
        BY <1>8, <2>1, <3>2 DEF MoveFails, Fault, MoveMayFail
      <3> QED
        BY <3>1, <3>2
    <2> QED
      BY <1>8, <2>1, <2>2, <2>3, <1>h, GotoStepInv DEF MoveFails, Places
  <1>9. CASE Ack
    BY <1>9, <1>f, <1>u DEF Ack
  <1>10. CASE LastAck
    BY <1>10, <1>f, <1>u DEF LastAck
  <1>11. CASE Nak
    BY <1>11, <1>f, <1>u DEF Nak
  <1>12. CASE AnswerLost
    BY <1>12, <1>f, <1>v DEF AnswerLost
  <1> QED
    BY <1>1, <1>2, <1>3, <1>4, <1>5, <1>6, <1>7, <1>8, <1>9, <1>10, <1>11, <1>12
    DEF ProcessStep, ProcessFails

LEMMA InitFull == Init => FullInv
  <1> SUFFICES ASSUME Init PROVE FullInv
    OBVIOUS
  <1>1. TypeOK
    BY InitTypeOK
  <1>2. ClientTypeOK /\ JetStreamTypeOK
    BY <1>1 DEF TypeOK, ClientTypeOK, Lives, Places
  <1> USE DEF Init, JetStreamInit
  <1>3. ServerInv
    <2>1. Published = {}
      BY DEF Published
    <2>2. \A m \in Msgs : delivered[m] = 0 /\ dlq[m] = 0
      OBVIOUS
    <2> QED
      BY <1>2, <2>1, <2>2 DEF ServerInv
  <1>4. QueueInv /\ TaskInv /\ StopInv
    BY DEF QueueInv, TaskInv, StopInv, Quiet
  <1>5. ActiveInv
    BY DEF ActiveInv, ActiveTracksTask
  <1> QED
    BY <1>2, <1>3, <1>4, <1>5 DEF FullInv

LEMMA NextFull == FullInv /\ [Next]_vars => FullInv'
  <1> SUFFICES ASSUME FullInv, [Next]_vars PROVE FullInv'
    OBVIOUS
  <1>1. ServerInv' /\ Grows
    BY ServerInvStep
  <1>2. ASSUME NEW m \in Msgs, Deliver(m) PROVE FullInv'
    BY <1>1, <1>2, DeliverStepInv
  <1>3. CASE ProcessStep \/ ProcessFails
    BY <1>1, <1>3, ProcessStepInv
  <1>4. CASE \/ Publish \/ Subscribe \/ StopStep \/ (\E m \in Msgs : Expire(m))
            \/ UNCHANGED vars
    BY <1>1, <1>4, OutsideStepInv
  <1> QED
    BY <1>2, <1>3, <1>4 DEF Next

LEMMA FullInvariance == Spec => []FullInv
  BY InitFull, NextFull, PTL DEF Spec

-----------------------------------------------------------------------------
(* The theorems of the invariant. *)

\* Why nothing is lost, and it is inductive: what _process_message knows of its
\* delivery stays true across its awaits, whatever the server does meanwhile.
THEOREM Invariance == Spec => []IInv
  BY FullInvariance, FullIsIInv, PTL

\* The variables of the consumer and of the server keep their types.
THEOREM TypeCorrect == Spec => []TypeOK
  <1>1. IInv => TypeOK
    BY DEF IInv
  <1> QED
    BY <1>1, Invariance, PTL

\* In every configuration: a message leaves the consumer's care only because a
\* handler returned for it or it was delivered max_retries times.
THEOREM TriedOften == Spec => []NotGivenUpEarly
  <1>1. FullInv => NotGivenUpEarly
    <2> SUFFICES ASSUME FullInv, NEW m \in Published, ~ (m > last), m \notin pending
                 PROVE  m \in handled \/ delivered[m] >= MaxRetries
      BY DEF NotGivenUpEarly
    <2>1. m \in Msgs /\ Settleable(m)
      BY DEF Published, FullInv, ServerInv
    <2> QED
      BY <2>1 DEF Settleable, FullInv, ServerInv
  <1> QED
    BY <1>1, FullInvariance, PTL

\* Guaranteed delivery.  What is excluded is the one way the code has to lose a
\* message: _move_to_dlq logs that its publish failed, or was refused because
\* disconnect came first, and the message is acknowledged all the same.
THEOREM NothingLost ==
  ASSUME ~MoveMayFail
  PROVE  Spec => []NoLoss
  <1>1. FullInv => NoLoss
    BY DEF FullInv, ServerInv, Settleable, NoLoss
  <1> QED
    BY <1>1, FullInvariance, PTL

\* The message in _process_message is among those unsubscribe waits for, in every
\* configuration.
TaskIsActive == current # Idle => current[1] \in active

THEOREM ActiveCovers == Spec => []TaskIsActive
  <1>1. FullInv => TaskIsActive
    BY DEF FullInv, ActiveInv, TaskIsActive
  <1> QED
    BY <1>1, FullInvariance, PTL

\* Nothing else is, unless in_progress can raise: it is called before the try
\* statement whose finally clause removes the message.
THEOREM ActiveTracked ==
  ASSUME "progress" \notin FaultKinds
  PROVE  Spec => []ActiveTracksTask
  <1>1. FullInv => ActiveTracksTask
    BY DEF FullInv, ActiveInv
  <1> QED
    BY <1>1, FullInvariance, PTL

-----------------------------------------------------------------------------
(* The adapter and the server implement AtLeastOnce. *)
Owed == {m \in Published : m > last} \cup pending
Dead == {m \in Msgs : dlq[m] > 0}

LEMMA InitRefines == Init => Promise!Init
  <1> SUFFICES ASSUME Init PROVE Promise!Init
    OBVIOUS
  <1> USE DEF Init, JetStreamInit
  <1>1. Published = {}
    BY DEF Published
  <1>2. {m \in Msgs : dlq[m] > 0} = {}
    OBVIOUS
  <1> QED
    BY <1>1, <1>2 DEF Promise!Init

LEMMA StepRefines ==
  ASSUME ~MoveMayFail, ServerInv, ServerStep, ServerInv'
  PROVE  Promise!Next \/ UNCHANGED Promise!vars
  <1> USE MsgsNat DEF consumerVars, pendingVars, Promise!vars
  <1>n. /\ published \in Nat /\ start \in Nat /\ last \in Nat /\ start <= last
        /\ delivered \in [Msgs -> 0 .. MaxDeliveries] /\ dlq \in [Msgs -> Nat]
        /\ pending \subseteq Msgs /\ last <= published
    BY DEF ServerInv, JetStreamTypeOK
  <1>1. CASE UNCHANGED <<jsVars, handled>>
    BY <1>1 DEF jsVars, Published
  <1>2. ASSUME PubMessage, handled' = handled
        PROVE  Promise!Publish \/ UNCHANGED Promise!vars
    <2> DEFINE m == published + 1
    <2> USE <1>n, <1>2 DEF PubMessage
    <2>1. UNCHANGED <<delivered, handled, Dead>>
      BY DEF Dead
    <2>2. CASE consumer
      <3>1. m \in Msgs \ Published /\ m > last
        BY DEF Published, Msgs
      <3>2. \A k \in Msgs : k <= published + 1 <=> (k <= published \/ k = published + 1)
        OBVIOUS
      <3>3. Published' = Published \cup {m}
        <4>1. m \in Msgs /\ start < m /\ consumer' = consumer /\ start' = start
          BY <3>1
        <4>2. \A k \in Msgs : k <= published' <=> (k <= published \/ k = m)
          BY <3>2
        <4>3. \A k : k \in Published' <=> (k \in Published \/ k = m)
          <5> HIDE <1>n, <1>2 DEF PubMessage, m
          <5>1. m <= published'
            BY <4>1, <4>2
          <5> QED
            BY <2>2, <4>1, <4>2, <5>1 DEF Published
        <4> QED
          BY <4>3
      <3>4. Owed' = (Owed \cup {m}) \ {}
        <4>1. last' = last /\ pending' = pending
          OBVIOUS
        <4>2. m > last
          BY <3>1
        <4> HIDE <1>n, <1>2 DEF PubMessage, m
        <4>3. \A k : k \in Owed' <=> (k \in Owed \/ k = m)
          BY <3>3, <4>1, <4>2 DEF Owed
        <4> QED
          BY <4>3
      <3>5. {} \in Promise!Forget(Owed \cup {m})
        BY DEF Promise!Forget
      <3> QED
        BY <2>1, <3>1, <3>3, <3>4, <3>5 DEF Promise!Publish, Owed, Dead
    <2>3. CASE ~consumer
      BY <2>1, <2>3 DEF Published, Dead
    <2> QED
      BY <2>2, <2>3
  <1>3. ASSUME AddConsumer, handled' = handled PROVE UNCHANGED Promise!vars
    <2>1. CASE consumer
      BY <1>3, <2>1 DEF AddConsumer, Published
    <2>2. CASE ~consumer
      <3>1. Published = {}
        BY <2>2 DEF Published
      <3>2. start' = published /\ published' = published
        BY <1>3, <2>2 DEF AddConsumer
      <3>3. \A k \in Msgs : ~ (start' < k /\ k <= published')
        BY <3>2, <1>n
      <3>4. Published' = {}
        BY <3>3 DEF Published
      <3> QED
        BY <1>3, <3>1, <3>4 DEF AddConsumer
    <2> QED
      BY <2>1, <2>2
  <1>4. ASSUME NEW m \in Msgs, FirstDelivery(m) \/ Redelivery(m), handled' = handled
        PROVE  Promise!Attempt
    <2>1. delivered' = [k \in Msgs |-> IF k \in {m} THEN delivered[k] + 1 ELSE delivered[k]]
      <3>1. CASE FirstDelivery(m)
        <4>1. delivered[m] = 0
          BY <3>1, <1>n DEF FirstDelivery, ServerInv
        <4>2. delivered' = [delivered EXCEPT ![m] = 1]
          BY <3>1 DEF FirstDelivery
        <4>3. delivered[m] + 1 = 1
          BY <4>1
        <4> QED
          BY <4>2, <4>3, <1>n
      <3>2. CASE Redelivery(m)
        BY <3>2, <1>n DEF Redelivery
      <3> QED
        BY <1>4, <3>1, <3>2
    <2>2. UNCHANGED <<Published, handled, Dead>>
      BY <1>4 DEF FirstDelivery, Redelivery, Published, Dead
    <2>3. m \in Owed /\ Owed' = Owed
      <3>1. CASE FirstDelivery(m)
        <4>1. /\ m \in Published /\ m > last
              /\ \A k \in Msgs : k > last <=> (k > last' \/ k = m)
          BY <3>1, <1>n DEF FirstDelivery, Published
        <4>2. \A k \in Published : k \in Msgs
          BY DEF Published
        <4>3. pending' = pending \cup {m} /\ Published' = Published
          BY <3>1, <2>2 DEF FirstDelivery
        <4>4. \A k : k \in Owed' <=> k \in Owed
          BY <4>1, <4>2, <4>3 DEF Owed
        <4>5. Owed' = Owed
          BY <4>4
        <4> QED
          BY <4>1, <4>5 DEF Owed
      <3>2. CASE Redelivery(m)
        BY <3>2, <2>2 DEF Redelivery, Owed, ServerInv, JetStreamTypeOK
      <3> QED
        BY <1>4, <3>1, <3>2
    <2>4. {} \in Promise!Forget(Owed) /\ Owed' = Owed \ {} /\ {m} \in SUBSET Owed
      BY <2>3 DEF Promise!Forget
    <2> QED
      BY <2>1, <2>2, <2>4 DEF Promise!Attempt, Owed, Dead
  <1>5. ASSUME NEW m \in Msgs, Settleable(m), AckMsg(m), handled' = handled
        PROVE  Promise!Settle \/ UNCHANGED Promise!vars
    <2>1. UNCHANGED <<Published, delivered, handled, Dead>>
      BY <1>5 DEF AckMsg, Published, Dead
    <2>2. m \in handled \cup Dead \cup (IF DlqEnabled THEN {} ELSE Msgs)
      BY <1>5 DEF Settleable, Dead
    <2>3. CASE m > last
      <3>1. pending' = pending
        BY <1>5, <2>3, <1>n DEF AckMsg, ServerInv, Cared
      <3> QED
        BY <1>5, <2>1, <3>1 DEF AckMsg, Dead
    <2>4. CASE ~ (m > last)
      <3>1. Owed' = Owed \ {m}
        BY <1>5, <2>1, <2>4 DEF AckMsg, Owed
      <3> QED
        BY <2>1, <2>2, <3>1 DEF Promise!Settle, Owed, Dead
    <2> QED
      BY <2>3, <2>4
  <1>6. ASSUME NEW m \in Msgs, NakMsg(m) \/ WorkInProgress(m) \/ AckWaitPasses(m),
               handled' = handled
        PROVE  UNCHANGED Promise!vars
    BY <1>6 DEF NakMsg, WorkInProgress, AckWaitPasses, Published
  \* A message in the consumer's care was published while the consumer existed.
  <1>c. \A m \in Msgs : Cared(m) => m \in Published
    <2> SUFFICES ASSUME NEW m \in Msgs, Cared(m) PROVE m \in Published
      OBVIOUS
    <2>1. consumer
      BY <1>n DEF ServerInv, Cared
    <2> QED
      BY <2>1, <1>n DEF Cared, Published
  <1>7. ASSUME NEW m \in Msgs, Cared(m), delivered[m] >= MaxRetries, PubDeadLetter(m),
               handled' = handled
        PROVE  Promise!DeadLetter
    <2>1. m \in Published
      BY <1>7, <1>c
    <2>2. Dead' = Dead \cup {m}
      BY <1>7, <1>n DEF PubDeadLetter, Dead
    <2>3. UNCHANGED <<Published, Owed, delivered, handled>>
      BY <1>7 DEF PubDeadLetter, Published, Owed
    <2> QED
      BY <1>7, <2>1, <2>2, <2>3 DEF Promise!DeadLetter, Owed, Dead
  <1>8. ASSUME UNCHANGED jsVars, NEW m \in Msgs, Cared(m), delivered[m] > 0,
               handled' = handled \cup {m}
        PROVE  Promise!Handle
    <2>1. m \in Published
      BY <1>8, <1>c
    <2> QED
      BY <1>8, <2>1 DEF Promise!Handle, jsVars, Published
  <1> QED
    BY <1>1, <1>2, <1>3, <1>4, <1>5, <1>6, <1>7, <1>8 DEF ServerStep, Promise!Next

\* Each execution of the adapter is one of the abstract channel, seen through the
\* refinement mapping: messages are owed until handled, dead-lettered or, without a
\* dead letter queue, given up.
THEOREM Refinement ==
  ASSUME ~MoveMayFail
  PROVE  Spec => KeepsPromise
  <1>1. Init => Promise!Init
    BY InitRefines
  <1>2. FullInv /\ [Next]_vars => [Promise!Next]_Promise!vars
    BY EveryServerStep, ServerInvStep, StepRefines DEF FullInv
  <1> QED
    BY <1>1, <1>2, FullInvariance, PTL DEF Spec, KeepsPromise, Promise!Spec

-----------------------------------------------------------------------------
(* How often a message is dead-lettered, when handlers are prompt: it is then *)
(* held once at most, and the server does not want to deliver it again.       *)
HandInv ==
    /\ \A i \in 1 .. Len(queue) :
          /\ queue[i][1] \in pending /\ queue[i][1] \notin due
          /\ current # Idle => queue[i][1] # current[1]
          /\ \A j \in 1 .. Len(queue) : queue[i][1] = queue[j][1] => i = j
    /\ current # Idle => current[1] \in pending /\ current[1] \notin due

LEMMA HandKept ==
  ASSUME HandInv, queue' = queue, current' = current \/ current' = Idle,
         \A i \in 1 .. Len(queue) :
            queue[i][1] \in pending /\ queue[i][1] \notin due
            /\ (current # Idle => queue[i][1] # current[1])
            => queue[i][1] \in pending' /\ queue[i][1] \notin due',
         current' # Idle => current[1] \in pending' /\ current[1] \notin due'
  PROVE  HandInv'
  BY DEF HandInv

LEMMA InHandFacts ==
  ASSUME ClientTypeOK
  PROVE  /\ \A i \in 1 .. Len(queue) : queue[i][1] \in InHand
         /\ current # Idle => current[1] \in InHand
  <1>1. ASSUME NEW i \in 1 .. Len(queue) PROVE queue[i] \in Range(queue)
    BY DEF Range, ClientTypeOK
  <1> QED
    BY <1>1 DEF InHand

LEMMA HandDeliver ==
  ASSUME FullInv, HandInv, NEW m \in Msgs, Deliver(m)
  PROVE  HandInv'
  <1>t. ClientTypeOK
    BY DEF FullInv
  <1>n. last \in Nat /\ m \in Nat /\ pending \subseteq Msgs /\ due \subseteq pending
    BY MsgsNat DEF FullInv, ServerInv, JetStreamTypeOK
  <1>1. \A i \in 1 .. Len(queue) : queue[i][1] \in Msgs /\ queue[i][1] <= last
    BY <1>t, QueueElement DEF ClientTypeOK, FullInv, QueueInv, Known, Cared
  <1>2. current # Idle => current[1] \in Msgs /\ current[1] <= last
    BY CurrentFacts DEF Cared
  \* The server delivers what is not in hand.
  <1>3. /\ \A i \in 1 .. Len(queue) : queue[i][1] # m
        /\ current # Idle => current[1] # m
    <2>1. CASE FirstDelivery(m)
      BY <2>1, <1>1, <1>2, <1>n DEF FirstDelivery
    <2>2. CASE Redelivery(m)
      BY <2>2 DEF Redelivery, HandInv
    <2> QED
      BY <2>1, <2>2 DEF Deliver
  <1>4. /\ \A k \in pending : k \in pending'
        /\ \A k \in due' : k \in due
        /\ m \in pending' /\ m \notin due'
    <2>1. CASE FirstDelivery(m)
      <3>1. m \notin pending
        BY <2>1, <1>n DEF FirstDelivery, FullInv, ServerInv, Cared
      <3> QED
        BY <2>1, <3>1, <1>n DEF FirstDelivery
    <2>2. CASE Redelivery(m)
      BY <2>2, <1>n DEF Redelivery
    <2> QED
      BY <2>1, <2>2 DEF Deliver
  <1>5. current' = current
    BY DEF Deliver
  <1>6. ASSUME queue' = queue PROVE HandInv'
    BY <1>4, <1>5, <1>6 DEF HandInv
  <1>7. ASSUME NEW d, d = <<m, delivered'[m]>>, d \in Deliveries, queue' = Append(queue, d)
        PROVE  HandInv'
    <2>1. /\ Len(queue') = Len(queue) + 1 /\ Len(queue) \in Nat
          /\ \A i \in 1 .. Len(queue) : queue'[i] = queue[i]
          /\ queue'[Len(queue) + 1] = d /\ d[1] = m
      BY <1>t, <1>7, QueueAppend DEF ClientTypeOK
    <2>2. \A i \in 1 .. Len(queue') : i \in 1 .. Len(queue) \/ i = Len(queue) + 1
      BY <2>1
    <2> SUFFICES ASSUME NEW i \in 1 .. Len(queue')
                 PROVE  /\ queue'[i][1] \in pending' /\ queue'[i][1] \notin due'
                        /\ current # Idle => queue'[i][1] # current[1]
                        /\ \A j \in 1 .. Len(queue') : queue'[i][1] = queue'[j][1] => i = j
      BY <1>4, <1>5 DEF HandInv
    <2>3. CASE i \in 1 .. Len(queue)
      <3>1. \A j \in 1 .. Len(queue') : queue'[i][1] = queue'[j][1] => i = j
        <4> TAKE j \in 1 .. Len(queue')
        <4>1. CASE j \in 1 .. Len(queue)
          BY <2>1, <2>3, <4>1 DEF HandInv
        <4>2. CASE j = Len(queue) + 1
          BY <2>1, <2>3, <4>2, <1>3
        <4> QED
          BY <2>2, <4>1, <4>2
      <3> QED
        BY <2>1, <2>3, <3>1, <1>4 DEF HandInv
    <2>4. CASE i = Len(queue) + 1
      <3>1. \A j \in 1 .. Len(queue') : queue'[i][1] = queue'[j][1] => i = j
        BY <2>1, <2>2, <2>4, <1>3
      <3> QED
        BY <2>1, <2>4, <3>1, <1>3, <1>4
    <2> QED
      BY <2>2, <2>3, <2>4
  <1>8. <<m, delivered'[m]>> \in Deliveries
    <2>1. delivered'[m] \in 1 .. MaxDeliveries
      <3> delivered \in [Msgs -> 0 .. MaxDeliveries]
        BY DEF FullInv, ServerInv, JetStreamTypeOK
      <3> QED
        BY DEF Deliver, FirstDelivery, Redelivery
    <2> QED
      BY <2>1 DEF Deliveries
  <1> QED
    BY <1>6, <1>7, <1>8 DEF Deliver

LEMMA HandTake ==
  ASSUME FullInv, HandInv, Take
  PROVE  HandInv'
  <1> USE DEF Take
  <1>t. ClientTypeOK
    BY DEF FullInv
  <1>1. /\ current' = queue[1] /\ 1 \in 1 .. Len(queue)
        /\ Len(queue') = Len(queue) - 1 /\ Len(queue) \in Nat
        /\ \A i \in 1 .. Len(queue') : queue'[i] = queue[i + 1] /\ i + 1 \in 1 .. Len(queue)
    BY <1>t, QueueTail DEF ClientTypeOK
  <1>2. UNCHANGED <<pending, due>>
    BY DEF jsVars
  <1>3. ASSUME NEW i \in 1 .. Len(queue')
        PROVE  /\ queue'[i][1] \in pending' /\ queue'[i][1] \notin due'
               /\ queue'[i][1] # current'[1]
               /\ \A j \in 1 .. Len(queue') : queue'[i][1] = queue'[j][1] => i = j
    <2>1. queue'[i] = queue[i + 1] /\ i + 1 \in 1 .. Len(queue) /\ i + 1 # 1 /\ i \in Int
      BY <1>1
    <2>2. \A j \in 1 .. Len(queue') : queue'[i][1] = queue'[j][1] => i = j
      <3> TAKE j \in 1 .. Len(queue')
      <3>1. queue'[j] = queue[j + 1] /\ j + 1 \in 1 .. Len(queue) /\ j \in Int
        BY <1>1
      <3>2. queue'[i][1] = queue'[j][1] => i + 1 = j + 1
        BY <2>1, <3>1 DEF HandInv
      <3> QED
        BY <2>1, <3>1, <3>2
    <2> QED
      BY <1>1, <1>2, <2>1, <2>2 DEF HandInv
  <1>4. current'[1] \in pending' /\ current'[1] \notin due'
    BY <1>1, <1>2 DEF HandInv
  <1> QED
    BY <1>3, <1>4 DEF HandInv

LEMMA HandStep ==
  ASSUME PromptHandlers, FullInv, HandInv, [Next]_vars
  PROVE  HandInv'
  <1>t. ClientTypeOK
    BY DEF FullInv
  <1>1. ASSUME UNCHANGED <<queue, current>>, pending' = pending, \A k \in due' : k \in due
        PROVE  HandInv'
    BY <1>1, HandKept DEF HandInv
  <1>2. ASSUME Finish, \A k \in pending : k # current[1] => k \in pending',
               \A k \in due' : k \in due \/ k = current[1], at # "idle"
        PROVE  HandInv'
    <2>1. current # Idle
      BY <1>2 DEF FullInv, TaskInv
    <2> QED
      BY <1>2, <2>1, HandKept DEF Finish
  <1>3. ASSUME ProcessEnds PROVE HandInv'
    <2>1. Len(queue') = 0 /\ current' = Idle
      BY <1>3 DEF ProcessEnds
    <2> QED
      BY <2>1 DEF HandInv
  <1>4. CASE Publish \/ Subscribe
    BY <1>4, <1>1 DEF Publish, PubMessage, Subscribe, AddConsumer, taskVars, pendingVars
  <1>5. ASSUME NEW m \in Msgs, Expire(m) PROVE HandInv'
    <2>1. m \notin InHand
      BY <1>5 DEF Expire
    <2>2. UNCHANGED <<queue, current, pending>> /\ due' = due \cup {m}
      BY <1>5 DEF Expire, AckWaitPasses, taskVars
    <2>3. /\ \A i \in 1 .. Len(queue) : queue[i][1] # m
          /\ current # Idle => current[1] # m
      BY <1>t, <2>1, InHandFacts
    <2> QED
      BY <2>2, <2>3 DEF HandInv
  <1>6. CASE InProgress \/ HandlerReturns \/ HandlerRaises \/ AckFails
    BY <1>6, <1>1 DEF InProgress, WorkInProgress, HandlerReturns, HandlerRaises, AckFails,
                      OnError, Goto, jsVars
  <1>7. CASE Move \/ MoveFails
    BY <1>7, <1>1 DEF Move, MoveFails, PubDeadLetter, Goto, jsVars, pendingVars
  <1>8. CASE Ack \/ LastAck
    BY <1>8, <1>2 DEF Ack, LastAck, AckMsg
  <1>9. CASE Nak
    BY <1>9, <1>2 DEF Nak, NakMsg
  <1>10. CASE AnswerLost
    BY <1>10, <1>2 DEF AnswerLost, jsVars
  <1>11. CASE InProgressFails
    <2>1. UNCHANGED <<queue, pending, due>> /\ current' = Idle
      BY <1>11 DEF InProgressFails, jsVars
    <2> QED
      BY <2>1 DEF HandInv
  <1>12. CASE \/ UnsubscribeBegin \/ UnsubscribeDrain \/ UnsubscribeEnd
              \/ UnsubscribeFails \/ DisconnectBegin
    BY <1>12, <1>1 DEF UnsubscribeBegin, UnsubscribeDrain, UnsubscribeEnd, UnsubscribeFails,
                       DisconnectBegin, jsVars, taskVars
  <1>13. CASE DisconnectEnd \/ Crash
    BY <1>13, <1>3 DEF DisconnectEnd, Crash
  <1>14. CASE UNCHANGED vars
    BY <1>14, <1>1 DEF vars, jsVars, taskVars
  <1> QED
    BY <1>4, <1>5, <1>6, <1>7, <1>8, <1>9, <1>10, <1>11, <1>12, <1>13, <1>14,
       HandDeliver, HandTake
    DEF Next, ProcessStep, ProcessFails, StopStep

\* A pending message that was not just moved has no more entries than there were
\* answers lost and processes ended; a closing process moves nothing any more.
Unanswered(m) == m \in pending /\ ~ (at = "lastack" /\ current[1] = m)

\* The fault of an undrained process made no move repeat yet: what is in hand
\* when its disconnect begins may still use it.
Slips == IF life = "undrained" THEN faults - 1 + stops ELSE faults + stops

MovedInv ==
    /\ Slips \in Nat
    /\ \A m \in Msgs : dlq[m] <= 1 + Slips
    /\ \A m \in Msgs : Unanswered(m) => dlq[m] <= Slips
    /\ life = "closing" => \A m \in pending : dlq[m] <= Slips

LEMMA CountsNat ==
  ASSUME FullInv
  PROVE  /\ faults \in Nat /\ stops \in Nat /\ dlq \in [Msgs -> Nat]
         /\ \A m \in Msgs : dlq[m] \in Nat
         /\ pending \subseteq Msgs
  BY DEF FullInv, ClientTypeOK, ServerInv, JetStreamTypeOK

LEMMA MovedKept ==
  ASSUME FullInv, FullInv', MovedInv, dlq' = dlq, Slips' \in Nat, Slips <= Slips',
         \A m \in pending' : m \in pending \/ dlq[m] = 0,
         life' = "closing" => life = "closing" \/ Slips + 1 <= Slips' \/ at # "lastack",
         at = "lastack" => \/ at' = "lastack" /\ current' = current
                           \/ current[1] \notin pending'
                           \/ Slips + 1 <= Slips'
                           \/ life = "closing"
  PROVE  MovedInv'
  <1>1. /\ Slips \in Nat /\ Slips' \in Nat /\ \A m \in Msgs : dlq[m] \in Nat
        /\ pending \subseteq Msgs
    BY CountsNat DEF MovedInv
  <1>2. pending' \subseteq Msgs
    BY DEF FullInv, ServerInv, JetStreamTypeOK
  <1>a. ASSUME NEW n \in Nat
        PROVE  /\ n <= Slips => n <= Slips'
               /\ n <= 1 + Slips => n <= 1 + Slips'
               /\ n <= 1 + Slips /\ Slips + 1 <= Slips' => n <= Slips'
               /\ n = 0 => n <= Slips'
    <2> DEFINE s == Slips
    <2> DEFINE t == Slips'
    <2>1. s \in Nat /\ t \in Nat /\ s <= t
      BY <1>1
    <2> HIDE DEF s, t
    <2>2. /\ n <= s => n <= t
          /\ n <= 1 + s => n <= 1 + t
          /\ n <= 1 + s /\ s + 1 <= t => n <= t
          /\ n = 0 => n <= t
      BY <2>1
    <2> QED
      BY <2>2 DEF s, t
  <1>3. ASSUME NEW m \in Msgs PROVE dlq'[m] <= 1 + Slips'
    <2>1. dlq[m] <= 1 + Slips
      BY DEF MovedInv
    <2> QED
      BY <2>1, <1>1, <1>a
  <1>4. ASSUME NEW m \in Msgs, Unanswered(m)' PROVE dlq'[m] <= Slips'
    <2>0. m \in pending' /\ ~ (at' = "lastack" /\ current'[1] = m)
      BY <1>4 DEF Unanswered
    <2>1. CASE dlq[m] = 0
      BY <1>1, <1>a, <2>1
    <2>2. CASE dlq[m] # 0
      <3>1. m \in pending
        BY <2>0, <2>2
      <3>2. CASE ~ (at = "lastack" /\ current[1] = m)
        <4>1. dlq[m] <= Slips
          BY <3>1, <3>2 DEF MovedInv, Unanswered
        <4> QED
          BY <4>1, <1>1, <1>a
      <3>3. CASE at = "lastack" /\ current[1] = m
        <4>1. Slips + 1 <= Slips' \/ life = "closing"
          BY <2>0, <3>3
        <4>2. dlq[m] <= 1 + Slips
          BY DEF MovedInv
        <4>3. life = "closing" => dlq[m] <= Slips
          BY <3>1 DEF MovedInv
        <4> QED
          BY <4>1, <4>2, <4>3, <1>1, <1>a
      <3> QED
        BY <3>2, <3>3
    <2> QED
      BY <2>1, <2>2
  <1>5. ASSUME life' = "closing", NEW m \in pending' PROVE dlq'[m] <= Slips'
    <2>1. m \in Msgs
      BY <1>2, <1>5
    <2>2. CASE dlq[m] = 0
      BY <1>1, <1>a, <2>1, <2>2
    <2>3. CASE dlq[m] # 0
      <3>1. m \in pending /\ dlq[m] <= 1 + Slips
        BY <1>5, <2>1, <2>3 DEF MovedInv
      <3>2. Slips + 1 <= Slips' \/ dlq[m] <= Slips
        BY <1>5, <2>1, <3>1 DEF MovedInv, Unanswered
      <3> QED
        BY <1>1, <1>a, <2>1, <3>1, <3>2
    <2> QED
      BY <2>2, <2>3
  <1> QED
    BY <1>1, <1>3, <1>4, <1>5 DEF MovedInv

LEMMA MoveCounts ==
  ASSUME FullInv, FullInv', HandInv, MovedInv, Move \/ MoveFails
  PROVE  MovedInv'
  <1> DEFINE c == current[1]
  <1>1. /\ faults \in Nat /\ stops \in Nat /\ dlq \in [Msgs -> Nat]
        /\ \A m \in Msgs : dlq[m] \in Nat
    BY CountsNat
  <1>2. /\ at = "move" /\ at' = "lastack" /\ current' = current
        /\ pending' = pending /\ life' = life /\ stops' = stops
    BY DEF Move, MoveFails, Goto, PubDeadLetter, pendingVars, jsVars
  <1>3. Slips' \in Nat /\ (Slips' = Slips \/ Slips' = Slips + 1)
    <2>1. faults' = faults \/ faults' = faults + 1
      BY DEF Move, MoveFails, Fault
    <2>2. Slips \in Nat
      BY DEF MovedInv
    <2> QED
      BY <1>1, <1>2, <2>1, <2>2 DEF Slips
  <1>s. Slips \in Nat
    BY DEF MovedInv
  <1>4. c \in Msgs /\ c \in pending
    BY <1>2, CurrentFacts DEF FullInv, TaskInv, HandInv
  <1>5. CASE dlq' = dlq
    BY <1>s, <1>2, <1>3, <1>5, MovedKept
  <1>6. CASE life # "closing" /\ PubDeadLetter(c)
    <2>1. dlq'[c] = dlq[c] + 1 /\ \A m \in Msgs : m # c => dlq'[m] = dlq[m]
      BY <1>1, <1>4, <1>6 DEF PubDeadLetter
    <2>2. dlq[c] <= Slips
      BY <1>2, <1>4 DEF MovedInv, Unanswered
    <2>3. ASSUME NEW m \in Msgs
          PROVE  dlq'[m] <= 1 + Slips' /\ (Unanswered(m)' => dlq'[m] <= Slips')
      <3>1. CASE m = c
        <4>1. ~Unanswered(m)'
          BY <1>2, <3>1 DEF Unanswered
        <4> QED
          BY <1>1, <1>s, <1>3, <1>4, <2>1, <2>2, <3>1, <4>1
      <3>2. CASE m # c
        <4>1. dlq[m] <= 1 + Slips
          BY DEF MovedInv
        <4>2. Unanswered(m)' => dlq[m] <= Slips
          BY <1>2 DEF MovedInv, Unanswered
        <4>3. dlq'[m] = dlq[m] /\ dlq[m] \in Nat
          BY <1>1, <2>1, <3>2
        <4> HIDE DEF c
        <4> QED
          BY <1>s, <1>3, <4>1, <4>2, <4>3
      <3> QED
        BY <3>1, <3>2
    <2> QED
      BY <1>2, <1>3, <1>6, <2>3 DEF MovedInv
  <1> QED
    BY <1>5, <1>6 DEF Move, MoveFails, jsVars

LEMMA MovedStep ==
  ASSUME FullInv, FullInv', HandInv, MovedInv, [Next]_vars
  PROVE  MovedInv'
  <1>n. /\ faults \in Nat /\ stops \in Nat /\ \A m \in Msgs : dlq[m] \in Nat
        /\ pending \subseteq Msgs /\ Slips \in Nat
    BY CountsNat DEF MovedInv
  <1>i. current = Idle <=> at = "idle"
    BY DEF FullInv, TaskInv
  \* How the count of what went wrong goes on.
  <1>a. ASSUME life' = life, stops' = stops, faults' = faults \/ faults' = faults + 1
        PROVE  Slips' \in Nat /\ Slips <= Slips'
               /\ (faults' = faults + 1 => Slips + 1 <= Slips')
    BY <1>a, <1>n DEF Slips
  <1>b. ASSUME life' # "undrained", faults' = faults, stops' = stops + 1
        PROVE  Slips' \in Nat /\ Slips + 1 <= Slips' /\ Slips <= Slips'
    BY <1>b, <1>n DEF Slips
  <1>c. ASSUME life' # "undrained", life # "undrained", faults' = faults, stops' = stops
        PROVE  Slips' \in Nat /\ Slips <= Slips'
    BY <1>c, <1>n DEF Slips
  <1>1. CASE Publish \/ (\E m \in Msgs : Expire(m)) \/ UNCHANGED vars
    <2>1. UNCHANGED <<dlq, pending, faults, stops, life, at, current>>
      BY <1>1 DEF Publish, PubMessage, Expire, AckWaitPasses, taskVars, pendingVars, vars,
                  jsVars
    <2> QED
      BY <1>n, <1>a, <2>1, MovedKept
  <1>2. CASE Subscribe
    <2>1. /\ UNCHANGED <<dlq, pending, faults, stops, at, current>>
          /\ life = "down" /\ life' = "up"
      BY <1>2 DEF Subscribe, AddConsumer, taskVars, pendingVars
    <2> QED
      BY <1>n, <1>c, <2>1, MovedKept
  <1>3. ASSUME NEW m \in Msgs, Deliver(m) PROVE MovedInv'
    <2>1. UNCHANGED <<dlq, stops, life, at, current>>
      BY <1>3 DEF Deliver, FirstDelivery, Redelivery
    <2>2. faults' = faults \/ faults' = faults + 1
      BY <1>3 DEF Deliver, Fault
    <2>3. \A k \in pending' : k \in pending \/ dlq[k] = 0
      <3>1. CASE FirstDelivery(m)
        <4>1. m \in Nat /\ last \in Nat
          BY MsgsNat DEF FullInv, ServerInv, JetStreamTypeOK
        <4>2. dlq[m] = 0
          BY <3>1, <4>1 DEF FirstDelivery, FullInv, ServerInv
        <4> QED
          BY <3>1, <4>2 DEF FirstDelivery
      <3>2. CASE Redelivery(m)
        BY <3>2 DEF Redelivery
      <3> QED
        BY <1>3, <3>1, <3>2 DEF Deliver
    <2> QED
      BY <1>n, <1>a, <2>1, <2>2, <2>3, MovedKept
  <1>4. CASE \/ Take \/ InProgress \/ HandlerReturns \/ HandlerRaises \/ Ack \/ Nak
             \/ InProgressFails \/ AckFails
    <2>1. dlq' = dlq /\ UNCHANGED <<life, stops>> /\ pending' \subseteq pending
      BY <1>4 DEF Take, InProgress, WorkInProgress, HandlerReturns, HandlerRaises, Ack, AckMsg,
                  Nak, NakMsg, InProgressFails, AckFails, jsVars
    <2>2. faults' = faults \/ faults' = faults + 1
      BY <1>4 DEF Take, InProgress, HandlerReturns, HandlerRaises, Ack, Nak,
                  InProgressFails, AckFails, Fault
    <2>3. at # "lastack"
      BY <1>4, <1>i DEF Take, InProgress, HandlerReturns, HandlerRaises, Ack, Nak,
                        InProgressFails, AckFails
    <2> QED
      BY <1>n, <1>a, <2>1, <2>2, <2>3, MovedKept
  <1>5. CASE Move \/ MoveFails
    BY <1>5, MoveCounts
  <1>6. CASE LastAck
    <2>1. UNCHANGED <<dlq, life, faults, stops>> /\ pending' = pending \ {current[1]}
      BY <1>6 DEF LastAck, AckMsg
    <2> QED
      BY <1>n, <1>a, <2>1, MovedKept
  <1>7. CASE AnswerLost
    <2>1. UNCHANGED <<dlq, life, pending, stops>> /\ faults' = faults + 1
      BY <1>7 DEF AnswerLost, Fault, jsVars
    <2> QED
      BY <1>n, <1>a, <2>1, MovedKept
  <1>8. CASE UnsubscribeBegin
    <2>1. /\ UNCHANGED <<dlq, pending, faults, at, current>> /\ life' = "waiting"
          /\ stops' = stops + 1
      BY <1>8 DEF UnsubscribeBegin, Stop, jsVars, taskVars
    <2> QED
      BY <1>n, <1>b, <2>1, MovedKept
  <1>9. CASE UnsubscribeDrain \/ UnsubscribeEnd
    <2>1. /\ UNCHANGED <<dlq, pending, faults, stops, at, current>>
          /\ life \in {"waiting", "draining"} /\ life' \in {"draining", "unsubscribed"}
      BY <1>9 DEF UnsubscribeDrain, UnsubscribeEnd, jsVars, taskVars
    <2> QED
      BY <1>n, <1>c, <2>1, MovedKept
  <1>10. CASE UnsubscribeFails
    <2>1. /\ UNCHANGED <<dlq, pending, stops, at, current>> /\ faults' = faults + 1
          /\ life = "draining" /\ life' = "undrained"
      BY <1>10 DEF UnsubscribeFails, Fault, jsVars, taskVars
    <2>2. Slips' \in Nat /\ Slips <= Slips'
      BY <1>n, <2>1 DEF Slips
    <2> QED
      BY <2>1, <2>2, MovedKept
  <1>11. CASE DisconnectBegin
    <2>1. UNCHANGED <<dlq, pending, faults, at, current>> /\ life' = "closing"
      BY <1>11 DEF DisconnectBegin, jsVars, taskVars
    <2>2. CASE life = "unsubscribed"
      <3>1. stops' = stops /\ at # "lastack"
        BY <1>11, <1>i, <2>2 DEF DisconnectBegin, FullInv, StopInv, Quiet
      <3> QED
        BY <1>n, <1>c, <2>1, <2>2, <3>1, MovedKept
    <2>3. CASE life = "undrained"
      <3>1. stops' = stops
        BY <1>11, <2>3 DEF DisconnectBegin
      <3>2. Slips' \in Nat /\ Slips + 1 <= Slips' /\ Slips <= Slips'
        BY <1>n, <2>1, <2>3, <3>1 DEF Slips
      <3> QED
        BY <2>1, <3>2, MovedKept
    <2>4. CASE life = "up"
      <3>1. stops' = stops + 1
        BY <1>11, <2>4 DEF DisconnectBegin, Stop
      <3> QED
        BY <1>n, <1>b, <2>1, <3>1, MovedKept
    <2> QED
      BY <1>11, <2>2, <2>3, <2>4 DEF DisconnectBegin
  <1>12. CASE DisconnectEnd
    <2>1. UNCHANGED <<dlq, pending, faults, stops>> /\ life = "closing" /\ life' = "down"
      BY <1>12 DEF DisconnectEnd, ProcessEnds, jsVars
    <2> QED
      BY <1>n, <1>c, <2>1, MovedKept
  <1>13. CASE Crash
    <2>1. UNCHANGED <<dlq, pending, faults>> /\ stops' = stops + 1 /\ life' = "down"
      BY <1>13 DEF Crash, Stop, ProcessEnds, jsVars
    <2> QED
      BY <1>n, <1>b, <2>1, MovedKept
  <1> QED
    BY <1>1, <1>2, <1>3, <1>4, <1>5, <1>6, <1>7, <1>8, <1>9, <1>10, <1>11, <1>12, <1>13
    DEF Next, ProcessStep, ProcessFails, StopStep

\* A message is moved only after max_retries deliveries, and with prompt handlers
\* more than once only if an answer was lost or the process ended in between.
THEOREM DeadLetteredOnce ==
  ASSUME PromptHandlers
  PROVE  Spec => []DeadLettered
  <1>1. Init => HandInv /\ MovedInv
    <2> SUFFICES ASSUME Init PROVE HandInv /\ MovedInv
      OBVIOUS
    <2>1. Len(queue) = 0 /\ current = Idle
      BY DEF Init
    <2>2. \A m \in Msgs : dlq[m] = 0
      BY DEF Init, JetStreamInit
    <2>3. faults = 0 /\ stops = 0 /\ pending = {} /\ life = "down"
      BY DEF Init, JetStreamInit
    <2> QED
      BY <2>1, <2>2, <2>3 DEF HandInv, MovedInv, Slips
  <1>2. FullInv /\ FullInv' /\ HandInv /\ MovedInv /\ [Next]_vars => HandInv' /\ MovedInv'
    BY HandStep, MovedStep
  <1>3. FullInv /\ MovedInv => DeadLettered
    BY CountsNat DEF FullInv, ServerInv, MovedInv, DeadLettered, Slips
  <1> QED
    BY <1>1, <1>2, <1>3, FullInvariance, PTL DEF Spec
=============================================================================
