---------------------------- MODULE NatsChannel ----------------------------
(***************************************************************************)
(* adapters/nats.py: one consumer of a channel, in a process that may stop *)
(* in any way and be started again.  The client library queues the         *)
(* deliveries of a subscription and calls message_handler, which awaits    *)
(* _process_message, for one of them at a time.  Each action is the code   *)
(* between two awaits.                                                     *)
(*                                                                         *)
(* A delivery is a pair <<m, n>>; n is msg.metadata.num_delivered.         *)
(***************************************************************************)
EXTENDS JetStream, Sequences, Functions

CONSTANTS
    Idle,             \* no delivery is being processed
    MaxRetries,       \* channel.max_retries
    DlqEnabled,       \* channel.dead_lettering.enabled
    PromptHandlers,   \* a delivery is answered within ack_wait
    DisconnectsLive,  \* disconnect() may be called without unsubscribe()
    FaultKinds,       \* what may fail, among AnyFault
    MaxFaults,        \* bound: how often something fails
    MaxStops          \* bound: how often the process stops

AnyFault == {"deliver", "progress", "answer", "publish", "drain"}

ASSUME NatsAssumption ==
    /\ Idle \notin Msgs \X (1 .. MaxDeliveries)
    /\ MaxRetries \in Nat
    /\ {DlqEnabled, PromptHandlers, DisconnectsLive} \subseteq BOOLEAN
    /\ FaultKinds \subseteq AnyFault
    /\ MaxFaults \in Nat
    /\ MaxStops \in Nat

Deliveries == Msgs \X (1 .. MaxDeliveries)

VARIABLES
    life,      \* "waiting" for active messages, "draining" the subscription,
               \* "undrained" when that failed, "closing" the connection
               \* with _stopping set
    queue,     \* deliveries the client library holds for the callback
    current,   \* the delivery in _process_message
    at,        \* the await it is at
    active,    \* _active_messages of the channel
    handled,   \* history: messages whose handler has returned
    faults,    \* faults so far
    stops      \* stops so far

taskVars == <<queue, current, at, active>>
vars == <<jsVars, life, taskVars, handled, faults, stops>>

TypeOK ==
    /\ JetStreamTypeOK
    /\ life \in {"down", "up", "waiting", "draining", "unsubscribed", "undrained",
                "closing"}
    /\ queue \in Seq(Deliveries)
    /\ current \in Deliveries \cup {Idle}
    /\ at \in {"idle", "progress", "handler", "ack", "move", "lastack", "nak"}
    /\ active \subseteq Msgs
    /\ handled \subseteq Msgs
    /\ faults \in 0 .. MaxFaults
    /\ stops \in 0 .. MaxStops

Init ==
    /\ JetStreamInit
    /\ life = "down"
    /\ queue = <<>>
    /\ current = Idle
    /\ at = "idle"
    /\ active = {}
    /\ handled = {}
    /\ faults = 0
    /\ stops = 0

Fault(kind) == kind \in FaultKinds /\ faults < MaxFaults /\ faults' = faults + 1

-----------------------------------------------------------------------------
(* publish, subscribe, and what the server sends to the subscription *)

\* Publishers are other connected processes.
Publish ==
    /\ PubMessage
    /\ UNCHANGED <<life, taskVars, handled, faults, stops>>

\* A new process connects and subscribes.
Subscribe ==
    /\ life = "down"
    /\ AddConsumer
    /\ life' = "up"
    /\ UNCHANGED <<taskVars, handled, faults, stops>>

Deliver(m) ==
    /\ life \in {"up", "waiting", "undrained"}
    /\ FirstDelivery(m) \/ Redelivery(m)
    /\ \/ queue' = Append(queue, <<m, delivered'[m]>>) /\ UNCHANGED faults
       \/ Fault("deliver") /\ UNCHANGED queue
    /\ UNCHANGED <<life, current, at, active, handled, stops>>

\* Messages of which the client holds a delivery.
InHand == {d[1] : d \in Range(queue) \cup ({current} \ {Idle})}

\* ack_wait has passed since m was delivered or reported in progress.
Expire(m) ==
    /\ PromptHandlers => m \notin InHand
    /\ AckWaitPasses(m)
    /\ UNCHANGED <<life, taskVars, handled, faults, stops>>

-----------------------------------------------------------------------------
(* _process_message *)

Take ==
    /\ current = Idle
    /\ queue # <<>>
    /\ current' = Head(queue)
    /\ queue' = Tail(queue)
    /\ active' = active \cup {Head(queue)[1]}
    /\ at' = "progress"
    /\ UNCHANGED <<jsVars, life, handled, faults, stops>>

Goto(to) == at' = to /\ UNCHANGED <<queue, current, active>>

\* The callback is over; its finally clause has run.
Finish ==
    /\ current' = Idle
    /\ at' = "idle"
    /\ active' = active \ {current[1]}
    /\ UNCHANGED queue

InProgress ==
    /\ at = "progress"
    /\ WorkInProgress(current[1])
    /\ Goto("handler")
    /\ UNCHANGED <<life, handled, faults, stops>>

\* in_progress raises before the try statement: no finally clause.
InProgressFails ==
    /\ at = "progress"
    /\ Fault("progress")
    /\ current' = Idle
    /\ at' = "idle"
    /\ UNCHANGED <<jsVars, life, queue, active, handled, stops>>

HandlerReturns ==
    /\ at = "handler"
    /\ handled' = handled \cup {current[1]}
    /\ Goto("ack")
    /\ UNCHANGED <<jsVars, life, faults, stops>>

\* The except clause decides by the delivery count of this delivery.
OnError_OffByOne ==  \* mutant: gives up one attempt early
    Goto(IF current[2] + 1 < MaxRetries THEN "nak"
         ELSE IF DlqEnabled THEN "move" ELSE "lastack")

OnError_SkipsMove ==  \* mutant: the last attempt is acknowledged only
    Goto(IF current[2] < MaxRetries THEN "nak" ELSE "lastack")

OnError ==
    Goto(IF current[2] < MaxRetries THEN "nak"
         ELSE IF DlqEnabled THEN "move" ELSE "lastack")

HandlerRaises ==
    /\ at = "handler"
    /\ OnError
    /\ UNCHANGED <<jsVars, life, handled, faults, stops>>

Ack ==
    /\ at = "ack"
    /\ AckMsg(current[1])
    /\ Finish
    /\ UNCHANGED <<life, handled, faults, stops>>

\* ack raises, and the except clause treats it as an error of the handler.
AckFails ==
    /\ at = "ack"
    /\ Fault("answer")
    /\ OnError
    /\ UNCHANGED <<jsVars, life, handled, stops>>

\* _move_to_dlq: publish refuses when disconnect has set _stopping.
Move ==
    /\ at = "move"
    /\ life # "closing"
    /\ PubDeadLetter(current[1])
    /\ Goto("lastack")
    /\ UNCHANGED <<life, handled, faults, stops>>

\* publish raises, stored or not; _move_to_dlq logs it and returns.
MoveFails ==
    /\ at = "move"
    /\ IF life = "closing"
       THEN UNCHANGED <<jsVars, faults>>
       ELSE Fault("publish") /\ (PubDeadLetter(current[1]) \/ UNCHANGED jsVars)
    /\ Goto("lastack")
    /\ UNCHANGED <<life, handled, stops>>

LastAck_Naks ==  \* mutant: a message that was moved is asked for again
    /\ at = "lastack"
    /\ NakMsg(current[1])
    /\ Finish
    /\ UNCHANGED <<life, handled, faults, stops>>

LastAck ==
    /\ at = "lastack"
    /\ AckMsg(current[1])
    /\ Finish
    /\ UNCHANGED <<life, handled, faults, stops>>

Nak_NoFinally ==  \* mutant: a message that is tried again stays active
    /\ at = "nak"
    /\ NakMsg(current[1])
    /\ current' = Idle
    /\ at' = "idle"
    /\ UNCHANGED <<life, queue, active, handled, faults, stops>>

Nak ==
    /\ at = "nak"
    /\ NakMsg(current[1])
    /\ Finish
    /\ UNCHANGED <<life, handled, faults, stops>>

\* The answer is lost on its way, or raises where only finally is left.
AnswerLost ==
    /\ at \in {"ack", "lastack", "nak"}
    /\ Fault("answer")
    /\ Finish
    /\ UNCHANGED <<jsVars, life, handled, stops>>

-----------------------------------------------------------------------------
(* unsubscribe, disconnect, and the end of the process *)

Stop == stops < MaxStops /\ stops' = stops + 1

UnsubscribeBegin ==
    /\ life = "up"
    /\ Stop
    /\ life' = "waiting"
    /\ UNCHANGED <<jsVars, taskVars, handled, faults>>

\* No message is active, or 30 seconds are over: sub.drain() tells the server
\* to send no more.
UnsubscribeDrain ==
    /\ life = "waiting"
    /\ life' = "draining"
    /\ UNCHANGED <<jsVars, taskVars, handled, faults, stops>>

\* The callback has seen the whole queue.
UnsubscribeEnd ==
    /\ life = "draining"
    /\ queue = <<>> /\ current = Idle
    /\ life' = "unsubscribed"
    /\ UNCHANGED <<jsVars, taskVars, handled, faults, stops>>

\* drain raises, before or after it reached the server; unsubscribe logs that
\* and returns all the same, with queue and callback as they are.
UnsubscribeFails ==
    /\ life = "draining"
    /\ Fault("drain")
    /\ life' = "undrained"
    /\ UNCHANGED <<jsVars, taskVars, handled, stops>>

\* _stopping is set, then the connection is drained.
DisconnectBegin ==
    /\ \/ life \in {"unsubscribed", "undrained"} /\ UNCHANGED stops
       \/ life = "up" /\ DisconnectsLive /\ Stop
    /\ life' = "closing"
    /\ UNCHANGED <<jsVars, taskVars, handled, faults>>

\* Nothing of the process is left; a later one starts with empty tables.
ProcessEnds ==
    /\ life' = "down"
    /\ queue' = <<>>
    /\ current' = Idle
    /\ at' = "idle"
    /\ active' = {}

\* The drain is complete, or the callback is cancelled after ten seconds.
DisconnectEnd ==
    /\ life = "closing"
    /\ ProcessEnds
    /\ UNCHANGED <<jsVars, handled, faults, stops>>

Crash ==
    /\ life # "down"
    /\ Stop
    /\ ProcessEnds
    /\ UNCHANGED <<jsVars, handled, faults>>

-----------------------------------------------------------------------------
ProcessStep ==
    \/ Take \/ InProgress \/ HandlerReturns \/ HandlerRaises
    \/ Ack \/ Move \/ LastAck \/ Nak

ProcessFails == InProgressFails \/ AckFails \/ MoveFails \/ AnswerLost

StopStep ==
    \/ UnsubscribeBegin \/ UnsubscribeDrain \/ UnsubscribeEnd \/ UnsubscribeFails
    \/ DisconnectBegin \/ DisconnectEnd \/ Crash

Next ==
    \/ Publish \/ Subscribe
    \/ \E m \in Msgs : Deliver(m) \/ Expire(m)
    \/ ProcessStep \/ ProcessFails \/ StopStep

Spec == Init /\ [][Next]_vars

(* The server delivers and redelivers, handlers end, the client library     *)
(* calls the callback, and a process that ended is started again.  Nothing  *)
(* makes a process stop or a request fail.                                  *)
Fairness ==
    /\ WF_vars(Subscribe)
    /\ \A m \in Msgs : WF_vars(Deliver(m)) /\ WF_vars(Expire(m))
    /\ WF_vars(ProcessStep)
    /\ WF_vars(UnsubscribeDrain) /\ WF_vars(UnsubscribeEnd)
    /\ WF_vars(DisconnectBegin /\ UNCHANGED stops) /\ WF_vars(DisconnectEnd)

FairSpec == Spec /\ Fairness

-----------------------------------------------------------------------------
(* What the consumer promises: the refinement mapping. *)

\* The messages published since the consumer exists (deliver_policy "new").
Published == {m \in Msgs : consumer /\ start < m /\ m <= published}

\* Without a dead letter queue a message is given up after its last attempt.
Promise == INSTANCE AtLeastOnce WITH
    Messages <- Msgs,
    Unusable <- IF DlqEnabled THEN {} ELSE Msgs,
    Capped   <- FALSE,
    sent     <- Published,
    owed     <- {m \in Published : m > last} \cup pending,
    attempts <- delivered,
    dead     <- {m \in Msgs : dlq[m] > 0}

-----------------------------------------------------------------------------
(* Properties *)

\* Guaranteed delivery: a message leaves the consumer's care only because a
\* handler returned for it, it is in the dead letter stream, or there is none
\* and it was tried max_retries times; whatever crashes, is lost or is
\* restarted in between (ack comes after the handler and after _move_to_dlq;
\* the consumer is durable).
NoLoss ==
    \A m \in Published :
        \/ m > last
        \/ m \in pending
        \/ m \in handled
        \/ dlq[m] > 0
        \/ ~DlqEnabled /\ delivered[m] >= MaxRetries

\* The adapter and the server together implement AtLeastOnce.
KeepsPromise == Promise!Spec

\* A message is moved only after max_retries deliveries; with prompt handlers
\* it is moved twice only if its answer was lost or the process ended between
\* the move and the answer: each costs one entry at most.
DeadLettered ==
    \A m \in Msgs : /\ dlq[m] <= 1 + faults + stops
                    /\ dlq[m] > 0 => delivered[m] >= MaxRetries

\* Guaranteed retries: without a handler that returned for it the adapter
\* settles a message only after max_retries deliveries, even when the dead
\* letter is refused; each delivery in hand decides by its own count, which may
\* be older than the server's.
NotGivenUpEarly ==
    \A m \in Published :
        m > last \/ m \in pending \/ m \in handled \/ delivered[m] >= MaxRetries

\* What unsubscribe waits for and stop_channel_active_messages insists on: the
\* channel's active messages are those in _process_message.
ActiveTracksTask == active = (IF current = Idle THEN {} ELSE {current[1]})

\* Why NoLoss holds: what _process_message knows of its delivery stays true
\* while it waits, although the server may have delivered the message again.
IInv ==
    /\ TypeOK
    /\ start <= last /\ last <= published
    /\ ~consumer => last = 0
    /\ \A m \in pending : start < m /\ m <= last
    /\ \A i \in 1 .. Len(queue) :
          /\ start < queue[i][1] /\ queue[i][1] <= last
          /\ queue[i][2] <= delivered[queue[i][1]]
    /\ (current = Idle) <=> (at = "idle")
    /\ current # Idle =>
          /\ start < current[1] /\ current[1] <= last
          /\ current[2] <= delivered[current[1]]
          /\ at = "ack" => current[1] \in handled
          /\ at \in {"move", "lastack"} => current[2] >= MaxRetries

\* Every message published while the consumer exists is settled in the end,
\* however often the process stops and whatever fails.
EventuallySettled ==
    \A m \in Msgs : (m \in Published) ~> (m <= last /\ m \notin pending)
=============================================================================
