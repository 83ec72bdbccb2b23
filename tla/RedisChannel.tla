---------------------------- MODULE RedisChannel ----------------------------
(***************************************************************************)
(* adapters/redis.py: the adapters of one consumer group on one channel.   *)
(* Each adapter is one process (its consumer name holds the time of        *)
(* connect(), so a restarted one is another adapter).  It runs the three   *)
(* background loops of subscribe() and one task per delivered message; an  *)
(* await is a point where other tasks and other adapters take steps, and   *)
(* each action below is the code between two awaits.                       *)
(*                                                                         *)
(* A delivery is a pair <<m, n>>: the n-th time the server hands out m.    *)
(* XREADGROUP hands out n = 1, XAUTOCLAIM every later n.                   *)
(***************************************************************************)
EXTENDS RedisServer

CONSTANTS
    Adapters,        \* the processes that may subscribe
    Nobody,          \* the owner of a delivery that is not under way
    Mortal,          \* adapters that may fail to subscribe, stop or crash
    MaxRetries,      \* channel.max_retries
    ClaimEnabled,    \* channel.redis is set and claim_interval > 0
    DlqEnabled,      \* channel.dead_lettering.enabled
    PromptHandlers,  \* every handler ends within min_idle_time
    Malformed,       \* messages without a payload field
    TrimLens,        \* xaddMaxLen of the publishers; 0 is none
    MaxFaults,       \* bound: commands that fail or whose reply is lost
    MaxInFlight      \* channel.max_in_flight

ASSUME ChannelAssumption ==
    /\ Nobody \notin Adapters
    /\ Mortal \subseteq Adapters
    /\ MaxRetries \in Nat
    /\ {ClaimEnabled, DlqEnabled, PromptHandlers} \subseteq BOOLEAN
    /\ Malformed \subseteq Msgs
    /\ TrimLens \subseteq Nat
    /\ MaxFaults \in Nat
    /\ MaxInFlight \in Nat

Deliveries == Msgs \X (1 .. MaxDeliveries)

VARIABLES
    life,       \* life cycle of each adapter; "up" is unsubscribing = False
    active,     \* _active_messages of each adapter
    pc, by,     \* each delivery: where its task is, and whose it is
    readLoop,   \* _xreadgroup_loop runs
    claimLoop,  \* _xclaim_loop: sleeping, or its reply is on the way
    cursor,     \* _xclaim_cursors
    claimNext,  \* next cursor in the reply on the way
    dlqLoop,    \* _dlq_loop: sleeping, or the next command of _move_to_dlq
    dlqTodo,    \* messages of the XPENDING reply still to be moved
    dlqErr,     \* error_metadata of the current move is not empty, until XADD has it
    handled,    \* history: messages whose handler has returned
    faults      \* faults so far

taskVars  == <<active, pc, by>>
readVars  == <<readLoop>>
claimVars == <<claimLoop, cursor, claimNext>>
moveVars  == <<dlqLoop, dlqTodo, dlqErr>>
loopVars  == <<readLoop, claimLoop, cursor, claimNext, dlqLoop, dlqTodo, dlqErr>>
vars == <<serverVars, life, taskVars, loopVars, handled, faults>>

\* "closing": disconnect has cancelled the loops and closes the connection.
LifeStates == {"down", "up", "draining", "unsubscribed", "timedout", "closing",
               "disconnected", "crashed"}
\* "sent": in a reply on its way; "created": a task that has not started.
\* From "handling" on, the message is in the adapter's active set.
Running == {"handling", "acking", "cleanup", "dropping", "failing", "expiring"}
Live    == {"sent", "created"} \cup Running

AdapterTypeOK ==
    /\ life \in [Adapters -> LifeStates]
    /\ active \in [Adapters -> SUBSET Msgs]
    /\ pc \in [Deliveries -> Live \cup {"none", "over"}]
    /\ by \in [Deliveries -> Adapters \cup {Nobody}]
    /\ readLoop \in [Adapters -> BOOLEAN]
    /\ claimLoop \in [Adapters -> {"off", "sleep", "reply"}]
    /\ cursor \in [Adapters -> Nat]
    /\ claimNext \in [Adapters -> Nat]
    /\ dlqLoop \in [Adapters -> {"off", "sleep", "xrange", "hgetall", "delete",
                                 "xadd", "xack"}]
    /\ dlqTodo \in [Adapters -> SUBSET Msgs]
    /\ dlqErr \in [Adapters -> BOOLEAN]
    /\ handled \subseteq Msgs
    /\ faults \in 0 .. MaxFaults

TypeOK == ServerTypeOK /\ AdapterTypeOK

Init ==
    /\ ServerInit
    /\ life = [a \in Adapters |-> "down"]
    /\ active = [a \in Adapters |-> {}]
    /\ pc = [d \in Deliveries |-> "none"]
    /\ by = [d \in Deliveries |-> Nobody]
    /\ readLoop = [a \in Adapters |-> FALSE]
    /\ claimLoop = [a \in Adapters |-> "off"]
    /\ cursor = [a \in Adapters |-> 0]
    /\ claimNext = [a \in Adapters |-> 0]
    /\ dlqLoop = [a \in Adapters |-> "off"]
    /\ dlqTodo = [a \in Adapters |-> {}]
    /\ dlqErr = [a \in Adapters |-> FALSE]
    /\ handled = {}
    /\ faults = 0

\* _require_redis answers.
Connected(a) == life[a] \in {"up", "draining", "unsubscribed", "timedout", "closing"}

\* A command of a connected adapter fails, or is executed and its reply is lost.
Fault == faults < MaxFaults /\ faults' = faults + 1

-----------------------------------------------------------------------------
(* publish and subscribe *)

\* Publishers are separate connected processes; XADD answers or raises.
Publish(len) ==
    /\ XADD(len)
    /\ UNCHANGED <<life, taskVars, loopVars, handled, faults>>

\* connect, then subscribe: create the group and start the loops.
Subscribe(a) ==
    /\ life[a] = "down"
    /\ XGROUP_CREATE
    /\ life' = [life EXCEPT ![a] = "up"]
    /\ readLoop' = [readLoop EXCEPT ![a] = TRUE]
    /\ claimLoop' = [claimLoop EXCEPT ![a] = IF ClaimEnabled THEN "sleep" ELSE "off"]
    /\ dlqLoop' = [dlqLoop EXCEPT ![a] = IF DlqEnabled THEN "sleep" ELSE "off"]
    /\ UNCHANGED <<taskVars, cursor, claimNext, dlqTodo, dlqErr, handled, faults>>

\* XGROUP CREATE raises, executed or not: no loop is started.
SubscribeFails(a) ==
    /\ a \in Mortal /\ life[a] = "down"
    /\ Fault
    /\ XGROUP_CREATE \/ UNCHANGED serverVars
    /\ UNCHANGED <<life, taskVars, loopVars, handled>>

-----------------------------------------------------------------------------
(* the reading loops; each tests unsubscribing only between two rounds *)

SentTo(a, S) == {d \in S : pc[d] = "sent" /\ by[d] = a}
First == {d \in Deliveries : d[2] = 1}
Again == {d \in Deliveries : d[2] > 1}

\* The server hands the deliveries D to adapter a; the reply is on its way.
Send(a, D) ==
    /\ pc' = [d \in Deliveries |-> IF d \in D THEN "sent" ELSE pc[d]]
    /\ by' = [d \in Deliveries |-> IF d \in D THEN a ELSE by[d]]
    /\ UNCHANGED active

\* The loop has the reply: create_task(_process_message) for each of D.
Create(D) ==
    /\ pc' = [d \in Deliveries |-> IF d \in D THEN "created" ELSE pc[d]]
    /\ UNCHANGED <<active, by>>

\* Nobody will ever process the deliveries D.
Drop(D) ==
    /\ pc' = [d \in Deliveries |-> IF d \in D THEN "over" ELSE pc[d]]
    /\ by' = [d \in Deliveries |-> IF d \in D THEN Nobody ELSE by[d]]

ReadDeliver(a) ==
    /\ readLoop[a]
    /\ SentTo(a, First) = {}
    /\ \E hi \in Undelivered :
          /\ XREADGROUP(hi)
          /\ Send(a, {d \in First : d[1] \in ReadBatch(hi)})
    /\ UNCHANGED <<life, loopVars, handled, faults>>

ReadDispatch(a) ==
    /\ readLoop[a]
    /\ SentTo(a, First) # {}
    /\ Create(SentTo(a, First))
    /\ readLoop' = [readLoop EXCEPT ![a] = life[a] = "up"]
    /\ UNCHANGED <<serverVars, life, claimVars, moveVars, handled, faults>>

\* The reply is lost (socket timeout, connection reset); back off, go on.
ReadFails(a) ==
    /\ readLoop[a]
    /\ SentTo(a, First) # {}
    /\ Fault
    /\ Drop(SentTo(a, First))
    /\ readLoop' = [readLoop EXCEPT ![a] = life[a] = "up"]
    /\ UNCHANGED <<serverVars, life, active, claimVars, moveVars, handled>>

\* A read that blocked until it timed out finds unsubscribing set.
ReadExit(a) ==
    /\ readLoop[a]
    /\ life[a] # "up"
    /\ SentTo(a, First) = {}
    /\ readLoop' = [readLoop EXCEPT ![a] = FALSE]
    /\ UNCHANGED <<serverVars, life, taskVars, claimVars, moveVars, handled, faults>>

\* After the sleep there is no second look at unsubscribing.
ClaimDeliver(a) ==
    /\ claimLoop[a] = "sleep"
    /\ \E hi \in 0 .. MaxMsg :
          /\ XAUTOCLAIM(cursor[a], hi)
          /\ Send(a, {d \in Again : /\ d[1] \in Claimed(cursor[a], hi)
                                    /\ d[2] = delivered[d[1]] + 1})
          /\ claimNext' = [claimNext EXCEPT ![a] = NextCursor(hi)]
    /\ claimLoop' = [claimLoop EXCEPT ![a] = "reply"]
    /\ UNCHANGED <<life, readVars, cursor, moveVars, handled, faults>>

ClaimAgain(a) == claimLoop' = [claimLoop EXCEPT ![a] = IF life[a] = "up" THEN "sleep" ELSE "off"]

ClaimDispatch_NeverWraps(a) ==  \* mutant: the cursor 0-0 does not restart the scan
    /\ claimLoop[a] = "reply"
    /\ cursor' = [cursor EXCEPT ![a] = IF claimNext[a] = 0 THEN @ ELSE claimNext[a]]
    /\ claimNext' = [claimNext EXCEPT ![a] = 0]
    /\ Create(SentTo(a, Again))
    /\ ClaimAgain(a)
    /\ UNCHANGED <<serverVars, life, readVars, moveVars, handled, faults>>

ClaimDispatch(a) ==
    /\ claimLoop[a] = "reply"
    /\ cursor' = [cursor EXCEPT ![a] = claimNext[a]]
    /\ claimNext' = [claimNext EXCEPT ![a] = 0]
    /\ Create(SentTo(a, Again))
    /\ ClaimAgain(a)
    /\ UNCHANGED <<serverVars, life, readVars, moveVars, handled, faults>>

ClaimFails_EndsLoop(a) ==  \* mutant: the exception leaves the loop
    /\ claimLoop[a] = "reply"
    /\ Fault
    /\ claimNext' = [claimNext EXCEPT ![a] = 0]
    /\ Drop(SentTo(a, Again))
    /\ claimLoop' = [claimLoop EXCEPT ![a] = "off"]
    /\ UNCHANGED <<serverVars, life, active, readVars, cursor, moveVars, handled>>

\* The reply is lost: the cursor stays where it was.
ClaimFails(a) ==
    /\ claimLoop[a] = "reply"
    /\ Fault
    /\ claimNext' = [claimNext EXCEPT ![a] = 0]
    /\ Drop(SentTo(a, Again))
    /\ ClaimAgain(a)
    /\ UNCHANGED <<serverVars, life, active, readVars, cursor, moveVars, handled>>

-----------------------------------------------------------------------------
(* _process_message *)

Task(d, a, from) == pc[d] = from /\ by[d] = a

Goto(d, to) ==
    /\ pc' = [pc EXCEPT ![d] = to]
    /\ UNCHANGED <<active, by>>

\* Active messages are a set of message ids per channel, not a count.
AddActive(a, m)    == active' = [active EXCEPT ![a] = @ \cup {m}]
RemoveActive(a, m) == active' = [active EXCEPT ![a] = @ \ {m}]
NoneActive(a)      == active[a] = {}

\* The finally clause.
Finish(d, a) == Drop({d}) /\ RemoveActive(a, d[1])

\* _require_redis raises once the adapter is disconnected.
ProcessStart(d, a) ==
    /\ Task(d, a, "created")
    /\ IF Connected(a)
       THEN /\ pc' = [pc EXCEPT ![d] = IF d[1] \in Malformed THEN "dropping" ELSE "handling"]
            /\ AddActive(a, d[1])
            /\ UNCHANGED by
       ELSE Drop({d}) /\ UNCHANGED active
    /\ UNCHANGED <<serverVars, life, loopVars, handled, faults>>

HandlerReturns(d, a) ==
    /\ Task(d, a, "handling")
    /\ handled' = handled \cup {d[1]}
    /\ Goto(d, "acking")
    /\ UNCHANGED <<serverVars, life, loopVars, faults>>

HandlerRaises_Acks(d, a) ==  \* mutant: XACK whether the handler raised or not
    /\ Task(d, a, "handling")
    /\ Goto(d, "acking")
    /\ UNCHANGED <<serverVars, life, loopVars, handled, faults>>

\* deserialize or the handler raises.
HandlerRaises(d, a) ==
    /\ Task(d, a, "handling")
    /\ Goto(d, "failing")
    /\ UNCHANGED <<serverVars, life, loopVars, handled, faults>>

ProcessAck(d, a) ==
    /\ Task(d, a, "acking")
    /\ XACK(d[1])
    /\ Goto(d, "cleanup")
    /\ UNCHANGED <<life, loopVars, handled, faults>>

ProcessDelete(d, a) ==
    /\ Task(d, a, "cleanup")
    /\ DEL(d[1])
    /\ Finish(d, a)
    /\ UNCHANGED <<life, loopVars, handled, faults>>

\* A message without payload is acknowledged and forgotten.
DropMalformed(d, a) ==
    /\ Task(d, a, "dropping")
    /\ XACK(d[1])
    /\ Finish(d, a)
    /\ UNCHANGED <<life, loopVars, handled, faults>>

StoreError(d, a) ==
    /\ Task(d, a, "failing")
    /\ HSET(d[1])
    /\ Goto(d, "expiring")
    /\ UNCHANGED <<life, loopVars, handled, faults>>

\* EXPIRE, whose day is longer than any run here, and the finally clause.
ExpireError(d, a) ==
    /\ Task(d, a, "expiring")
    /\ Finish(d, a)
    /\ UNCHANGED <<serverVars, life, loopVars, handled, faults>>

\* A command of a task raises.  disconnect() closes connections in use.
Command(d, a) ==
    /\ pc[d] \in Running \ {"handling"} /\ by[d] = a
    /\ IF life[a] \in {"closing", "disconnected"} THEN UNCHANGED faults ELSE Fault
    /\ UNCHANGED <<serverVars, life, loopVars, handled>>

CommandFails_Leaks(d, a) ==  \* mutant: no finally, the message stays active
    /\ Command(d, a)
    /\ IF pc[d] \in {"failing", "expiring"}
       THEN Drop({d}) /\ UNCHANGED active
       ELSE Goto(d, "failing")

\* XACK or DEL raises: the except clause treats it like a handler's error.
\* HSET or EXPIRE raises: only finally is left.
CommandFails(d, a) ==
    /\ Command(d, a)
    /\ IF pc[d] \in {"failing", "expiring"} THEN Finish(d, a) ELSE Goto(d, "failing")

ProcessStep(d, a) ==
    \/ ProcessStart(d, a) \/ HandlerReturns(d, a) \/ HandlerRaises(d, a)
    \/ ProcessAck(d, a) \/ ProcessDelete(d, a) \/ DropMalformed(d, a)
    \/ StoreError(d, a) \/ ExpireError(d, a)

-----------------------------------------------------------------------------
(* _dlq_loop and _move_to_dlq *)

\* The messages of one XPENDING reply are moved in the order of their ids.
Current(a, m) == m \in dlqTodo[a] /\ \A k \in dlqTodo[a] : m <= k

DlqScan_OffByOne(a) ==  \* mutant: counts the delivery that is yet to come
    /\ dlqLoop[a] = "sleep"
    /\ LET exceeded == {m \in XPENDING : delivered[m] + 1 >= MaxRetries}
       IN  /\ dlqTodo' = [dlqTodo EXCEPT ![a] = exceeded]
           /\ dlqLoop' = [dlqLoop EXCEPT ![a] =
                 IF exceeded # {} THEN "xrange"
                 ELSE IF life[a] = "up" THEN "sleep" ELSE "off"]
    /\ UNCHANGED <<serverVars, life, taskVars, readVars, claimVars, dlqErr, handled, faults>>

DlqScan(a) ==
    /\ dlqLoop[a] = "sleep"
    /\ LET exceeded == {m \in XPENDING : delivered[m] >= MaxRetries}
       IN  /\ dlqTodo' = [dlqTodo EXCEPT ![a] = exceeded]
           /\ dlqLoop' = [dlqLoop EXCEPT ![a] =
                 IF exceeded # {} THEN "xrange"
                 ELSE IF life[a] = "up" THEN "sleep" ELSE "off"]
    /\ UNCHANGED <<serverVars, life, taskVars, readVars, claimVars, dlqErr, handled, faults>>

\* _move_to_dlq is over for m; the loop goes on with its page, then sleeps.
NextMove(a, m) ==
    LET rest == dlqTodo[a] \ {m} IN
    /\ dlqTodo' = [dlqTodo EXCEPT ![a] = rest]
    /\ dlqErr' = [dlqErr EXCEPT ![a] = FALSE]
    /\ dlqLoop' = [dlqLoop EXCEPT ![a] =
          IF rest # {} THEN "xrange" ELSE IF life[a] = "up" THEN "sleep" ELSE "off"]

Move(a, m, at) == dlqLoop[a] = at /\ Current(a, m)

MoveGoto(a, to) ==
    /\ dlqLoop' = [dlqLoop EXCEPT ![a] = to]
    /\ UNCHANGED dlqTodo

\* "not found for DLQ": a trimmed message stays pending.
MoveXrange(a, m) ==
    /\ Move(a, m, "xrange")
    /\ IF m \in stream
       THEN MoveGoto(a, "hgetall") /\ UNCHANGED dlqErr
       ELSE NextMove(a, m)
    /\ UNCHANGED serverVars

MoveHgetall(a, m) ==
    /\ Move(a, m, "hgetall")
    /\ dlqErr' = [dlqErr EXCEPT ![a] = m \in errInfo]
    /\ MoveGoto(a, "delete")
    /\ UNCHANGED serverVars

MoveDelete_AckFirst(a, m) ==  \* mutant: XACK before XADD
    /\ Move(a, m, "delete")
    /\ DEL(m)
    /\ MoveGoto(a, "xack")
    /\ UNCHANGED dlqErr

MoveDelete(a, m) ==
    /\ Move(a, m, "delete")
    /\ DEL(m)
    /\ MoveGoto(a, "xadd")
    /\ UNCHANGED dlqErr

MoveXadd(a, m) ==
    /\ Move(a, m, "xadd")
    /\ XADD_DLQ(m)
    /\ MoveGoto(a, "xack")
    /\ dlqErr' = [dlqErr EXCEPT ![a] = FALSE]

MoveXack_Forgotten(a, m) ==  \* mutant: the moved message stays pending
    /\ Move(a, m, "xack")
    /\ NextMove(a, m)
    /\ UNCHANGED serverVars

MoveXack(a, m) ==
    /\ Move(a, m, "xack")
    /\ XACK(m)
    /\ NextMove(a, m)

\* Any of the commands raises: logged, and the loop goes on.
MoveFails(a, m) ==
    /\ Current(a, m)
    /\ Fault
    /\ NextMove(a, m)
    /\ UNCHANGED <<serverVars, life, taskVars, readVars, claimVars, handled>>

MoveToDlq(a) ==
    /\ \E m \in Msgs :
          \/ MoveXrange(a, m) \/ MoveHgetall(a, m) \/ MoveDelete(a, m)
          \/ MoveXadd(a, m) \/ MoveXack(a, m)
    /\ UNCHANGED <<life, taskVars, readVars, claimVars, handled, faults>>

-----------------------------------------------------------------------------
(* unsubscribe, disconnect, crash *)

CancelLoops_NotClaim(a) ==  \* mutant: _xclaim_loop is not in _background_tasks
    /\ readLoop' = [readLoop EXCEPT ![a] = FALSE]
    /\ UNCHANGED <<claimLoop, claimNext>>
    /\ dlqLoop' = [dlqLoop EXCEPT ![a] = "off"]
    /\ dlqTodo' = [dlqTodo EXCEPT ![a] = {}]
    /\ dlqErr' = [dlqErr EXCEPT ![a] = FALSE]
    /\ Drop(SentTo(a, First))

\* Cancelled loops are gone at their await; a reply on its way is lost.
CancelLoops(a) ==
    /\ readLoop' = [readLoop EXCEPT ![a] = FALSE]
    /\ claimLoop' = [claimLoop EXCEPT ![a] = "off"]
    /\ claimNext' = [claimNext EXCEPT ![a] = 0]
    /\ dlqLoop' = [dlqLoop EXCEPT ![a] = "off"]
    /\ dlqTodo' = [dlqTodo EXCEPT ![a] = {}]
    /\ dlqErr' = [dlqErr EXCEPT ![a] = FALSE]
    /\ Drop(SentTo(a, Deliveries))

UnsubscribeBegin(a) ==
    /\ a \in Mortal /\ life[a] = "up"
    /\ life' = [life EXCEPT ![a] = "draining"]
    /\ UNCHANGED <<serverVars, taskVars, loopVars, handled, faults>>

\* The wait for active messages finds none, or gives up after 30 seconds; the
\* loops are cancelled without another await.  Only here the cursor is reset.
UnsubscribeEnd(a) ==
    /\ life[a] = "draining"
    /\ life' = [life EXCEPT ![a] = IF NoneActive(a) THEN "unsubscribed" ELSE "timedout"]
    /\ CancelLoops(a)
    /\ cursor' = [cursor EXCEPT ![a] = 0]
    /\ UNCHANGED <<serverVars, active, handled, faults>>

\* Tasks of _process_message are neither cancelled nor awaited.  Of a waiting
\* unsubscribe only the reset of a cursor that no loop reads is left.
DisconnectBegin(a) ==
    /\ a \in Mortal /\ Connected(a) /\ life[a] # "closing"
    /\ life' = [life EXCEPT ![a] = "closing"]
    /\ CancelLoops(a)
    /\ UNCHANGED <<serverVars, active, cursor, handled, faults>>

DisconnectEnd(a) ==
    /\ life[a] = "closing"
    /\ life' = [life EXCEPT ![a] = "disconnected"]
    /\ UNCHANGED <<serverVars, taskVars, loopVars, handled, faults>>

\* The process ends, in the middle of anything.
Crash(a) ==
    /\ a \in Mortal /\ life[a] \notin {"down", "crashed"}
    /\ life' = [life EXCEPT ![a] = "crashed"]
    /\ readLoop' = [readLoop EXCEPT ![a] = FALSE]
    /\ claimLoop' = [claimLoop EXCEPT ![a] = "off"]
    /\ cursor' = [cursor EXCEPT ![a] = 0]
    /\ claimNext' = [claimNext EXCEPT ![a] = 0]
    /\ dlqLoop' = [dlqLoop EXCEPT ![a] = "off"]
    /\ dlqTodo' = [dlqTodo EXCEPT ![a] = {}]
    /\ dlqErr' = [dlqErr EXCEPT ![a] = FALSE]
    /\ Drop({d \in Deliveries : by[d] = a /\ pc[d] \in Live})
    /\ active' = [active EXCEPT ![a] = {}]
    /\ UNCHANGED <<serverVars, handled, faults>>

\* m has been pending for min_idle_time since it was last delivered.
Age(m) ==
    /\ PromptHandlers => \A d \in Deliveries : d[1] = m => pc[d] \notin Live
    /\ IdleTimePasses(m)
    /\ UNCHANGED <<life, taskVars, loopVars, handled, faults>>

-----------------------------------------------------------------------------
AdapterStep(a) ==
    \/ Subscribe(a) \/ SubscribeFails(a)
    \/ ReadDeliver(a) \/ ReadDispatch(a) \/ ReadFails(a) \/ ReadExit(a)
    \/ ClaimDeliver(a) \/ ClaimDispatch(a) \/ ClaimFails(a)
    \/ DlqScan(a) \/ MoveToDlq(a) \/ (\E m \in Msgs : MoveFails(a, m))
    \/ UnsubscribeBegin(a) \/ UnsubscribeEnd(a)
    \/ DisconnectBegin(a) \/ DisconnectEnd(a) \/ Crash(a)

TaskStep(a) == \E d \in Deliveries : ProcessStep(d, a) \/ CommandFails(d, a)

Next ==
    \/ \E len \in TrimLens : Publish(len)
    \/ \E a \in Adapters : AdapterStep(a) \/ TaskStep(a)
    \/ \E m \in Msgs : Age(m)

Spec == Init /\ [][Next]_vars

(* asyncio runs every ready task, timers fire, Redis answers and handlers   *)
(* end.  Nothing makes an adapter stop or a command fail.                   *)
Fairness ==
    /\ \A a \in Adapters :
          /\ WF_vars(Subscribe(a))
          /\ WF_vars(ReadDeliver(a)) /\ WF_vars(ReadDispatch(a))
          /\ WF_vars(ClaimDeliver(a)) /\ WF_vars(ClaimDispatch(a))
          /\ WF_vars(DlqScan(a)) /\ WF_vars(MoveToDlq(a))
          /\ WF_vars(UnsubscribeEnd(a))
          /\ \A d \in Deliveries : WF_vars(ProcessStep(d, a))
    /\ \A m \in Msgs : WF_vars(Age(m))

FairSpec == Spec /\ Fairness

-----------------------------------------------------------------------------
(* What the adapters of a group promise together: the refinement mapping.   *)
Published == {m \in Msgs : m <= published}

\* Owed: not yet delivered, or delivered and not acknowledged.
Promise == INSTANCE AtLeastOnce WITH
    Messages <- Msgs,
    Unusable <- Malformed,
    Capped   <- TrimLens # {0},
    sent     <- Published,
    owed     <- Undelivered \cup pel,
    attempts <- delivered,
    dead     <- {m \in Msgs : dlq[m] > 0}

-----------------------------------------------------------------------------
(* Properties *)

\* A message of which nobody will hear again: the group's position is past it
\* and it is not pending.
Settled(m) == m <= lastId /\ m \notin pel

\* At-least-once: a message leaves the group's care only because a handler
\* returned for it, it is in the dead letter stream, it has no payload, or
\* xaddMaxLen trimmed it; whatever crashes, is cancelled, fails or is claimed
\* by another adapter in between (XACK comes last in _process_message and in
\* _move_to_dlq; the group starts at 0).
NoLoss ==
    \A m \in Published :
        \/ m \in stream /\ m > lastId
        \/ m \in pel
        \/ m \in handled
        \/ dlq[m] > 0
        \/ m \in Malformed
        \/ m \notin stream

\* The adapters and the server together implement AtLeastOnce.
KeepsPromise == Promise!Spec

\* _dlq_loop moves a message only after max_retries deliveries.
RetriesBeforeDlq == \A m \in Msgs : dlq[m] > 0 => delivered[m] >= MaxRetries

\* Why NoLoss and RetriesBeforeDlq hold: every fact about a message that a task
\* or a move carries from one await to the next is still true when it is used,
\* whatever the other tasks, loops and adapters did in between.
GroupInv ==
    /\ lastId <= published
    /\ ~group => lastId = 0
    /\ \A m \in stream : m <= published
    /\ \A m \in pel : m <= lastId
    /\ \A m \in handled : m <= lastId
    /\ TrimLens = {0} => Published \subseteq stream
    /\ \A m \in Msgs : m > lastId => delivered[m] = 0
    /\ \A m \in idle : delivered[m] < MaxDeliveries

TaskInv ==
    \A d \in Deliveries :
        /\ pc[d] # "none" => d[1] <= lastId /\ d[2] <= delivered[d[1]]
        /\ pc[d] \in {"acking", "cleanup"} => d[1] \in handled
        /\ pc[d] = "dropping" => d[1] \in Malformed

MoveInv ==
    \A a \in Adapters : \A m \in dlqTodo[a] :
        /\ m <= lastId
        /\ delivered[m] >= MaxRetries
        /\ dlqLoop[a] = "xack" /\ Current(a, m) => dlq[m] > 0

IInv == TypeOK /\ GroupInv /\ TaskInv /\ MoveInv /\ NoLoss /\ RetriesBeforeDlq

\* With one adapter and no failing command a message is dead-lettered once,
\* however tasks, claims and scans interleave.
DeadLetteredOnce == \A m \in Msgs : dlq[m] <= 1

\* What unsubscribe waits for: the active set of an adapter holds exactly the
\* messages its tasks are working on.
ActiveTracksTasks ==
    \A a \in Adapters :
        active[a] = {d[1] : d \in {e \in Deliveries : by[e] = a /\ pc[e] \in Running}}

\* No reply and no page survives the loops: once unsubscribe is over or
\* disconnect has cancelled them, the adapter takes no further message and moves none.
Stopped(a) ==
    life[a] \in {"unsubscribed", "timedout", "closing", "disconnected", "crashed"}

QuietAfterStop ==
    [][\A a \in Adapters : Stopped(a) =>
          /\ \A d \in Deliveries : by'[d] = a => by[d] = a /\ pc[d] # "sent"
          /\ claimNext'[a] = 0 /\ dlqTodo'[a] = {}]_vars

\* The group settles every message it was ever given, although adapters stop
\* in the middle of anything, as long as one keeps running.  Publishers end, by
\* MaxMsg, and what is settled remains so.
EventuallySettled == <>[](\A m \in Published : Settled(m))

\* "Wait for active messages to complete (prevents data loss)": when the wait
\* ended in time no handler of the adapter is running.
HandlersDoneAtUnsubscribe ==
    \A a \in Adapters : life[a] = "unsubscribed" =>
        \A d \in Deliveries : by[d] = a => pc[d] # "handling"

\* "Waits for active messages before disconnect": once disconnected no handler
\* of the adapter is running.
HandlersDoneAtDisconnect ==
    \A a \in Adapters : life[a] = "disconnected" =>
        \A d \in Deliveries : by[d] = a => pc[d] # "handling"

\* "Failed messages routed to DLQ": no message is moved whose handler returned.
OnlyFailedDeadLettered ==
    [][\A m \in Msgs : dlq'[m] > dlq[m] => m \notin handled]_vars

\* "Max concurrent messages": handlers of one adapter running at a time.
InFlightBounded ==
    \A a \in Adapters :
        Cardinality({d \in Deliveries : by[d] = a /\ pc[d] = "handling"}) <= MaxInFlight

\* "Max retry attempts before DLQ": the first attempt and max_retries more.
AttemptsBounded == \A m \in Msgs : delivered[m] <= MaxRetries + 1

\* The stored error reaches the dead letter stream: a move that has read it gives
\* it to the entry, or leaves it in the hash.
ErrorReachesDlq ==
    [][\A a \in Adapters, m \in Msgs :
          Current(a, m) /\ dlqErr[a] /\ ~dlqErr'[a] => m \in errInfo' \/ dlq'[m] > dlq[m]]_vars
=============================================================================
