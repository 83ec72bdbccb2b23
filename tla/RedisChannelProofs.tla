------------------------- MODULE RedisChannelProofs -------------------------
(***************************************************************************)
(* Safety of RedisChannel for every number of adapters and messages, every *)
(* batch size and every configuration: type correctness, the inductive     *)
(* invariant IInv, and that the adapters implement AtLeastOnce.            *)
(***************************************************************************)
EXTENDS RedisChannel, TLAPS

USE ServerAssumption, ChannelAssumption

\* Message ids are positive integers; elsewhere Msgs is an opaque set.
LEMMA MsgsNat == Msgs \subseteq Nat \ {0} /\ (\A m \in Msgs : m <= MaxMsg)
  BY DEF Msgs

LEMMA InitTypeOK == Init => TypeOK
  <1> SUFFICES ASSUME Init PROVE TypeOK
    OBVIOUS
  <1>1. ServerTypeOK
    <2> USE DEF Init, ServerInit
    <2>1. published \in 0 .. MaxMsg /\ lastId \in 0 .. MaxMsg
      OBVIOUS
    <2>2. group \in BOOLEAN
      OBVIOUS
    <2>3. delivered \in [Msgs -> 0 .. MaxDeliveries]
      OBVIOUS
    <2> QED
      BY <2>1, <2>2, <2>3 DEF ServerTypeOK
  <1> QED
    BY <1>1 DEF Init, TypeOK, AdapterTypeOK, LifeStates, Live

(* The commands of the server keep its part of the type invariant. *)
LEMMA CommandType ==
  ASSUME ServerTypeOK, \A m \in idle : delivered[m] < MaxDeliveries
  PROVE  /\ \A len : XADD(len) => ServerTypeOK'
         /\ XGROUP_CREATE => ServerTypeOK'
         /\ \A hi : XREADGROUP(hi) => ServerTypeOK'
         /\ \A start, hi : XAUTOCLAIM(start, hi) => ServerTypeOK'
         /\ \A m \in Msgs : XACK(m) => ServerTypeOK'
         /\ \A m \in Msgs : HSET(m) => ServerTypeOK'
         /\ \A m \in Msgs : DEL(m) => ServerTypeOK'
         /\ \A m \in Msgs : XADD_DLQ(m) => ServerTypeOK'
         /\ \A m \in Msgs : IdleTimePasses(m) => ServerTypeOK'
  <1> USE MsgsNat DEF ServerTypeOK, streamVars, groupVars, errVars, dlqVars
  <1>1. ASSUME NEW len, XADD(len) PROVE ServerTypeOK'
    <2>1. published + 1 \in Msgs
      BY <1>1 DEF XADD, Msgs
    <2>2. published' \in 0 .. MaxMsg
      BY <1>1 DEF XADD
    <2>3. stream' \subseteq Msgs
      BY <1>1, <2>1 DEF XADD, Newest
    <2> QED
      BY <1>1, <2>2, <2>3 DEF XADD
  <1>2. ASSUME XGROUP_CREATE PROVE ServerTypeOK'
    BY <1>2 DEF XGROUP_CREATE
  <1>3. ASSUME NEW hi, XREADGROUP(hi) PROVE ServerTypeOK'
    <2>1. hi \in Msgs /\ ReadBatch(hi) \subseteq Msgs
      BY <1>3 DEF XREADGROUP, Undelivered, ReadBatch
    <2>2. lastId' \in 0 .. MaxMsg
      BY <1>3, <2>1 DEF XREADGROUP
    <2>3. delivered' \in [Msgs -> 0 .. MaxDeliveries]
      BY <1>3 DEF XREADGROUP
    <2> QED
      BY <1>3, <2>1, <2>2, <2>3 DEF XREADGROUP
  <1>4. ASSUME NEW start, NEW hi, XAUTOCLAIM(start, hi) PROVE ServerTypeOK'
    <2>1. \A m \in Claimed(start, hi) : m \in idle /\ delivered[m] + 1 \in 0 .. MaxDeliveries
      BY DEF Claimed, Claimable
    <2> QED
      BY <1>4, <2>1 DEF XAUTOCLAIM
  <1>5. ASSUME NEW m \in Msgs, XACK(m) PROVE ServerTypeOK'
    BY <1>5 DEF XACK
  <1>6. ASSUME NEW m \in Msgs, HSET(m) PROVE ServerTypeOK'
    BY <1>6 DEF HSET
  <1>7. ASSUME NEW m \in Msgs, DEL(m) PROVE ServerTypeOK'
    BY <1>7 DEF DEL
  <1>8. ASSUME NEW m \in Msgs, XADD_DLQ(m) PROVE ServerTypeOK'
    BY <1>8 DEF XADD_DLQ
  <1>9. ASSUME NEW m \in Msgs, IdleTimePasses(m) PROVE ServerTypeOK'
    BY <1>9 DEF IdleTimePasses
  <1> QED
    BY <1>1, <1>2, <1>3, <1>4, <1>5, <1>6, <1>7, <1>8, <1>9

-----------------------------------------------------------------------------
(* A step of the whole system, seen from the server: one command, issued    *)
(* when what it stands for is true, or a handler that returns.              *)
ServerStep ==
    \/ /\ handled' = handled
       /\ \/ UNCHANGED serverVars
          \/ \E len \in TrimLens : XADD(len)
          \/ XGROUP_CREATE
          \/ \E hi : XREADGROUP(hi)
          \/ \E start, hi : XAUTOCLAIM(start, hi)
          \/ \E m \in handled \cup Malformed \cup {k \in Msgs : dlq[k] > 0} : XACK(m)
          \/ \E m \in Msgs : HSET(m)
          \/ \E m \in Msgs : DEL(m)
          \/ \E m \in Msgs : m <= lastId /\ delivered[m] >= MaxRetries /\ XADD_DLQ(m)
          \/ \E m \in Msgs : IdleTimePasses(m)
    \/ /\ UNCHANGED serverVars
       /\ \E m \in Msgs : m <= lastId /\ delivered[m] > 0 /\ handled' = handled \cup {m}

LEMMA DeliveryType ==
  ASSUME NEW d \in Deliveries
  PROVE  d[1] \in Msgs /\ d[2] \in 1 .. MaxDeliveries
  BY DEF Deliveries

LEMMA TaskServerStep ==
  ASSUME IInv, NEW a \in Adapters, TaskStep(a)
  PROVE  ServerStep
  <1> PICK d \in Deliveries : ProcessStep(d, a) \/ CommandFails(d, a)
    BY DEF TaskStep
  <1> d[1] \in Msgs /\ d[2] \in 1 .. MaxDeliveries
    BY DeliveryType
  <1>1. CASE ProcessStart(d, a)
    BY <1>1 DEF ProcessStart, ServerStep
  <1>2. CASE HandlerReturns(d, a)
    <2>1. d[1] <= lastId /\ d[2] <= delivered[d[1]]
      BY <1>2 DEF HandlerReturns, Task, IInv, TaskInv
    <2>2. delivered[d[1]] > 0
      BY <2>1 DEF IInv, TypeOK, ServerTypeOK
    <2> QED
      BY <1>2, <2>1, <2>2 DEF HandlerReturns, ServerStep
  <1>3. CASE HandlerRaises(d, a)
    BY <1>3 DEF HandlerRaises, ServerStep
  <1>4. CASE ProcessAck(d, a)
    <2>1. d[1] \in handled
      BY <1>4 DEF ProcessAck, Task, IInv, TaskInv
    <2> QED
      BY <1>4, <2>1 DEF ProcessAck, ServerStep
  <1>5. CASE ProcessDelete(d, a)
    BY <1>5 DEF ProcessDelete, ServerStep
  <1>6. CASE DropMalformed(d, a)
    <2>1. d[1] \in Malformed
      BY <1>6 DEF DropMalformed, Task, IInv, TaskInv
    <2> QED
      BY <1>6, <2>1 DEF DropMalformed, ServerStep
  <1>7. CASE StoreError(d, a)
    BY <1>7 DEF StoreError, ServerStep
  <1>8. CASE ExpireError(d, a)
    BY <1>8 DEF ExpireError, ServerStep
  <1>9. CASE CommandFails(d, a)
    BY <1>9 DEF CommandFails, Command, ServerStep
  <1> QED
    BY <1>1, <1>2, <1>3, <1>4, <1>5, <1>6, <1>7, <1>8, <1>9 DEF ProcessStep

LEMMA MoveServerStep ==
  ASSUME IInv, NEW a \in Adapters, MoveToDlq(a)
  PROVE  ServerStep
  <1> PICK m \in Msgs :
        \/ MoveXrange(a, m) \/ MoveHgetall(a, m) \/ MoveDelete(a, m)
        \/ MoveXadd(a, m) \/ MoveXack(a, m)
    BY DEF MoveToDlq
  <1> handled' = handled
    BY DEF MoveToDlq
  <1>1. CASE MoveXrange(a, m)
    BY <1>1 DEF MoveXrange, ServerStep
  <1>2. CASE MoveHgetall(a, m)
    BY <1>2 DEF MoveHgetall, ServerStep
  <1>3. CASE MoveDelete(a, m)
    BY <1>3 DEF MoveDelete, ServerStep
  <1>4. CASE MoveXadd(a, m)
    <2>1. m <= lastId /\ delivered[m] >= MaxRetries
      BY <1>4 DEF MoveXadd, Move, Current, IInv, MoveInv
    <2>2. dlqErr[a] \in BOOLEAN
      BY DEF IInv, TypeOK, AdapterTypeOK
    <2> QED
      BY <1>4, <2>1, <2>2 DEF MoveXadd, ServerStep
  <1>5. CASE MoveXack(a, m)
    <2>1. dlq[m] > 0
      BY <1>5 DEF MoveXack, Move, Current, IInv, MoveInv
    <2> QED
      BY <1>5, <2>1 DEF MoveXack, ServerStep
  <1> QED
    BY <1>1, <1>2, <1>3, <1>4, <1>5

LEMMA AdapterServerStep ==
  ASSUME IInv, NEW a \in Adapters, AdapterStep(a)
  PROVE  ServerStep
  <1>1. CASE MoveToDlq(a)
    BY <1>1, MoveServerStep
  <1>2. CASE Subscribe(a) \/ SubscribeFails(a)
    BY <1>2 DEF Subscribe, SubscribeFails, ServerStep
  <1>3. CASE ReadDeliver(a)
    BY <1>3 DEF ReadDeliver, ServerStep
  <1>4. CASE ClaimDeliver(a)
    BY <1>4 DEF ClaimDeliver, ServerStep
  <1>5. CASE \/ ReadDispatch(a) \/ ReadFails(a) \/ ReadExit(a)
            \/ ClaimDispatch(a) \/ ClaimFails(a) \/ DlqScan(a)
            \/ \E m \in Msgs : MoveFails(a, m)
    BY <1>5 DEF ReadDispatch, ReadFails, ReadExit, ClaimDispatch, ClaimFails,
                DlqScan, MoveFails, ServerStep
  <1>6. CASE \/ UnsubscribeBegin(a) \/ UnsubscribeEnd(a) \/ DisconnectBegin(a)
            \/ DisconnectEnd(a) \/ Crash(a)
    BY <1>6 DEF UnsubscribeBegin, UnsubscribeEnd, DisconnectBegin, DisconnectEnd, Crash,
                ServerStep
  <1> QED
    BY <1>1, <1>2, <1>3, <1>4, <1>5, <1>6 DEF AdapterStep

(* Every step of the system is such a step, or leaves everything alone. *)
LEMMA EveryServerStep == IInv /\ [Next]_vars => ServerStep
  <1> SUFFICES ASSUME IInv, [Next]_vars PROVE ServerStep
    OBVIOUS
  <1>1. CASE \E len \in TrimLens : Publish(len)
    BY <1>1 DEF Publish, ServerStep
  <1>2. CASE \E a \in Adapters : AdapterStep(a) \/ TaskStep(a)
    BY <1>2, AdapterServerStep, TaskServerStep
  <1>3. CASE \E m \in Msgs : Age(m)
    BY <1>3 DEF Age, ServerStep
  <1>4. CASE UNCHANGED vars
    BY <1>4 DEF vars, ServerStep
  <1> QED
    BY <1>1, <1>2, <1>3, <1>4 DEF Next

-----------------------------------------------------------------------------
(* Nothing that a task or a move remembers is ever taken back. *)
Grows ==
    /\ lastId <= lastId'
    /\ handled \subseteq handled'
    /\ \A m \in Msgs : delivered[m] <= delivered'[m] /\ dlq[m] <= dlq'[m]

ServerInv == ServerTypeOK /\ GroupInv /\ NoLoss /\ RetriesBeforeDlq

LEMMA ServerStepInv ==
  ASSUME IInv, ServerStep
  PROVE  ServerInv' /\ Grows
  <1> USE MsgsNat DEF streamVars, groupVars, errVars, dlqVars
  <1>0. /\ ServerTypeOK /\ GroupInv /\ NoLoss /\ RetriesBeforeDlq
        /\ handled \subseteq Msgs
    BY DEF IInv, TypeOK, AdapterTypeOK
  <1> DEFINE Idle == \A m \in idle : delivered[m] < MaxDeliveries
  <1>t. Idle
    BY <1>0 DEF GroupInv
  <1>1. ASSUME UNCHANGED <<serverVars, handled>> PROVE ServerInv' /\ Grows
    BY <1>0, <1>1 DEF ServerInv, ServerTypeOK, GroupInv, NoLoss, RetriesBeforeDlq, Grows,
                      serverVars, Published
  <1>2. ASSUME NEW len \in TrimLens, XADD(len), handled' = handled
        PROVE  ServerInv' /\ Grows
    <2> USE <1>0, <1>2 DEF XADD
    <2>1. ServerTypeOK'
      BY <1>t, CommandType
    <2>2. GroupInv'
      <3>1. \A m \in stream' : m <= published'
        BY DEF GroupInv, ServerTypeOK, Newest
      <3>2. ASSUME TrimLens = {0} PROVE Published' \subseteq stream'
        <4>1. stream' = stream \cup {published + 1}
          BY <3>2
        <4>2. ASSUME NEW m \in Msgs, m <= published + 1 PROVE m \in stream'
          BY <3>2, <4>1, <4>2 DEF GroupInv, ServerTypeOK, Published
        <4> QED
          BY <4>2 DEF Published
      <3>3. lastId' <= published'
        BY DEF GroupInv, ServerTypeOK
      <3> QED
        BY <3>1, <3>2, <3>3 DEF GroupInv
    <2>3. NoLoss'
      BY DEF NoLoss, GroupInv, ServerTypeOK, Newest, Published
    <2>4. RetriesBeforeDlq' /\ Grows
      BY DEF RetriesBeforeDlq, Grows, ServerTypeOK
    <2> QED
      BY <2>1, <2>2, <2>3, <2>4 DEF ServerInv
  <1>3. ASSUME XGROUP_CREATE, handled' = handled PROVE ServerInv' /\ Grows
    <2> USE <1>0, <1>3 DEF XGROUP_CREATE
    <2>0. lastId' = lastId
      BY DEF GroupInv
    <2>1. ServerTypeOK'
      BY <1>t, CommandType
    <2>2. GroupInv'
      BY <2>0 DEF GroupInv, Published
    <2>3. NoLoss'
      BY <2>0 DEF NoLoss, Published
    <2>4. RetriesBeforeDlq' /\ Grows
      BY <2>0 DEF RetriesBeforeDlq, Grows, ServerTypeOK
    <2> QED
      BY <2>1, <2>2, <2>3, <2>4 DEF ServerInv
  <1>4. ASSUME NEW hi, XREADGROUP(hi), handled' = handled PROVE ServerInv' /\ Grows
    <2> USE <1>0, <1>4 DEF XREADGROUP, Undelivered, ReadBatch
    <2>0. /\ hi \in Msgs /\ hi > lastId /\ hi <= published
          /\ \A m \in ReadBatch(hi) : m \in Msgs /\ delivered[m] = 0 /\ m \notin pel
      BY DEF GroupInv, ServerTypeOK
    <2>1. ServerTypeOK'
      BY <1>t, CommandType
    <2>2. GroupInv'
      BY <2>0 DEF GroupInv, ServerTypeOK, Published
    <2>3. NoLoss'
      BY <2>0 DEF NoLoss, Published, ServerTypeOK
    <2>4. Grows
      BY <2>0 DEF Grows, ServerTypeOK
    <2>5. RetriesBeforeDlq'
      BY <2>4 DEF RetriesBeforeDlq, Grows, ServerTypeOK
    <2> QED
      BY <2>1, <2>2, <2>3, <2>4, <2>5 DEF ServerInv
  <1>5. ASSUME NEW start, NEW hi, XAUTOCLAIM(start, hi), handled' = handled
        PROVE  ServerInv' /\ Grows
    <2> USE <1>0, <1>5 DEF XAUTOCLAIM
    <2>0. /\ \A m \in Purged(start, hi) : m \notin stream
          /\ \A m \in Claimed(start, hi) : m \in idle /\ m \in pel /\ m \in stream
      BY DEF Purged, Claimed, Claimable
    <2>1. ServerTypeOK'
      BY <1>t, CommandType
    <2>2. GroupInv'
      BY <2>0 DEF GroupInv, ServerTypeOK, Published
    <2>3. NoLoss'
      BY <2>0 DEF NoLoss, Published
    <2>4. Grows
      BY <2>0 DEF Grows, ServerTypeOK
    <2>5. RetriesBeforeDlq'
      BY <2>4 DEF RetriesBeforeDlq, Grows, ServerTypeOK
    <2> QED
      BY <2>1, <2>2, <2>3, <2>4, <2>5 DEF ServerInv
  <1>6. ASSUME NEW m \in handled \cup Malformed \cup {k \in Msgs : dlq[k] > 0}, XACK(m),
               handled' = handled
        PROVE  ServerInv' /\ Grows
    <2> USE <1>0, <1>6 DEF XACK
    <2>1. ServerTypeOK'
      BY <1>t, CommandType
    <2>2. GroupInv'
      BY DEF GroupInv, Published
    <2>3. NoLoss'
      BY DEF NoLoss, Published
    <2>4. RetriesBeforeDlq' /\ Grows
      BY DEF RetriesBeforeDlq, Grows, ServerTypeOK
    <2> QED
      BY <2>1, <2>2, <2>3, <2>4 DEF ServerInv
  <1>7. ASSUME NEW m \in Msgs, HSET(m) \/ DEL(m),
               handled' = handled
        PROVE  ServerInv' /\ Grows
    <2> USE <1>0, <1>7 DEF HSET, DEL
    <2>1. ServerTypeOK'
      BY <1>t, CommandType
    <2>2. GroupInv'
      BY DEF GroupInv, Published
    <2>3. NoLoss'
      BY DEF NoLoss, Published
    <2>4. RetriesBeforeDlq' /\ Grows
      BY DEF RetriesBeforeDlq, Grows, ServerTypeOK
    <2> QED
      BY <2>1, <2>2, <2>3, <2>4 DEF ServerInv
  <1>8. ASSUME NEW m \in Msgs, delivered[m] >= MaxRetries, XADD_DLQ(m),
               handled' = handled
        PROVE  ServerInv' /\ Grows
    <2> USE <1>0, <1>8 DEF XADD_DLQ
    <2>0. \A k \in Msgs : dlq'[k] >= dlq[k] /\ (k # m => dlq'[k] = dlq[k])
      BY DEF ServerTypeOK
    <2>1. ServerTypeOK'
      BY <1>t, CommandType
    <2>2. GroupInv'
      BY DEF GroupInv, Published
    <2>3. NoLoss'
      BY <2>0 DEF NoLoss, Published, ServerTypeOK
    <2>4. RetriesBeforeDlq' /\ Grows
      BY <2>0 DEF RetriesBeforeDlq, Grows, ServerTypeOK
    <2> QED
      BY <2>1, <2>2, <2>3, <2>4 DEF ServerInv
  <1>9. ASSUME NEW m \in Msgs, IdleTimePasses(m), handled' = handled PROVE ServerInv' /\ Grows
    <2> USE <1>0, <1>9 DEF IdleTimePasses
    <2>1. ServerTypeOK'
      BY <1>t, CommandType
    <2>2. GroupInv'
      BY DEF GroupInv, Published
    <2>3. NoLoss'
      BY DEF NoLoss, Published
    <2>4. RetriesBeforeDlq' /\ Grows
      BY DEF RetriesBeforeDlq, Grows, ServerTypeOK
    <2> QED
      BY <2>1, <2>2, <2>3, <2>4 DEF ServerInv
  <1>10. ASSUME UNCHANGED serverVars,
                NEW m \in Msgs, m <= lastId, handled' = handled \cup {m}
         PROVE  ServerInv' /\ Grows
    BY <1>0, <1>10 DEF ServerInv, ServerTypeOK, GroupInv, NoLoss, RetriesBeforeDlq, Grows,
                       serverVars, Published
  <1> QED
    BY <1>1, <1>2, <1>3, <1>4, <1>5, <1>6, <1>7, <1>8, <1>9, <1>10 DEF ServerStep

LEMMA ServerInvStep == IInv /\ [Next]_vars => ServerInv' /\ Grows
  BY EveryServerStep, ServerStepInv

-----------------------------------------------------------------------------
(* The adapters' part of the invariant.                                      *)
OthersSame == UNCHANGED <<life, readLoop, claimLoop, cursor, claimNext,
                          dlqLoop, dlqTodo, dlqErr>>

LEMMA DropType ==
  ASSUME AdapterTypeOK, NEW D, Drop(D)
  PROVE  /\ pc' \in [Deliveries -> Live \cup {"none", "over"}]
         /\ by' \in [Deliveries -> Adapters \cup {Nobody}]
  BY DEF AdapterTypeOK, Drop

LEMMA SendType ==
  ASSUME AdapterTypeOK, NEW a \in Adapters, NEW D, Send(a, D)
  PROVE  /\ pc' \in [Deliveries -> Live \cup {"none", "over"}]
         /\ by' \in [Deliveries -> Adapters \cup {Nobody}]
         /\ active' \in [Adapters -> SUBSET Msgs]
  BY DEF AdapterTypeOK, Send, Live

LEMMA CreateType ==
  ASSUME AdapterTypeOK, NEW D, Create(D)
  PROVE  /\ pc' \in [Deliveries -> Live \cup {"none", "over"}]
         /\ by' \in [Deliveries -> Adapters \cup {Nobody}]
         /\ active' \in [Adapters -> SUBSET Msgs]
  BY DEF AdapterTypeOK, Create, Live

LEMMA CancelType ==
  ASSUME AdapterTypeOK, NEW a \in Adapters, CancelLoops(a), NEW to \in LifeStates,
         life' = [life EXCEPT ![a] = to], UNCHANGED <<active, handled, faults>>,
         cursor' \in [Adapters -> Nat]
  PROVE  AdapterTypeOK'
  <1>1. Drop(SentTo(a, Deliveries))
    BY DEF CancelLoops
  <1> QED
    BY <1>1, DropType DEF AdapterTypeOK, CancelLoops

LEMMA TaskType ==
  ASSUME TypeOK, NEW a \in Adapters, TaskStep(a)
  PROVE  AdapterTypeOK'
  <1> PICK d \in Deliveries : ProcessStep(d, a) \/ CommandFails(d, a)
    BY DEF TaskStep
  <1> d[1] \in Msgs /\ d[2] \in 1 .. MaxDeliveries
    BY DeliveryType
  <1> AdapterTypeOK
    BY DEF TypeOK
  <1> USE DEF loopVars, Live, Running
  <1>f. ASSUME Finish(d, a), OthersSame, handled' = handled, faults' \in 0 .. MaxFaults
        PROVE  AdapterTypeOK'
    <2>1. Drop({d})
      BY <1>f DEF Finish
    <2> QED
      BY <1>f, <2>1, DropType DEF AdapterTypeOK, Finish, RemoveActive, OthersSame
  <1>g. ASSUME NEW to \in Running, Goto(d, to), OthersSame, handled' \subseteq Msgs,
               faults' \in 0 .. MaxFaults
        PROVE  AdapterTypeOK'
    BY <1>g DEF AdapterTypeOK, Goto, OthersSame
  <1>u. UNCHANGED faults => faults' \in 0 .. MaxFaults
    BY DEF AdapterTypeOK
  <1>h. handled' = handled => handled' \subseteq Msgs
    BY DEF AdapterTypeOK
  <1>1. CASE ProcessStart(d, a)
    <2>1. CASE Connected(a)
      BY <1>1, <2>1 DEF AdapterTypeOK, ProcessStart, AddActive
    <2>2. CASE ~Connected(a)
      <3>1. Drop({d})
        BY <1>1, <2>2 DEF ProcessStart
      <3> QED
        BY <1>1, <2>2, <3>1, DropType DEF AdapterTypeOK, ProcessStart
    <2> QED
      BY <2>1, <2>2
  <1>2. CASE HandlerReturns(d, a)
    <2>1. handled' \subseteq Msgs
      BY <1>2 DEF HandlerReturns, AdapterTypeOK
    <2> QED
      BY <1>2, <2>1, <1>g, <1>u DEF HandlerReturns, OthersSame
  <1>3. CASE HandlerRaises(d, a)
    BY <1>3, <1>g, <1>u, <1>h DEF HandlerRaises, OthersSame
  <1>4. CASE ProcessAck(d, a) \/ StoreError(d, a)
    BY <1>4, <1>g, <1>u, <1>h DEF ProcessAck, StoreError, OthersSame
  <1>5. CASE ProcessDelete(d, a) \/ DropMalformed(d, a) \/ ExpireError(d, a)
    BY <1>5, <1>f, <1>u DEF ProcessDelete, DropMalformed, ExpireError, OthersSame
  <1>6. CASE CommandFails(d, a)
    <2>1. faults' \in 0 .. MaxFaults
      BY <1>6 DEF CommandFails, Command, Fault, AdapterTypeOK
    <2>2. handled' = handled /\ OthersSame
      BY <1>6 DEF CommandFails, Command, OthersSame
    <2>3. Finish(d, a) \/ Goto(d, "failing")
      BY <1>6 DEF CommandFails, Command
    <2> QED
      BY <2>1, <2>2, <2>3, <1>f, <1>g, <1>h
  <1> QED
    BY <1>1, <1>2, <1>3, <1>4, <1>5, <1>6 DEF ProcessStep

LEMMA MoveType ==
  ASSUME TypeOK, NEW a \in Adapters, NEW m \in Msgs,
         \/ MoveXrange(a, m) \/ MoveHgetall(a, m) \/ MoveDelete(a, m)
         \/ MoveXadd(a, m) \/ MoveXack(a, m) \/ NextMove(a, m)
  PROVE  /\ dlqLoop' \in [Adapters -> {"off", "sleep", "xrange", "hgetall", "delete",
                                       "xadd", "xack"}]
         /\ dlqTodo' \in [Adapters -> SUBSET Msgs]
         /\ dlqErr' \in [Adapters -> BOOLEAN]
  <1> USE DEF TypeOK, AdapterTypeOK
  <1>1. CASE NextMove(a, m)
    BY <1>1 DEF NextMove
  <1>2. CASE MoveXrange(a, m)
    BY <1>1, <1>2 DEF MoveXrange, MoveGoto
  <1>3. CASE MoveHgetall(a, m)
    BY <1>3 DEF MoveHgetall, MoveGoto
  <1>4. CASE MoveDelete(a, m) \/ MoveXadd(a, m)
    BY <1>4 DEF MoveDelete, MoveXadd, MoveGoto
  <1>5. CASE MoveXack(a, m)
    BY <1>1, <1>5 DEF MoveXack
  <1> QED
    BY <1>1, <1>2, <1>3, <1>4, <1>5

LEMMA AdapterType ==
  ASSUME TypeOK, NEW a \in Adapters, AdapterStep(a)
  PROVE  AdapterTypeOK'
  <1> USE DEF TypeOK, readVars, claimVars, moveVars, loopVars, taskVars
  <1>1. CASE Subscribe(a)
    BY <1>1 DEF Subscribe, AdapterTypeOK, LifeStates
  <1>2. CASE ReadDeliver(a)
    <2>1. PICK D : Send(a, D)
      BY <1>2 DEF ReadDeliver
    <2> QED
      BY <1>2, <2>1, SendType DEF ReadDeliver, AdapterTypeOK
  <1>3. CASE ReadDispatch(a)
    <2>1. Create(SentTo(a, First))
      BY <1>3 DEF ReadDispatch
    <2> QED
      BY <1>3, <2>1, CreateType DEF ReadDispatch, AdapterTypeOK
  <1>4. CASE ReadFails(a)
    <2>1. Drop(SentTo(a, First))
      BY <1>4 DEF ReadFails
    <2> QED
      BY <1>4, <2>1, DropType DEF ReadFails, Fault, AdapterTypeOK
  <1>5. CASE ReadExit(a)
    BY <1>5 DEF ReadExit, AdapterTypeOK
  <1>6. CASE ClaimDeliver(a)
    <2>1. PICK hi, D :
            /\ hi \in 0 .. MaxMsg
            /\ Send(a, D) /\ claimNext' = [claimNext EXCEPT ![a] = NextCursor(hi)]
      BY <1>6 DEF ClaimDeliver
    <2>2. NextCursor(hi) \in Nat
      BY <2>1 DEF NextCursor
    <2> QED
      BY <1>6, <2>1, <2>2, SendType DEF ClaimDeliver, AdapterTypeOK
  <1>7. CASE ClaimDispatch(a)
    <2>1. Create(SentTo(a, Again))
      BY <1>7 DEF ClaimDispatch
    <2> QED
      BY <1>7, <2>1, CreateType DEF ClaimDispatch, ClaimAgain, AdapterTypeOK
  <1>8. CASE ClaimFails(a)
    <2>1. Drop(SentTo(a, Again))
      BY <1>8 DEF ClaimFails
    <2> QED
      BY <1>8, <2>1, DropType DEF ClaimFails, ClaimAgain, Fault, AdapterTypeOK
  <1>9. CASE DlqScan(a)
    BY <1>9 DEF DlqScan, XPENDING, AdapterTypeOK, ServerTypeOK
  <1>10. CASE MoveToDlq(a)
    BY <1>10, MoveType DEF MoveToDlq, AdapterTypeOK
  <1>11. CASE \E m \in Msgs : MoveFails(a, m)
    BY <1>11, MoveType DEF MoveFails, Fault, AdapterTypeOK
  <1>12. CASE UnsubscribeBegin(a) \/ DisconnectEnd(a)
    BY <1>12 DEF UnsubscribeBegin, DisconnectEnd, AdapterTypeOK, LifeStates
  <1>13. CASE UnsubscribeEnd(a)
    <2>1. cursor' \in [Adapters -> Nat]
      BY <1>13 DEF UnsubscribeEnd, AdapterTypeOK
    <2> QED
      BY <1>13, <2>1, CancelType DEF UnsubscribeEnd, LifeStates
  <1>14. CASE DisconnectBegin(a)
    <2>1. cursor' \in [Adapters -> Nat]
      BY <1>14 DEF DisconnectBegin, AdapterTypeOK
    <2> QED
      BY <1>14, <2>1, CancelType DEF DisconnectBegin, LifeStates
  <1>15. CASE Crash(a)
    <2>1. PICK D : Drop(D)
      BY <1>15 DEF Crash
    <2> QED
      BY <1>15, <2>1, DropType DEF Crash, AdapterTypeOK, LifeStates
  <1>16. CASE SubscribeFails(a)
    BY <1>16 DEF SubscribeFails, Fault, AdapterTypeOK
  <1> QED
    BY <1>1, <1>2, <1>3, <1>4, <1>5, <1>6, <1>7, <1>8, <1>9, <1>10, <1>11, <1>12, <1>13,
       <1>14, <1>15, <1>16 DEF AdapterStep

LEMMA AdapterTypeStep == TypeOK /\ [Next]_vars => AdapterTypeOK'
  <1> SUFFICES ASSUME TypeOK, [Next]_vars PROVE AdapterTypeOK'
    OBVIOUS
  <1>1. CASE \E len \in TrimLens : Publish(len)
    BY <1>1 DEF Publish, TypeOK, AdapterTypeOK, taskVars, loopVars
  <1>2. CASE \E a \in Adapters : AdapterStep(a) \/ TaskStep(a)
    BY <1>2, AdapterType, TaskType
  <1>3. CASE \E m \in Msgs : Age(m)
    BY <1>3 DEF Age, TypeOK, AdapterTypeOK, taskVars, loopVars
  <1>4. CASE UNCHANGED vars
    BY <1>4 DEF vars, TypeOK, AdapterTypeOK, taskVars, loopVars
  <1> QED
    BY <1>1, <1>2, <1>3, <1>4 DEF Next

-----------------------------------------------------------------------------
(* What a task carries across its awaits. *)
LEMMA TaskInvStep ==
  ASSUME IInv, [Next]_vars, ServerInv', Grows
  PROVE  TaskInv'
  <1>0. TypeOK /\ TaskInv
    BY DEF IInv
  \* It is enough to look at the deliveries whose task moves.
  <1>m. ASSUME NEW d \in Deliveries, pc[d] # "none"
        PROVE  d[1] <= lastId' /\ d[2] <= delivered'[d[1]]
    <2>0. d[1] \in Msgs /\ d[2] \in 1 .. MaxDeliveries
      BY DeliveryType
    <2>a. d[1] \in Nat
      BY <2>0, MsgsNat
    <2>b. d[2] \in Nat
      BY <2>0
    <2>1. d[1] \in Msgs /\ d[1] \in Nat /\ d[2] \in Nat
      BY <2>0, <2>a, <2>b
    <2>2. d[1] <= lastId /\ d[2] <= delivered[d[1]]
      BY <1>0, <1>m DEF TaskInv
    <2>3. lastId <= lastId' /\ delivered[d[1]] <= delivered'[d[1]]
      BY <2>1 DEF Grows
    <2>4. /\ lastId \in Nat /\ lastId' \in Nat
          /\ delivered[d[1]] \in Nat /\ delivered'[d[1]] \in Nat
      BY <1>0, <2>1 DEF TypeOK, ServerInv, ServerTypeOK
    <2> QED
      BY <2>1, <2>2, <2>3, <2>4
  <1>s. ASSUME NEW d \in Deliveries, pc'[d] = pc[d]
        PROVE  /\ pc'[d] # "none" => d[1] <= lastId' /\ d[2] <= delivered'[d[1]]
               /\ pc'[d] \in {"acking", "cleanup"} => d[1] \in handled'
               /\ pc'[d] = "dropping" => d[1] \in Malformed
    BY <1>0, <1>m, <1>s DEF TaskInv, Grows
  <1>p. ASSUME UNCHANGED pc PROVE TaskInv'
    BY <1>p, <1>s DEF TaskInv
  <1>d. ASSUME NEW D, Drop(D), \A d \in D : pc[d] # "none" PROVE TaskInv'
    <2> SUFFICES ASSUME NEW d \in Deliveries, d \in D
                 PROVE  /\ pc'[d] = "over"
                        /\ d[1] <= lastId' /\ d[2] <= delivered'[d[1]]
      BY <1>d, <1>s DEF TaskInv, Drop
    <2> QED
      BY <1>d, <1>m DEF Drop
  <1>c. ASSUME NEW a \in Adapters, NEW D \in SUBSET Deliveries, Create(SentTo(a, D))
        PROVE  TaskInv'
    <2> SUFFICES ASSUME NEW d \in SentTo(a, D)
                 PROVE  /\ pc'[d] = "created"
                        /\ d[1] <= lastId' /\ d[2] <= delivered'[d[1]]
      BY <1>c, <1>s DEF TaskInv, Create, SentTo
    <2> QED
      BY <1>c, <1>m DEF Create, SentTo
  \* A task goes on to a place whose claim about the message is true.
  <1>g. ASSUME NEW d \in Deliveries, pc[d] # "none", NEW to, pc' = [pc EXCEPT ![d] = to],
               to \in {"acking", "cleanup"} => d[1] \in handled',
               to = "dropping" => d[1] \in Malformed
        PROVE  TaskInv'
    <2>1. \A e \in Deliveries : e # d => pc'[e] = pc[e]
      BY <1>0, <1>g DEF TypeOK, AdapterTypeOK
    <2>2. pc'[d] = to
      BY <1>0, <1>g DEF TypeOK, AdapterTypeOK
    <2> QED
      BY <1>g, <1>m, <1>s, <2>1, <2>2 DEF TaskInv
  \* The server has counted a delivery when it sends it.
  <1>e. ASSUME NEW a \in Adapters, NEW D, Send(a, D),
               \A d \in D : d[1] <= lastId' /\ d[2] <= delivered'[d[1]]
        PROVE  TaskInv'
    <2> SUFFICES ASSUME NEW d \in Deliveries, d \in D
                 PROVE  pc'[d] = "sent"
      BY <1>e, <1>s DEF TaskInv, Send
    <2> QED
      BY <1>e DEF Send
  <1>1. CASE \E len \in TrimLens : Publish(len)
    BY <1>1, <1>p DEF Publish, taskVars
  <1>2. CASE \E m \in Msgs : Age(m)
    BY <1>2, <1>p DEF Age, taskVars
  <1>3. CASE UNCHANGED vars
    BY <1>3, <1>p DEF vars, taskVars
  <1>4. ASSUME NEW a \in Adapters, AdapterStep(a) PROVE TaskInv'
    <2>1. CASE \/ Subscribe(a) \/ SubscribeFails(a) \/ ReadExit(a) \/ DlqScan(a)
              \/ MoveToDlq(a) \/ (\E m \in Msgs : MoveFails(a, m))
              \/ UnsubscribeBegin(a) \/ DisconnectEnd(a)
      BY <2>1, <1>p DEF Subscribe, SubscribeFails, ReadExit, DlqScan, MoveToDlq, MoveFails,
                        UnsubscribeBegin, DisconnectEnd, taskVars
    <2>2. CASE ReadDeliver(a)
      <3>1. PICK hi \in Undelivered :
              /\ XREADGROUP(hi)
              /\ Send(a, {d \in First : d[1] \in ReadBatch(hi)})
        BY <2>2 DEF ReadDeliver
      <3>2. ASSUME NEW d \in First, d[1] \in ReadBatch(hi)
            PROVE  d[1] <= lastId' /\ d[2] <= delivered'[d[1]]
        BY <3>1, <3>2, DeliveryType DEF First, XREADGROUP, ReadBatch
      <3> QED
        BY <3>1, <3>2, <1>e
    <2>3. CASE ClaimDeliver(a)
      <3>1. PICK hi \in 0 .. MaxMsg :
              /\ XAUTOCLAIM(cursor[a], hi)
              /\ Send(a, {d \in Again : /\ d[1] \in Claimed(cursor[a], hi)
                                        /\ d[2] = delivered[d[1]] + 1})
        BY <2>3 DEF ClaimDeliver
      <3>2. ASSUME NEW d \in Again, d[1] \in Claimed(cursor[a], hi),
                   d[2] = delivered[d[1]] + 1
            PROVE  d[1] <= lastId' /\ d[2] <= delivered'[d[1]]
        <4>1. d[1] \in pel /\ d[1] \in Msgs /\ d[2] \in Nat
          BY <3>2, DeliveryType DEF Again, Claimed, Claimable
        <4>2. delivered'[d[1]] = d[2]
          BY <3>1, <3>2, <4>1 DEF XAUTOCLAIM
        <4>3. d[1] <= lastId'
          BY <3>1, <4>1 DEF XAUTOCLAIM, IInv, GroupInv
        <4> QED
          BY <4>1, <4>2, <4>3
      <3> QED
        BY <3>1, <3>2, <1>e
    <2>4. CASE ReadDispatch(a) \/ ClaimDispatch(a)
      BY <2>4, <1>c DEF ReadDispatch, ClaimDispatch, First, Again
    <2>5. CASE ReadFails(a) \/ ClaimFails(a)
      BY <2>5, <1>d DEF ReadFails, ClaimFails, SentTo
    <2>6. CASE UnsubscribeEnd(a) \/ DisconnectBegin(a)
      BY <2>6, <1>d DEF UnsubscribeEnd, DisconnectBegin, CancelLoops, SentTo
    <2>7. CASE Crash(a)
      BY <2>7, <1>d DEF Crash, Live, Running
    <2> QED
      BY <1>4, <2>1, <2>2, <2>3, <2>4, <2>5, <2>6, <2>7 DEF AdapterStep
  <1>5. ASSUME NEW a \in Adapters, TaskStep(a) PROVE TaskInv'
    <2> PICK d \in Deliveries : ProcessStep(d, a) \/ CommandFails(d, a)
      BY <1>5 DEF TaskStep
    <2>1. CASE ProcessStart(d, a)
      BY <2>1, <1>d, <1>g DEF ProcessStart, Task
    <2>2. CASE HandlerReturns(d, a)
      BY <2>2, <1>g DEF HandlerReturns, Task, Goto
    <2>3. CASE HandlerRaises(d, a)
      BY <2>3, <1>g DEF HandlerRaises, Task, Goto
    <2>4. CASE ProcessAck(d, a)
      BY <2>4, <1>0, <1>g DEF ProcessAck, Task, Goto, TaskInv
    <2>5. CASE ProcessDelete(d, a) \/ DropMalformed(d, a) \/ ExpireError(d, a)
      BY <2>5, <1>d DEF ProcessDelete, DropMalformed, ExpireError, Task, Finish
    <2>6. CASE StoreError(d, a)
      BY <2>6, <1>g DEF StoreError, Task, Goto
    <2>7. CASE CommandFails(d, a)
      <3>1. pc[d] # "none" /\ (Drop({d}) \/ pc' = [pc EXCEPT ![d] = "failing"])
        BY <2>7 DEF CommandFails, Command, Finish, Goto, Running
      <3> QED
        BY <3>1, <1>d, <1>g
    <2> QED
      BY <2>1, <2>2, <2>3, <2>4, <2>5, <2>6, <2>7 DEF ProcessStep
  <1> QED
    BY <1>1, <1>2, <1>3, <1>4, <1>5 DEF Next

-----------------------------------------------------------------------------
(* What a move to the dead letter stream carries across its awaits. *)
LEMMA MoveInvStep ==
  ASSUME IInv, [Next]_vars, ServerInv', Grows
  PROVE  MoveInv'
  <1>0. TypeOK /\ MoveInv
    BY DEF IInv
  <1> DEFINE Fact(m) == m <= lastId' /\ delivered'[m] >= MaxRetries
  \* The moves of other adapters, and pages from which messages are taken.
  <1>s. ASSUME NEW a \in Adapters, dlqTodo'[a] \subseteq dlqTodo[a]
        PROVE  \A m \in dlqTodo'[a] : Fact(m)
    <2> SUFFICES ASSUME NEW m \in dlqTodo[a] PROVE Fact(m)
      BY <1>s
    <2>1. m \in Msgs /\ m \in Nat
      BY <1>0, MsgsNat DEF TypeOK, AdapterTypeOK
    <2>2. m <= lastId /\ delivered[m] >= MaxRetries
      BY <1>0 DEF MoveInv
    <2>3. lastId <= lastId' /\ delivered[m] <= delivered'[m]
      BY <2>1 DEF Grows
    <2>4. /\ lastId \in Nat /\ lastId' \in Nat
          /\ delivered[m] \in Nat /\ delivered'[m] \in Nat
      BY <1>0, <2>1 DEF TypeOK, ServerInv, ServerTypeOK
    <2> QED
      BY <2>1, <2>2, <2>3, <2>4
  <1>r. ASSUME NEW a \in Adapters, UNCHANGED <<dlqTodo[a], dlqLoop[a]>>
        PROVE  \A m \in dlqTodo'[a] :
                  Fact(m) /\ (dlqLoop'[a] = "xack" /\ Current(a, m)' => dlq'[m] > 0)
    <2> SUFFICES ASSUME NEW m \in dlqTodo[a], dlqLoop[a] = "xack", Current(a, m)
                 PROVE  dlq'[m] > 0
      BY <1>r, <1>s DEF Current
    <2>1. m \in Msgs
      BY <1>0 DEF TypeOK, AdapterTypeOK
    <2>2. dlq[m] > 0 /\ dlq[m] <= dlq'[m]
      BY <1>0, <2>1 DEF MoveInv, Grows
    <2> QED
      BY <1>0, <2>1, <2>2 DEF TypeOK, ServerInv, ServerTypeOK
  <1>k. ASSUME UNCHANGED <<dlqTodo, dlqLoop>> PROVE MoveInv'
    BY <1>k, <1>r DEF MoveInv
  \* One adapter's loop goes elsewhere than to the XACK of a move.
  <1>o. ASSUME NEW a \in Adapters, NEW to, to # "xack", NEW T,
               dlqLoop' = [dlqLoop EXCEPT ![a] = to], dlqTodo' = [dlqTodo EXCEPT ![a] = T],
               \A m \in T : Fact(m)
        PROVE  MoveInv'
    <2>1. dlqLoop'[a] # "xack" /\ dlqTodo'[a] = T
      BY <1>0, <1>o DEF TypeOK, AdapterTypeOK
    <2>2. \A b \in Adapters \ {a} : dlqLoop'[b] = dlqLoop[b] /\ dlqTodo'[b] = dlqTodo[b]
      BY <1>0, <1>o DEF TypeOK, AdapterTypeOK
    <2> QED
      BY <1>o, <1>r, <2>1, <2>2 DEF MoveInv
  <1>n. ASSUME NEW a \in Adapters, NEW m, NextMove(a, m) PROVE MoveInv'
    <2> DEFINE to == IF dlqTodo[a] \ {m} # {} THEN "xrange"
                     ELSE IF life[a] = "up" THEN "sleep" ELSE "off"
    <2>1. to # "xack" /\ dlqLoop' = [dlqLoop EXCEPT ![a] = to]
      BY <1>n DEF NextMove
    <2>2. dlqTodo' = [dlqTodo EXCEPT ![a] = dlqTodo[a] \ {m}]
      BY <1>n DEF NextMove
    <2>3. dlqTodo'[a] \subseteq dlqTodo[a] /\ dlqTodo'[a] = dlqTodo[a] \ {m}
      BY <1>0, <2>2 DEF TypeOK, AdapterTypeOK
    <2> QED
      BY <1>o, <1>s, <2>1, <2>2, <2>3
  <1>g. ASSUME NEW a \in Adapters, NEW to, to # "xack", MoveGoto(a, to) PROVE MoveInv'
    <2>1. dlqTodo' = [dlqTodo EXCEPT ![a] = dlqTodo[a]] /\ dlqTodo'[a] = dlqTodo[a]
      BY <1>0, <1>g DEF MoveGoto, TypeOK, AdapterTypeOK
    <2> QED
      BY <1>g, <1>o, <1>s, <2>1 DEF MoveGoto
  <1>1. CASE \E len \in TrimLens : Publish(len)
    BY <1>1, <1>k DEF Publish, loopVars
  <1>2. CASE \E m \in Msgs : Age(m)
    BY <1>2, <1>k DEF Age, loopVars
  <1>3. CASE UNCHANGED vars
    BY <1>3, <1>k DEF vars, loopVars
  <1>4. ASSUME NEW a \in Adapters, TaskStep(a) PROVE MoveInv'
    BY <1>4, <1>k DEF TaskStep, ProcessStep, ProcessStart, HandlerReturns, HandlerRaises,
       ProcessAck, ProcessDelete, DropMalformed, StoreError, ExpireError, CommandFails, Command,
       loopVars
  <1>5. ASSUME NEW a \in Adapters, AdapterStep(a) PROVE MoveInv'
    <2>1. CASE \/ ReadDeliver(a) \/ ReadDispatch(a) \/ ReadFails(a) \/ ReadExit(a)
              \/ ClaimDeliver(a) \/ ClaimDispatch(a) \/ ClaimFails(a)
              \/ SubscribeFails(a) \/ UnsubscribeBegin(a) \/ DisconnectEnd(a)
      BY <2>1, <1>k DEF ReadDeliver, ReadDispatch, ReadFails, ReadExit, ClaimDeliver,
         ClaimDispatch, ClaimFails, SubscribeFails, UnsubscribeBegin, DisconnectEnd,
         loopVars, moveVars
    <2>2. CASE Subscribe(a)
      <3> DEFINE to == IF DlqEnabled THEN "sleep" ELSE "off"
      <3>1. to # "xack" /\ dlqLoop' = [dlqLoop EXCEPT ![a] = to]
        BY <2>2 DEF Subscribe
      <3>2. dlqTodo' = [dlqTodo EXCEPT ![a] = dlqTodo[a]] /\ dlqTodo'[a] = dlqTodo[a]
        BY <1>0, <2>2 DEF Subscribe, TypeOK, AdapterTypeOK
      <3> QED
        BY <1>o, <1>s, <3>1, <3>2
    <2>3. CASE DlqScan(a)
      <3> DEFINE Exceeded == {m \in XPENDING : delivered[m] >= MaxRetries}
      <3> DEFINE to == IF Exceeded # {} THEN "xrange"
                       ELSE IF life[a] = "up" THEN "sleep" ELSE "off"
      <3>1. to # "xack" /\ dlqLoop' = [dlqLoop EXCEPT ![a] = to]
        BY <2>3 DEF DlqScan
      <3>2. dlqTodo' = [dlqTodo EXCEPT ![a] = Exceeded]
        BY <2>3 DEF DlqScan
      <3>3. UNCHANGED serverVars
        BY <2>3 DEF DlqScan
      <3>4. \A m \in Exceeded : Fact(m)
        BY <3>3 DEF serverVars, XPENDING, IInv, GroupInv
      <3> QED
        BY <1>o, <3>1, <3>2, <3>4
    <2>4. CASE MoveToDlq(a)
      <3> PICK m \in Msgs :
            \/ MoveXrange(a, m) \/ MoveHgetall(a, m) \/ MoveDelete(a, m)
            \/ MoveXadd(a, m) \/ MoveXack(a, m)
        BY <2>4 DEF MoveToDlq
      <3>1. CASE MoveXrange(a, m)
        BY <3>1, <1>n, <1>g DEF MoveXrange
      <3>2. CASE MoveHgetall(a, m) \/ MoveDelete(a, m)
        BY <3>2, <1>g DEF MoveHgetall, MoveDelete
      <3>3. CASE MoveXadd(a, m)
        <4>1. dlq'[m] > 0
          BY <1>0, <3>3 DEF MoveXadd, XADD_DLQ, TypeOK, ServerTypeOK
        <4>2. /\ dlqTodo' = dlqTodo /\ Current(a, m)
              /\ \A b \in Adapters \ {a} : dlqLoop'[b] = dlqLoop[b]
          BY <1>0, <3>3 DEF MoveXadd, Move, MoveGoto, TypeOK, AdapterTypeOK
        <4>3. \A k \in dlqTodo[a] : Current(a, k)' => k = m
          BY <1>0, <4>2, MsgsNat DEF Current, TypeOK, AdapterTypeOK
        <4>4. \A k \in dlqTodo'[a] :
                 Fact(k) /\ (dlqLoop'[a] = "xack" /\ Current(a, k)' => dlq'[k] > 0)
          BY <4>1, <4>2, <4>3, <1>s
        <4> QED
          BY <4>2, <4>4, <1>r DEF MoveInv
      <3>4. CASE MoveXack(a, m)
        BY <3>4, <1>n DEF MoveXack
      <3> QED
        BY <3>1, <3>2, <3>3, <3>4
    <2>5. CASE \E m \in Msgs : MoveFails(a, m)
      BY <2>5, <1>n DEF MoveFails
    <2>6. CASE UnsubscribeEnd(a) \/ DisconnectBegin(a) \/ Crash(a)
      <3>1. dlqLoop' = [dlqLoop EXCEPT ![a] = "off"] /\ dlqTodo' = [dlqTodo EXCEPT ![a] = {}]
        BY <2>6 DEF UnsubscribeEnd, DisconnectBegin, Crash, CancelLoops
      <3> QED
        BY <3>1, <1>o
    <2> QED
      BY <1>5, <2>1, <2>2, <2>3, <2>4, <2>5, <2>6 DEF AdapterStep
  <1> QED
    BY <1>1, <1>2, <1>3, <1>4, <1>5 DEF Next

-----------------------------------------------------------------------------
(* The theorems. *)
LEMMA InitIInv == Init => IInv
  <1> SUFFICES ASSUME Init PROVE IInv
    OBVIOUS
  <1> USE MsgsNat DEF Init, ServerInit
  <1>1. TypeOK
    BY InitTypeOK
  <1>d. \A m \in Msgs : ~ (m <= 0)
    BY MsgsNat
  <1>e. Published = {}
    BY <1>d DEF Published
  <1>2. GroupInv
    BY <1>e, InitTypeOK DEF GroupInv, TypeOK, ServerTypeOK
  <1>3. TaskInv
    BY DEF TaskInv
  <1>4. MoveInv
    BY DEF MoveInv
  <1>5. NoLoss
    BY DEF NoLoss, Published
  <1>6. RetriesBeforeDlq
    BY DEF RetriesBeforeDlq
  <1> QED
    BY <1>1, <1>2, <1>3, <1>4, <1>5, <1>6 DEF IInv

LEMMA NextIInv == IInv /\ [Next]_vars => IInv'
  <1> SUFFICES ASSUME IInv, [Next]_vars PROVE IInv'
    OBVIOUS
  <1>1. ServerInv' /\ Grows
    BY ServerInvStep
  <1>2. AdapterTypeOK'
    BY AdapterTypeStep DEF IInv
  <1>3. TaskInv' /\ MoveInv'
    BY <1>1, TaskInvStep, MoveInvStep
  <1> QED
    BY <1>1, <1>2, <1>3 DEF IInv, TypeOK, ServerInv

\* The inductive invariant holds in every state of every instance.
THEOREM Invariance == Spec => []IInv
  BY InitIInv, NextIInv, PTL DEF Spec

\* Every variable keeps to its type: no delivery is counted or tracked beyond
\* the bounds, no loop is at a place that does not exist.
THEOREM TypeCorrect == Spec => []TypeOK
  <1>1. IInv => TypeOK
    BY DEF IInv
  <1> QED
    BY <1>1, Invariance, PTL

\* At-least-once: no message leaves the group's care unless it was handled,
\* dead-lettered, without payload, or trimmed.
THEOREM NothingLost == Spec => []NoLoss
  <1>1. IInv => NoLoss
    BY DEF IInv
  <1> QED
    BY <1>1, Invariance, PTL

\* The dead letter stream holds only messages delivered max_retries times.
THEOREM DeadLettersRetried == Spec => []RetriesBeforeDlq
  <1>1. IInv => RetriesBeforeDlq
    BY DEF IInv
  <1> QED
    BY <1>1, Invariance, PTL

-----------------------------------------------------------------------------
(* The adapters and the server implement AtLeastOnce. *)
Owed == Undelivered \cup pel
Dead == {m \in Msgs : dlq[m] > 0}

LEMMA InitRefines == Init => Promise!Init
  <1> SUFFICES ASSUME Init PROVE Promise!Init
    OBVIOUS
  <1> USE MsgsNat DEF Init, ServerInit
  <1>d. \A m \in Msgs : ~ (m <= 0)
    BY MsgsNat
  <1>1. Published = {}
    BY <1>d DEF Published
  <1>2. Undelivered \cup pel = {}
    BY DEF Undelivered
  <1>3. {m \in Msgs : dlq[m] > 0} = {}
    OBVIOUS
  <1> QED
    BY <1>1, <1>2, <1>3 DEF Promise!Init

LEMMA StepRefines ==
  ASSUME IInv, ServerStep, ServerInv'
  PROVE  Promise!Next \/ UNCHANGED Promise!vars
  <1> USE MsgsNat DEF streamVars, groupVars, errVars, dlqVars, Promise!vars
  <1>0. /\ ServerTypeOK /\ GroupInv /\ handled \subseteq Msgs
        /\ ServerTypeOK' /\ GroupInv'
    BY DEF IInv, TypeOK, AdapterTypeOK, ServerInv
  <1>1. CASE UNCHANGED <<serverVars, handled>>
    BY <1>1 DEF serverVars, Published, Undelivered
  <1>2. ASSUME NEW len \in TrimLens, XADD(len), handled' = handled
        PROVE  Promise!Publish
    <2> DEFINE m == published + 1
               F == {k \in Owed \cup {m} : k \notin Owed'}
    <2> USE <1>0, <1>2 DEF XADD
    <2>1. m \in Msgs \ Published
      BY DEF Published, Msgs, ServerTypeOK
    <2>2. Published' = Published \cup {m}
      <3>1. \A k \in Msgs : k <= published + 1 <=> k <= published \/ k = published + 1
        BY DEF ServerTypeOK
      <3> QED
        BY <2>1, <3>1 DEF Published
    <2>3. stream' \subseteq stream \cup {m} /\ pel' = pel
      BY DEF Newest
    <2>4. Owed' = (Owed \cup {m}) \ F
      BY <2>3 DEF Owed, Undelivered
    <2>5. TrimLens = {0} => F = {}
      BY <2>1 DEF Owed, Undelivered, GroupInv, ServerTypeOK
    <2>6. F \in Promise!Forget(Owed \cup {m})
      BY <2>5 DEF Promise!Forget
    <2>7. UNCHANGED <<delivered, handled, Dead>>
      BY DEF Dead
    <2> QED
      BY <2>1, <2>2, <2>4, <2>6, <2>7 DEF Promise!Publish, Owed, Dead
  <1>3. ASSUME XGROUP_CREATE, handled' = handled PROVE UNCHANGED Promise!vars
    <2>1. lastId' = lastId
      BY <1>0, <1>3 DEF XGROUP_CREATE, GroupInv
    <2> QED
      BY <1>3, <2>1 DEF XGROUP_CREATE, Published, Undelivered
  <1>4. ASSUME NEW hi, XREADGROUP(hi), handled' = handled PROVE Promise!Attempt
    <2> DEFINE S == ReadBatch(hi)
    <2> USE <1>0, <1>4 DEF XREADGROUP
    <2>1. S \subseteq Owed /\ \A m \in S : m \in Msgs /\ delivered[m] = 0
      BY DEF ReadBatch, Owed, Undelivered, GroupInv, ServerTypeOK
    <2>2. delivered' = [m \in Msgs |-> IF m \in S THEN delivered[m] + 1 ELSE delivered[m]]
      BY <2>1 DEF ServerTypeOK
    <2>3. Owed' = Owed
      <3>1. hi \in Msgs /\ hi > lastId
        BY DEF Undelivered, ServerTypeOK
      <3>2. \A m \in stream : m > lastId <=> m \in S \/ m > hi
        BY <3>1 DEF ReadBatch, Undelivered, ServerTypeOK
      <3>3. S \subseteq stream /\ stream' = stream /\ lastId' = hi /\ pel' = pel \cup S
        BY DEF ReadBatch, Undelivered
      <3> HIDE <1>0, <1>4 DEF S, XREADGROUP
      <3> QED
        BY <3>2, <3>3 DEF Owed, Undelivered
    <2>4. {} \in Promise!Forget(Owed) /\ Owed' = Owed \ {}
      BY <2>3 DEF Promise!Forget
    <2>5. UNCHANGED <<Published, handled, Dead>>
      BY DEF Published, Dead
    <2> HIDE <1>0, <1>4 DEF S, XREADGROUP
    <2> QED
      BY <2>1, <2>2, <2>4, <2>5 DEF Promise!Attempt, Owed, Dead
  <1>5. ASSUME NEW start, NEW hi, XAUTOCLAIM(start, hi), handled' = handled
        PROVE  Promise!Attempt
    <2> DEFINE S == Claimed(start, hi)
               F == Purged(start, hi)
    <2> USE <1>0, <1>5 DEF XAUTOCLAIM
    <2>1. S \subseteq Owed
      BY DEF Claimed, Claimable, Owed
    <2>2. delivered' = [m \in Msgs |-> IF m \in S THEN delivered[m] + 1 ELSE delivered[m]]
      OBVIOUS
    <2>3. \A m \in F : m \in pel /\ m \notin stream
      BY DEF Purged, Claimable
    <2>4. Owed' = Owed \ F
      BY <2>3 DEF Owed, Undelivered
    <2>5. TrimLens = {0} => F = {}
      <3>1. \A m \in pel : m \in Published
        BY DEF GroupInv, ServerTypeOK, Published
      <3> QED
        BY <2>3, <3>1 DEF GroupInv
    <2>6. F \in Promise!Forget(Owed)
      BY <2>3, <2>5 DEF Promise!Forget, Owed
    <2>7. UNCHANGED <<Published, handled, Dead>>
      BY DEF Published, Dead
    <2> QED
      BY <2>1, <2>2, <2>4, <2>6, <2>7 DEF Promise!Attempt, Owed, Dead
  <1>6. ASSUME NEW m \in handled \cup Malformed \cup {k \in Msgs : dlq[k] > 0}, XACK(m),
               handled' = handled
        PROVE  Promise!Settle \/ UNCHANGED Promise!vars
    <2> USE <1>0, <1>6 DEF XACK
    <2>1. UNCHANGED <<Published, delivered, handled, Dead>>
      BY DEF Published, Dead
    <2>2. CASE m \in Undelivered
      <3>1. Owed' = Owed
        BY <2>2 DEF Owed, Undelivered, GroupInv, ServerTypeOK
      <3> QED
        BY <2>1, <3>1 DEF Owed, Dead
    <2>3. CASE m \notin Undelivered
      <3>1. Owed' = Owed \ {m}
        BY <2>3 DEF Owed, Undelivered
      <3> QED
        BY <2>1, <3>1 DEF Promise!Settle, Owed, Dead
    <2> QED
      BY <2>2, <2>3
  <1>7. ASSUME NEW m \in Msgs, HSET(m) \/ DEL(m),
               handled' = handled
        PROVE  UNCHANGED Promise!vars
    BY <1>7 DEF HSET, DEL, Published, Undelivered
  <1>8. ASSUME NEW m \in Msgs, m <= lastId, delivered[m] >= MaxRetries,
               XADD_DLQ(m), handled' = handled
        PROVE  Promise!DeadLetter
    <2> USE <1>0, <1>8 DEF XADD_DLQ
    <2>1. m \in Published
      BY DEF Published, GroupInv, ServerTypeOK
    <2>2. Dead' = Dead \cup {m}
      BY DEF Dead, ServerTypeOK
    <2>3. UNCHANGED <<Published, Owed, delivered, handled>>
      BY DEF Published, Owed, Undelivered
    <2> QED
      BY <2>1, <2>2, <2>3 DEF Promise!DeadLetter, Owed, Dead
  <1>9. ASSUME NEW m \in Msgs, IdleTimePasses(m), handled' = handled
        PROVE  UNCHANGED Promise!vars
    BY <1>9 DEF IdleTimePasses, Published, Undelivered
  <1>10. ASSUME UNCHANGED serverVars, NEW m \in Msgs, m <= lastId, delivered[m] > 0,
                handled' = handled \cup {m}
         PROVE  Promise!Handle
    <2>1. m \in Published
      BY <1>0, <1>10 DEF Published, GroupInv, ServerTypeOK
    <2> QED
      BY <1>10, <2>1 DEF Promise!Handle, serverVars, Published, Undelivered
  <1> QED
    BY <1>1, <1>2, <1>3, <1>4, <1>5, <1>6, <1>7, <1>8, <1>9, <1>10
    DEF ServerStep, Promise!Next

\* Each execution of the adapters is one of the abstract channel, seen through
\* the refinement mapping: messages are owed until handled or dead-lettered.
THEOREM Refinement == Spec => KeepsPromise
  <1>1. Init => Promise!Init
    BY InitRefines
  <1>2. IInv /\ [Next]_vars => [Promise!Next]_Promise!vars
    BY EveryServerStep, ServerInvStep, StepRefines
  <1> QED
    BY <1>1, <1>2, Invariance, PTL DEF Spec, KeepsPromise, Promise!Spec

-----------------------------------------------------------------------------
(* After the stop: no loop, no reply, no page *)

AtRest(a) == Stopped(a) \/ life[a] = "down"

LoopsOff(a) ==
    /\ ~readLoop[a] /\ claimLoop[a] = "off" /\ dlqLoop[a] = "off"
    /\ claimNext[a] = 0 /\ dlqTodo[a] = {}

NoneSent(a) == \A d \in Deliveries : by[d] = a => pc[d] # "sent"

\* An adapter that has not subscribed or has stopped has no loop, and none of
\* a loop's replies and pages.
StopInv == \A a \in Adapters : AtRest(a) => LoopsOff(a) /\ NoneSent(a)

\* A step that hands the adapter no delivery.
NothingSentTo(a) ==
    \A d \in Deliveries : by'[d] = a => by[d] = a /\ (pc'[d] = "sent" => pc[d] = "sent")

LoopsSame(a) ==
    /\ life'[a] = life[a] /\ readLoop'[a] = readLoop[a] /\ claimLoop'[a] = claimLoop[a]
    /\ dlqLoop'[a] = dlqLoop[a] /\ claimNext'[a] = claimNext[a] /\ dlqTodo'[a] = dlqTodo[a]

LEMMA DropSends ==
  ASSUME NEW D, Drop(D), NEW b \in Adapters
  PROVE  NothingSentTo(b)
  BY DEF Drop, NothingSentTo

LEMMA CreateSends ==
  ASSUME NEW D, Create(D), NEW b \in Adapters
  PROVE  NothingSentTo(b)
  BY DEF Create, NothingSentTo

LEMMA SendSends ==
  ASSUME NEW D, NEW a, NEW b \in Adapters, Send(a, D), a # b
  PROVE  NothingSentTo(b)
  BY DEF Send, NothingSentTo

LEMMA GotoSends ==
  ASSUME TypeOK, NEW d \in Deliveries, NEW to, to # "sent", by' = by,
         pc' = [pc EXCEPT ![d] = to], NEW b \in Adapters
  PROVE  NothingSentTo(b)
  BY DEF NothingSentTo, TypeOK, AdapterTypeOK

LEMMA TaskSends ==
  ASSUME TypeOK, NEW a \in Adapters, TaskStep(a), NEW b \in Adapters
  PROVE  NothingSentTo(b)
  <1> PICK d \in Deliveries : ProcessStep(d, a) \/ CommandFails(d, a)
    BY DEF TaskStep
  <1>1. CASE ProcessStart(d, a)
    <2>1. CASE Connected(a)
      BY <1>1, <2>1, GotoSends DEF ProcessStart
    <2>2. CASE ~Connected(a)
      BY <1>1, <2>2, DropSends DEF ProcessStart
    <2> QED
      BY <2>1, <2>2
  <1>2. CASE HandlerReturns(d, a) \/ HandlerRaises(d, a) \/ ProcessAck(d, a) \/ StoreError(d, a)
    BY <1>2, GotoSends DEF HandlerReturns, HandlerRaises, ProcessAck, StoreError, Goto
  <1>3. CASE ProcessDelete(d, a) \/ DropMalformed(d, a) \/ ExpireError(d, a)
    BY <1>3, DropSends DEF ProcessDelete, DropMalformed, ExpireError, Finish
  <1>4. CASE CommandFails(d, a)
    BY <1>4, DropSends, GotoSends DEF CommandFails, Command, Finish, Goto
  <1> QED
    BY <1>1, <1>2, <1>3, <1>4 DEF ProcessStep

LEMMA TaskLoops ==
  ASSUME NEW a \in Adapters, TaskStep(a)
  PROVE  UNCHANGED <<life, loopVars>>
  <1> PICK d \in Deliveries : ProcessStep(d, a) \/ CommandFails(d, a)
    BY DEF TaskStep
  <1>1. CASE ProcessStep(d, a)
    BY <1>1 DEF ProcessStep, ProcessStart, HandlerReturns, HandlerRaises, ProcessAck,
                ProcessDelete, DropMalformed, StoreError, ExpireError
  <1>2. CASE CommandFails(d, a)
    BY <1>2 DEF CommandFails, Command
  <1> QED
    BY <1>1, <1>2

\* Deliveries are handed to an adapter by its own loops only.
LEMMA AdapterSends ==
  ASSUME TypeOK, NEW a \in Adapters, AdapterStep(a), NEW b \in Adapters,
         a # b \/ AtRest(a)', \A c \in Adapters : AtRest(c) => LoopsOff(c)
  PROVE  NothingSentTo(b)
  <1>0. ASSUME pc' = pc, by' = by PROVE NothingSentTo(b)
    BY <1>0 DEF NothingSentTo
  <1>1. CASE \/ Subscribe(a) \/ SubscribeFails(a) \/ ReadExit(a) \/ DlqScan(a)
            \/ UnsubscribeBegin(a) \/ DisconnectEnd(a)
    BY <1>1, <1>0 DEF Subscribe, SubscribeFails, ReadExit, DlqScan, UnsubscribeBegin,
                      DisconnectEnd, taskVars
  <1>2. CASE MoveToDlq(a) \/ \E m \in Msgs : MoveFails(a, m)
    BY <1>2, <1>0 DEF MoveToDlq, MoveFails, taskVars
  <1>3. CASE ReadDeliver(a)
    <2>1. a # b
      BY <1>3 DEF ReadDeliver, AtRest, Stopped, LoopsOff
    <2> QED
      BY <1>3, <2>1, SendSends DEF ReadDeliver
  <1>4. CASE ClaimDeliver(a)
    <2>1. a # b
      BY <1>4 DEF ClaimDeliver, AtRest, Stopped, LoopsOff
    <2> QED
      BY <1>4, <2>1, SendSends DEF ClaimDeliver
  <1>5. CASE ReadDispatch(a) \/ ClaimDispatch(a)
    BY <1>5, CreateSends DEF ReadDispatch, ClaimDispatch
  <1>6. CASE ReadFails(a) \/ ClaimFails(a)
    BY <1>6, DropSends DEF ReadFails, ClaimFails
  <1>7. CASE UnsubscribeEnd(a) \/ DisconnectBegin(a) \/ Crash(a)
    BY <1>7, DropSends DEF UnsubscribeEnd, DisconnectBegin, Crash, CancelLoops
  <1> QED
    BY <1>1, <1>2, <1>3, <1>4, <1>5, <1>6, <1>7 DEF AdapterStep

LEMMA AdapterLoops ==
  ASSUME TypeOK, NEW a \in Adapters, AdapterStep(a), NEW b \in Adapters, a # b
  PROVE  LoopsSame(b)
  <1> USE DEF TypeOK, AdapterTypeOK, LoopsSame, loopVars, readVars, claimVars, moveVars
  <1>1. CASE Subscribe(a) \/ SubscribeFails(a)
    BY <1>1 DEF Subscribe, SubscribeFails
  <1>2. CASE ReadDeliver(a) \/ ReadDispatch(a) \/ ReadFails(a) \/ ReadExit(a)
    BY <1>2 DEF ReadDeliver, ReadDispatch, ReadFails, ReadExit
  <1>3. CASE ClaimDeliver(a) \/ ClaimDispatch(a) \/ ClaimFails(a)
    BY <1>3 DEF ClaimDeliver, ClaimDispatch, ClaimFails, ClaimAgain
  <1>4. CASE DlqScan(a)
    BY <1>4 DEF DlqScan
  <1>5. ASSUME NEW m \in Msgs, NextMove(a, m)
        PROVE  dlqLoop'[b] = dlqLoop[b] /\ dlqTodo'[b] = dlqTodo[b]
    BY <1>5 DEF NextMove
  <1>6. CASE MoveToDlq(a)
    <2>1. UNCHANGED <<life, taskVars, readVars, claimVars, handled, faults>>
      BY <1>6 DEF MoveToDlq
    <2>2. PICK m \in Msgs : \/ MoveXrange(a, m) \/ MoveHgetall(a, m) \/ MoveDelete(a, m)
                            \/ MoveXadd(a, m) \/ MoveXack(a, m)
      BY <1>6 DEF MoveToDlq
    <2>3. dlqLoop'[b] = dlqLoop[b] /\ dlqTodo'[b] = dlqTodo[b]
      BY <2>2, <1>5 DEF MoveXrange, MoveHgetall, MoveDelete, MoveXadd, MoveXack, MoveGoto
    <2> QED
      BY <2>1, <2>3
  <1>7. CASE \E m \in Msgs : MoveFails(a, m)
    BY <1>7, <1>5 DEF MoveFails
  <1>8. CASE UnsubscribeBegin(a) \/ DisconnectEnd(a)
    BY <1>8 DEF UnsubscribeBegin, DisconnectEnd
  <1>9. CASE UnsubscribeEnd(a) \/ DisconnectBegin(a)
    BY <1>9 DEF UnsubscribeEnd, DisconnectBegin, CancelLoops
  <1>10. CASE Crash(a)
    BY <1>10 DEF Crash
  <1> QED
    BY <1>1, <1>2, <1>3, <1>4, <1>6, <1>7, <1>8, <1>9, <1>10 DEF AdapterStep

\* The step with which an adapter comes to rest, or one at rest, leaves nothing.
LEMMA RestKept ==
  ASSUME TypeOK, StopInv, NEW a \in Adapters, AdapterStep(a), AtRest(a)'
  PROVE  (LoopsOff(a) /\ NoneSent(a))'
  <1> USE DEF TypeOK, AdapterTypeOK, loopVars, readVars, claimVars, moveVars
  <1>0. AtRest(a) => LoopsOff(a) /\ NoneSent(a)
    BY DEF StopInv
  <1>1. CASE Subscribe(a)
    BY <1>1 DEF Subscribe, AtRest, Stopped
  <1>2. CASE ReadDeliver(a) \/ ReadDispatch(a) \/ ReadFails(a) \/ ReadExit(a)
    BY <1>0, <1>2 DEF ReadDeliver, ReadDispatch, ReadFails, ReadExit, AtRest, Stopped, LoopsOff
  <1>3. CASE ClaimDeliver(a) \/ ClaimDispatch(a) \/ ClaimFails(a)
    BY <1>0, <1>3 DEF ClaimDeliver, ClaimDispatch, ClaimFails, AtRest, Stopped, LoopsOff
  <1>4. CASE DlqScan(a)
    BY <1>0, <1>4 DEF DlqScan, AtRest, Stopped, LoopsOff
  <1>5. CASE MoveToDlq(a) \/ \E m \in Msgs : MoveFails(a, m)
    <2>1. dlqTodo[a] # {} /\ life' = life
      BY <1>5 DEF MoveToDlq, MoveFails, MoveXrange, MoveHgetall, MoveDelete, MoveXadd,
                  MoveXack, Move, Current
    <2> QED
      BY <1>0, <2>1 DEF AtRest, Stopped, LoopsOff
  <1>6. CASE UnsubscribeBegin(a)
    BY <1>6 DEF UnsubscribeBegin, AtRest, Stopped
  <1>7. CASE UnsubscribeEnd(a) \/ DisconnectBegin(a)
    <2>1. CancelLoops(a)
      BY <1>7 DEF UnsubscribeEnd, DisconnectBegin
    <2>2. LoopsOff(a)'
      BY <2>1 DEF CancelLoops, LoopsOff
    <2>3. a # Nobody
      OBVIOUS
    <2>4. NoneSent(a)'
      BY <2>1, <2>3 DEF CancelLoops, Drop, SentTo, NoneSent
    <2> QED
      BY <2>2, <2>4
  <1>8. CASE Crash(a)
    <2>1. LoopsOff(a)'
      BY <1>8 DEF Crash, LoopsOff
    <2>2. a # Nobody
      OBVIOUS
    <2>3. NoneSent(a)'
      BY <1>8, <2>2 DEF Crash, Drop, NoneSent, Live
    <2> QED
      BY <2>1, <2>3
  <1>9. CASE SubscribeFails(a) \/ DisconnectEnd(a)
    <2>1. AtRest(a)
      BY <1>9 DEF SubscribeFails, DisconnectEnd, AtRest, Stopped
    <2>2. UNCHANGED <<taskVars, loopVars>>
      BY <1>9 DEF SubscribeFails, DisconnectEnd
    <2> QED
      BY <1>0, <2>1, <2>2 DEF LoopsOff, NoneSent, taskVars
  <1> QED
    BY <1>1, <1>2, <1>3, <1>4, <1>5, <1>6, <1>7, <1>8, <1>9 DEF AdapterStep

\* What any step does to an adapter that is, or comes, to rest.
LEMMA StepAtRest ==
  ASSUME TypeOK, StopInv, [Next]_vars, NEW b \in Adapters, AtRest(b)'
  PROVE  (LoopsOff(b) /\ NoneSent(b))' /\ NothingSentTo(b)
  <1>0. \A c \in Adapters : AtRest(c) => LoopsOff(c) /\ NoneSent(c)
    BY DEF StopInv
  <1>1. ASSUME LoopsSame(b), NothingSentTo(b)
        PROVE  (LoopsOff(b) /\ NoneSent(b))' /\ NothingSentTo(b)
    <2>1. AtRest(b)
      BY <1>1 DEF LoopsSame, AtRest, Stopped
    <2>2. LoopsOff(b) /\ NoneSent(b)
      BY <1>0, <2>1
    <2>3. LoopsOff(b)'
      BY <1>1, <2>2 DEF LoopsSame, LoopsOff
    <2>4. NoneSent(b)'
      BY <1>1, <2>2 DEF NothingSentTo, NoneSent
    <2> QED
      BY <1>1, <2>3, <2>4
  <1>2. ASSUME UNCHANGED <<life, taskVars, loopVars>>
        PROVE  (LoopsOff(b) /\ NoneSent(b))' /\ NothingSentTo(b)
    BY <1>1, <1>2 DEF LoopsSame, NothingSentTo, loopVars, taskVars
  <1>3. CASE \E len \in TrimLens : Publish(len)
    BY <1>2, <1>3 DEF Publish
  <1>4. ASSUME NEW a \in Adapters, AdapterStep(a)
        PROVE  (LoopsOff(b) /\ NoneSent(b))' /\ NothingSentTo(b)
    <2>1. NothingSentTo(b)
      BY <1>0, <1>4, AdapterSends
    <2>2. CASE a = b
      BY <1>4, <2>1, <2>2, RestKept
    <2>3. CASE a # b
      BY <1>1, <1>4, <2>1, <2>3, AdapterLoops
    <2> QED
      BY <2>2, <2>3
  <1>5. ASSUME NEW a \in Adapters, TaskStep(a)
        PROVE  (LoopsOff(b) /\ NoneSent(b))' /\ NothingSentTo(b)
    <2>1. NothingSentTo(b)
      BY <1>5, TaskSends
    <2>2. LoopsSame(b)
      BY <1>5, TaskLoops DEF loopVars, LoopsSame
    <2> QED
      BY <1>1, <2>1, <2>2
  <1>6. CASE \E m \in Msgs : Age(m)
    BY <1>2, <1>6 DEF Age
  <1>7. CASE UNCHANGED vars
    BY <1>2, <1>7 DEF vars
  <1> QED
    BY <1>3, <1>4, <1>5, <1>6, <1>7 DEF Next

LEMMA StopInvariance == Spec => [](IInv /\ StopInv)
  <1>1. Init => StopInv
    BY DEF Init, StopInv, LoopsOff, NoneSent
  <1>2. IInv /\ StopInv /\ [Next]_vars => StopInv'
    <2> SUFFICES ASSUME IInv, StopInv, [Next]_vars PROVE StopInv'
      OBVIOUS
    <2>1. TypeOK
      BY DEF IInv
    <2>2. ASSUME NEW b \in Adapters, AtRest(b)'
          PROVE  (LoopsOff(b) /\ NoneSent(b))'
      BY <2>1, <2>2, StepAtRest
    <2> QED
      BY <2>2 DEF StopInv
  <1> QED
    BY <1>1, <1>2, Invariance, PTL DEF Spec

\* A stopped adapter never runs again, but may still crash.
LEMMA StoppedStays ==
  ASSUME TypeOK, [Next]_vars, NEW b \in Adapters, Stopped(b)
  PROVE  Stopped(b)'
  <1>1. CASE life' = life
    BY <1>1 DEF Stopped
  <1>2. ASSUME NEW a \in Adapters, AdapterStep(a)
        PROVE  Stopped(b)'
    <2>1. CASE a # b
      BY <1>2, <2>1, AdapterLoops DEF LoopsSame, Stopped
    <2>2. CASE a = b
      <3>1. CASE Subscribe(b) \/ UnsubscribeBegin(b) \/ UnsubscribeEnd(b)
        BY <3>1 DEF Subscribe, UnsubscribeBegin, UnsubscribeEnd, Stopped
      <3>2. CASE DisconnectBegin(b) \/ DisconnectEnd(b) \/ Crash(b)
        BY <3>2 DEF DisconnectBegin, DisconnectEnd, Crash, Stopped, TypeOK, AdapterTypeOK
      <3>3. CASE life' = life
        BY <3>3, <1>1
      <3> QED
        BY <1>2, <2>2, <3>1, <3>2, <3>3
        DEF AdapterStep, ReadDeliver, ReadDispatch, ReadFails, ReadExit, ClaimDeliver,
            ClaimDispatch, ClaimFails, DlqScan, MoveToDlq, MoveFails, SubscribeFails
    <2> QED
      BY <2>1, <2>2
  <1>3. ASSUME NEW a \in Adapters, TaskStep(a)
        PROVE  Stopped(b)'
    BY <1>1, <1>3, TaskLoops
  <1> QED
    BY <1>1, <1>2, <1>3 DEF Next, Publish, Age, vars

\* In every configuration: once unsubscribe, disconnect or a crash is over, no
\* delivery reaches the adapter any more, and it claims and moves none.
THEOREM Quiet == Spec => QuietAfterStop
  <1>1. ASSUME IInv, StopInv, [Next]_vars
        PROVE  \A a \in Adapters : Stopped(a) =>
                  /\ \A d \in Deliveries : by'[d] = a => by[d] = a /\ pc[d] # "sent"
                  /\ claimNext'[a] = 0 /\ dlqTodo'[a] = {}
    <2> SUFFICES ASSUME NEW a \in Adapters, Stopped(a)
                 PROVE  /\ \A d \in Deliveries : by'[d] = a => by[d] = a /\ pc[d] # "sent"
                        /\ claimNext'[a] = 0 /\ dlqTodo'[a] = {}
      OBVIOUS
    <2>1. TypeOK
      BY <1>1 DEF IInv
    <2>2. AtRest(a)'
      BY <1>1, <2>1, StoppedStays DEF AtRest
    <2>3. (LoopsOff(a) /\ NoneSent(a))' /\ NothingSentTo(a)
      BY <1>1, <2>1, <2>2, StepAtRest
    <2>4. NoneSent(a)
      BY <1>1 DEF StopInv, AtRest
    <2> QED
      BY <2>3, <2>4 DEF LoopsOff, NoneSent, NothingSentTo
  <1>2. IInv /\ StopInv /\ [Next]_vars
          => [\A a \in Adapters : Stopped(a) =>
                /\ \A d \in Deliveries : by'[d] = a => by[d] = a /\ pc[d] # "sent"
                /\ claimNext'[a] = 0 /\ dlqTodo'[a] = {}]_vars
    BY <1>1
  <1> QED
    BY <1>2, StopInvariance, PTL DEF Spec, QuietAfterStop

-----------------------------------------------------------------------------
(* Handlers that end within min_idle_time: a message is under way once, and  *)
(* the active set holds what the tasks are working on                        *)

\* No message is idle while it is under way, so that it is so only once.
UnderWayInv ==
    \A d \in Deliveries : pc[d] \in Live =>
        /\ d[1] \notin idle
        /\ \A e \in Deliveries : pc[e] \in Live /\ e[1] = d[1] => e = d

ActiveInv ==
    \A a \in Adapters : \A m \in Msgs :
        m \in active[a] <=> \E d \in Deliveries : d[1] = m /\ by[d] = a /\ pc[d] \in Running

\* A step after which no more is under way, and none of it idle.
NoneMoreUnderWay ==
    /\ \A d \in Deliveries : pc'[d] \in Live => pc[d] \in Live
    /\ \A m \in idle' \ idle : \A d \in Deliveries : d[1] = m => pc[d] \notin Live

LEMMA NoneMoreKeeps ==
  ASSUME UnderWayInv, NoneMoreUnderWay
  PROVE  UnderWayInv'
  BY DEF UnderWayInv, NoneMoreUnderWay

\* The work of the tasks, and the active sets, stay as they are.
SameWork ==
    /\ active' = active
    /\ \A d \in Deliveries :
          pc'[d] \in Running \/ pc[d] \in Running =>
              pc'[d] \in Running /\ pc[d] \in Running /\ by'[d] = by[d]

LEMMA SameWorkKeeps ==
  ASSUME ActiveInv, SameWork
  PROVE  ActiveInv'
  <1>1. \A a : \A d \in Deliveries :
          (by[d] = a /\ pc[d] \in Running) <=> (by'[d] = a /\ pc'[d] \in Running)
    BY DEF SameWork
  <1>2. active' = active
    BY DEF SameWork
  <1> QED
    BY <1>1, <1>2 DEF ActiveInv

LEMMA Keeps ==
  ASSUME UnderWayInv, ActiveInv, NoneMoreUnderWay, SameWork
  PROVE  (UnderWayInv /\ ActiveInv)'
  BY NoneMoreKeeps, SameWorkKeeps

\* Commands leave messages idle that were so; min_idle_time is Age's.
LEMMA IdleShrinks ==
  /\ \A len : XADD(len) => idle' = idle
  /\ XGROUP_CREATE => idle' = idle
  /\ \A hi : XREADGROUP(hi) => idle' = idle
  /\ \A start, hi : XAUTOCLAIM(start, hi) => idle' \subseteq idle
  /\ \A m : XACK(m) => idle' \subseteq idle
  /\ \A m : HSET(m) => idle' = idle
  /\ \A m : DEL(m) => idle' = idle
  /\ \A m : XADD_DLQ(m) => idle' = idle
  /\ UNCHANGED serverVars => idle' = idle
  BY DEF XADD, XGROUP_CREATE, XREADGROUP, XAUTOCLAIM, XACK, HSET, DEL, XADD_DLQ,
         serverVars, groupVars

\* A task's end: its message is not active any more, nor was it for another task.
LEMMA FinishKeeps ==
  ASSUME TypeOK, UnderWayInv, ActiveInv, NEW a \in Adapters, NEW d \in Deliveries,
         by[d] = a, pc[d] \in Running, Finish(d, a), idle' \subseteq idle
  PROVE  (UnderWayInv /\ ActiveInv)'
  <1>1. /\ \A e \in Deliveries : pc'[e] = IF e = d THEN "over" ELSE pc[e]
        /\ \A e \in Deliveries : by'[e] = IF e = d THEN Nobody ELSE by[e]
    BY DEF Finish, Drop
  <1>2. /\ active'[a] = active[a] \ {d[1]}
        /\ \A b \in Adapters : b # a => active'[b] = active[b]
    BY DEF Finish, RemoveActive, TypeOK, AdapterTypeOK
  <1>3. NoneMoreUnderWay
    BY <1>1 DEF NoneMoreUnderWay, Live, Running
  <1>4. "over" \notin Running /\ \A s : s \in Running => s \in Live
    BY DEF Running, Live
  <1>5. ASSUME NEW b \in Adapters, NEW m \in Msgs
        PROVE  m \in active'[b] <=>
                 \E e \in Deliveries : e[1] = m /\ by'[e] = b /\ pc'[e] \in Running
    <2>1. m \in active[b] <=> \E e \in Deliveries : e[1] = m /\ by[e] = b /\ pc[e] \in Running
      BY DEF ActiveInv
    <2>2. \A e \in Deliveries : pc[e] \in Running /\ e[1] = d[1] => e = d
      BY <1>4 DEF UnderWayInv
    <2>3. CASE b = a /\ m = d[1]
      BY <1>1, <1>2, <1>4, <2>2, <2>3
    <2>4. CASE ~(b = a /\ m = d[1])
      <3>1. m \in active'[b] <=> m \in active[b]
        BY <1>2, <2>4
      <3>2. \A e \in Deliveries : e[1] = m /\ by[e] = b => e # d
        BY <2>4
      <3>3. \A e \in Deliveries : e # d => by'[e] = by[e] /\ pc'[e] = pc[e]
        BY <1>1
      <3>4. pc'[d] \notin Running
        BY <1>1, <1>4
      <3> QED
        BY <2>1, <3>1, <3>2, <3>3, <3>4
    <2> QED
      BY <2>3, <2>4
  <1> QED
    BY <1>3, <1>5, NoneMoreKeeps DEF ActiveInv

LEMMA GotoKeeps ==
  ASSUME TypeOK, UnderWayInv, ActiveInv, NEW d \in Deliveries, NEW to \in Running,
         pc[d] \in Running, Goto(d, to), idle' \subseteq idle
  PROVE  (UnderWayInv /\ ActiveInv)'
  <1>1. /\ \A e \in Deliveries : pc'[e] = IF e = d THEN to ELSE pc[e]
        /\ by' = by /\ active' = active
    BY DEF Goto, TypeOK, AdapterTypeOK
  <1>2. \A s : s \in Running => s \in Live
    BY DEF Live
  <1>3. NoneMoreUnderWay
    BY <1>1, <1>2 DEF NoneMoreUnderWay
  <1>4. SameWork
    BY <1>1 DEF SameWork
  <1> QED
    BY <1>3, <1>4, Keeps

LEMMA StartKeeps ==
  ASSUME TypeOK, UnderWayInv, ActiveInv, NEW a \in Adapters, NEW d \in Deliveries,
         ProcessStart(d, a)
  PROVE  (UnderWayInv /\ ActiveInv)'
  <1>1. pc[d] = "created" /\ by[d] = a /\ idle' = idle
    BY DEF ProcessStart, Task, serverVars
  <1>2. /\ "created" \notin Running /\ "created" \in Live /\ "over" \notin Live
        /\ \A s : s \in Running => s \in Live
    BY DEF Live, Running
  <1>3. CASE ~Connected(a)
    <2>1. /\ \A e \in Deliveries : pc'[e] = IF e = d THEN "over" ELSE pc[e]
          /\ \A e \in Deliveries : e # d => by'[e] = by[e]
          /\ active' = active
      BY <1>3 DEF ProcessStart, Drop
    <2>2. NoneMoreUnderWay
      BY <1>1, <1>2, <2>1 DEF NoneMoreUnderWay
    <2>3. SameWork
      BY <1>1, <1>2, <2>1 DEF SameWork
    <2> QED
      BY <2>2, <2>3, Keeps
  <1>4. CASE Connected(a)
    <2>1. PICK to \in {"dropping", "handling"} : pc' = [pc EXCEPT ![d] = to]
      BY <1>4 DEF ProcessStart
    <2>2. /\ \A e \in Deliveries : pc'[e] = IF e = d THEN to ELSE pc[e]
          /\ by' = by
          /\ active'[a] = active[a] \cup {d[1]}
          /\ \A b \in Adapters : b # a => active'[b] = active[b]
      BY <1>4, <2>1 DEF ProcessStart, AddActive, TypeOK, AdapterTypeOK
    <2>3. to \in Running
      BY DEF Running
    <2>4. NoneMoreUnderWay
      BY <1>1, <1>2, <2>2 DEF NoneMoreUnderWay
    <2>5. ASSUME NEW b \in Adapters, NEW m \in Msgs
          PROVE  m \in active'[b] <=>
                   \E e \in Deliveries : e[1] = m /\ by'[e] = b /\ pc'[e] \in Running
      <3>1. m \in active[b] <=> \E e \in Deliveries : e[1] = m /\ by[e] = b /\ pc[e] \in Running
        BY DEF ActiveInv
      <3>2. CASE b = a /\ m = d[1]
        BY <1>1, <2>2, <2>3, <3>2
      <3>3. CASE ~(b = a /\ m = d[1])
        <4>1. m \in active'[b] <=> m \in active[b]
          BY <2>2, <3>3
        <4>2. \A e \in Deliveries : e[1] = m /\ by[e] = b => e # d
          BY <1>1, <3>3
        <4>3. \A e \in Deliveries : e # d => pc'[e] = pc[e]
          BY <2>2
        <4> QED
          BY <2>2, <3>1, <4>1, <4>2, <4>3
      <3> QED
        BY <3>2, <3>3
    <2> QED
      BY <2>4, <2>5, NoneMoreKeeps DEF ActiveInv
  <1> QED
    BY <1>3, <1>4

LEMMA TaskKeeps ==
  ASSUME TypeOK, UnderWayInv, ActiveInv, NEW a \in Adapters, TaskStep(a)
  PROVE  (UnderWayInv /\ ActiveInv)'
  <1> PICK d \in Deliveries : ProcessStep(d, a) \/ CommandFails(d, a)
    BY DEF TaskStep
  <1> USE DEF Task
  <1>0. /\ {"handling", "acking", "cleanup", "dropping", "failing", "expiring"} \subseteq Running
        /\ by[d] = a \/ ProcessStart(d, a)
    BY DEF Running, ProcessStep, HandlerReturns, HandlerRaises, ProcessAck, ProcessDelete,
           DropMalformed, StoreError, ExpireError, CommandFails, Command
  <1>1. CASE ProcessStart(d, a)
    BY <1>1, StartKeeps
  <1>2. CASE HandlerReturns(d, a) \/ HandlerRaises(d, a)
    <2>1. /\ idle' \subseteq idle
          /\ pc[d] \in Running /\ (Goto(d, "acking") \/ Goto(d, "failing"))
      BY <1>0, <1>2, IdleShrinks DEF HandlerReturns, HandlerRaises
    <2> QED
      BY <1>0, <2>1, GotoKeeps
  <1>3. CASE ProcessAck(d, a)
    <2>1. idle' \subseteq idle /\ pc[d] \in Running /\ Goto(d, "cleanup")
      BY <1>0, <1>3, IdleShrinks DEF ProcessAck
    <2> QED
      BY <1>0, <2>1, GotoKeeps
  <1>4. CASE StoreError(d, a)
    <2>1. idle' \subseteq idle /\ pc[d] \in Running /\ Goto(d, "expiring")
      BY <1>0, <1>4, IdleShrinks DEF StoreError
    <2> QED
      BY <1>0, <2>1, GotoKeeps
  <1>5. CASE ProcessDelete(d, a) \/ DropMalformed(d, a) \/ ExpireError(d, a)
    <2>1. idle' \subseteq idle /\ pc[d] \in Running /\ by[d] = a /\ Finish(d, a)
      BY <1>0, <1>5, IdleShrinks DEF ProcessDelete, DropMalformed, ExpireError
    <2> QED
      BY <2>1, FinishKeeps
  <1>6. CASE CommandFails(d, a)
    <2>1. /\ idle' \subseteq idle /\ pc[d] \in Running /\ by[d] = a
          /\ Finish(d, a) \/ Goto(d, "failing")
      BY <1>0, <1>6, IdleShrinks DEF CommandFails, Command
    <2> QED
      BY <1>0, <2>1, FinishKeeps, GotoKeeps
  <1> QED
    BY <1>1, <1>2, <1>3, <1>4, <1>5, <1>6 DEF ProcessStep

\* Deliveries handed out are of messages that are not under way.
LEMMA SendKeeps ==
  ASSUME TypeOK, UnderWayInv, ActiveInv, NEW a \in Adapters, NEW D \in SUBSET Deliveries,
         Send(a, D), idle' \subseteq idle,
         \A d \in D : /\ d[1] \notin idle'
                      /\ \A e \in Deliveries : e[1] = d[1] => pc[e] \notin Live
                      /\ \A e \in D : e[1] = d[1] => e = d
  PROVE  (UnderWayInv /\ ActiveInv)'
  <1>1. /\ \A e \in Deliveries : pc'[e] = IF e \in D THEN "sent" ELSE pc[e]
        /\ \A e \in Deliveries : e \notin D => by'[e] = by[e]
        /\ active' = active
    BY DEF Send
  <1>2. "sent" \notin Running /\ \A s : s \in Running => s \in Live
    BY DEF Running, Live
  <1>3. SameWork
    BY <1>1, <1>2 DEF SameWork
  <1>4. ASSUME NEW d \in Deliveries, pc'[d] \in Live
        PROVE  /\ d[1] \notin idle'
               /\ \A e \in Deliveries : pc'[e] \in Live /\ e[1] = d[1] => e = d
    <2>1. CASE d \in D
      BY <1>1, <2>1
    <2>2. CASE d \notin D
      <3>1. pc[d] \in Live
        BY <1>1, <1>4, <2>2
      <3>2. \A e \in Deliveries : e[1] = d[1] => e \notin D
        BY <3>1
      <3> QED
        BY <1>1, <3>1, <3>2 DEF UnderWayInv
    <2> QED
      BY <2>1, <2>2
  <1> QED
    BY <1>3, <1>4, SameWorkKeeps DEF UnderWayInv

LEMMA AdapterKeeps ==
  ASSUME IInv, UnderWayInv, ActiveInv, NEW a \in Adapters, AdapterStep(a)
  PROVE  (UnderWayInv /\ ActiveInv)'
  <1>0. /\ TypeOK /\ GroupInv /\ TaskInv
        /\ lastId \in Nat /\ idle \subseteq pel /\ stream \subseteq Msgs /\ pel \subseteq Msgs
    BY DEF IInv, TypeOK, ServerTypeOK
  <1>l. /\ \A s : s \in Running => s \in Live
        /\ "sent" \in Live /\ "created" \in Live /\ "over" \notin Live /\ "none" \notin Live
        /\ "sent" \notin Running /\ "created" \notin Running
    BY DEF Running, Live
  <1>s. ASSUME UNCHANGED taskVars, idle' \subseteq idle
        PROVE  (UnderWayInv /\ ActiveInv)'
    BY <1>s, Keeps DEF NoneMoreUnderWay, SameWork, taskVars
  <1>c. ASSUME NEW S \in SUBSET Deliveries, Create(SentTo(a, S)), idle' \subseteq idle
        PROVE  (UnderWayInv /\ ActiveInv)'
    <2>1. /\ \A d \in Deliveries : pc'[d] = IF d \in SentTo(a, S) THEN "created" ELSE pc[d]
          /\ by' = by /\ active' = active
      BY <1>c DEF Create
    <2>2. \A d \in SentTo(a, S) : pc[d] = "sent"
      BY DEF SentTo
    <2>3. NoneMoreUnderWay
      BY <1>c, <1>l, <2>1, <2>2 DEF NoneMoreUnderWay
    <2>4. SameWork
      BY <1>l, <2>1, <2>2 DEF SameWork
    <2> QED
      BY <2>3, <2>4, Keeps
  <1>d. ASSUME NEW S \in SUBSET Deliveries, Drop(SentTo(a, S)), idle' \subseteq idle,
               active' = active
        PROVE  (UnderWayInv /\ ActiveInv)'
    <2>1. /\ \A d \in Deliveries : pc'[d] = IF d \in SentTo(a, S) THEN "over" ELSE pc[d]
          /\ \A d \in Deliveries : d \notin SentTo(a, S) => by'[d] = by[d]
      BY <1>d DEF Drop
    <2>2. \A d \in SentTo(a, S) : pc[d] = "sent"
      BY DEF SentTo
    <2>3. NoneMoreUnderWay
      BY <1>d, <1>l, <2>1, <2>2 DEF NoneMoreUnderWay
    <2>4. SameWork
      BY <1>d, <1>l, <2>1, <2>2 DEF SameWork
    <2> QED
      BY <2>3, <2>4, Keeps
  <1>f. First \in SUBSET Deliveries /\ Again \in SUBSET Deliveries
    BY DEF First, Again
  <1>1. CASE \/ Subscribe(a) \/ SubscribeFails(a) \/ ReadExit(a) \/ DlqScan(a)
            \/ UnsubscribeBegin(a) \/ DisconnectEnd(a)
    <2>1. idle' \subseteq idle
      BY <1>1, IdleShrinks DEF Subscribe, SubscribeFails, ReadExit, DlqScan, UnsubscribeBegin,
                               DisconnectEnd
    <2> QED
      BY <1>1, <2>1, <1>s DEF Subscribe, SubscribeFails, ReadExit, DlqScan, UnsubscribeBegin,
                              DisconnectEnd
  <1>2. CASE ReadDeliver(a)
    <2>1. PICK hi \in Undelivered :
             /\ XREADGROUP(hi)
             /\ Send(a, {d \in First : d[1] \in ReadBatch(hi)})
      BY <1>2 DEF ReadDeliver
    <2> DEFINE D == {d \in First : d[1] \in ReadBatch(hi)}
    <2>2. idle' = idle
      BY <2>1, IdleShrinks
    <2>3. D \in SUBSET Deliveries
      BY <1>f
    <2>4. ASSUME NEW d \in D
          PROVE  /\ d[1] \notin idle'
                 /\ \A e \in Deliveries : e[1] = d[1] => pc[e] \notin Live
                 /\ \A e \in D : e[1] = d[1] => e = d
      <3>1. d[1] \in Msgs /\ d[1] > lastId
        BY <1>0 DEF ReadBatch, Undelivered
      <3>2. d[1] \in Nat /\ ~(d[1] <= lastId)
        <4>1. d[1] \in Nat
          BY <3>1, MsgsNat
        <4>2. lastId \in Nat
          BY <1>0
        <4> QED
          BY <3>1, <4>1, <4>2
      <3>3. d[1] \notin idle'
        BY <1>0, <2>2, <3>2 DEF GroupInv
      <3>4. \A e \in Deliveries : e[1] = d[1] => pc[e] = "none"
        BY <1>0, <3>2 DEF TaskInv
      <3>5. \A e \in D : e[1] = d[1] => e = d
        BY DEF First, Deliveries
      <3> QED
        BY <1>l, <3>3, <3>4, <3>5
    <2> HIDE DEF D
    <2>5. Send(a, D)
      BY <2>1 DEF D
    <2> QED
      BY <1>0, <2>2, <2>3, <2>4, <2>5, SendKeeps
  <1>3. CASE ReadDispatch(a)
    BY <1>3, <1>c, <1>f, IdleShrinks DEF ReadDispatch
  <1>4. CASE ReadFails(a)
    BY <1>4, <1>d, <1>f, IdleShrinks DEF ReadFails
  <1>5. CASE ClaimDeliver(a)
    <2>1. PICK hi \in 0 .. MaxMsg :
             /\ XAUTOCLAIM(cursor[a], hi)
             /\ Send(a, {d \in Again : /\ d[1] \in Claimed(cursor[a], hi)
                                       /\ d[2] = delivered[d[1]] + 1})
      BY <1>5 DEF ClaimDeliver
    <2> DEFINE C == Claimed(cursor[a], hi)
               D == {d \in Again : d[1] \in C /\ d[2] = delivered[d[1]] + 1}
    <2>2. C \subseteq idle /\ idle' = idle \ (Purged(cursor[a], hi) \cup C)
      BY <2>1 DEF XAUTOCLAIM, Claimed, Claimable
    <2>3. Send(a, D)
      BY <2>1
    <2> HIDE DEF C
    <2>4. D \in SUBSET Deliveries
      BY <1>f
    <2>5. ASSUME NEW d \in D
          PROVE  /\ d[1] \notin idle'
                 /\ \A e \in Deliveries : e[1] = d[1] => pc[e] \notin Live
                 /\ \A e \in D : e[1] = d[1] => e = d
      <3>1. d[1] \in idle /\ d[1] \notin idle'
        BY <2>2
      <3>2. \A e \in Deliveries : e[1] = d[1] => pc[e] \notin Live
        BY <3>1 DEF UnderWayInv
      <3>3. \A e \in D : e[1] = d[1] => e = d
        BY DEF Again, Deliveries
      <3> QED
        BY <3>1, <3>2, <3>3
    <2> HIDE DEF D
    <2>6. idle' \subseteq idle
      BY <2>2
    <2> QED
      BY <1>0, <2>3, <2>4, <2>5, <2>6, SendKeeps
  <1>6. CASE ClaimDispatch(a)
    BY <1>6, <1>c, <1>f, IdleShrinks DEF ClaimDispatch
  <1>7. CASE ClaimFails(a)
    BY <1>7, <1>d, <1>f, IdleShrinks DEF ClaimFails
  <1>8. CASE MoveToDlq(a)
    <2>1. idle' \subseteq idle
      BY <1>8, IdleShrinks
      DEF MoveToDlq, MoveXrange, MoveHgetall, MoveDelete, MoveXadd, MoveXack
    <2> QED
      BY <1>8, <2>1, <1>s DEF MoveToDlq
  <1>9. CASE \E m \in Msgs : MoveFails(a, m)
    BY <1>9, <1>s, IdleShrinks DEF MoveFails
  <1>10. CASE UnsubscribeEnd(a) \/ DisconnectBegin(a)
    BY <1>10, <1>d, IdleShrinks DEF UnsubscribeEnd, DisconnectBegin, CancelLoops
  <1>11. CASE Crash(a)
    <2> DEFINE S == {d \in Deliveries : by[d] = a /\ pc[d] \in Live}
    <2>1. /\ \A d \in Deliveries : pc'[d] = IF d \in S THEN "over" ELSE pc[d]
          /\ \A d \in Deliveries : by'[d] = IF d \in S THEN Nobody ELSE by[d]
          /\ active'[a] = {} /\ idle' = idle
          /\ \A b \in Adapters : b # a => active'[b] = active[b]
      BY <1>0, <1>11 DEF Crash, Drop, TypeOK, AdapterTypeOK, serverVars
    <2>2. NoneMoreUnderWay
      BY <1>l, <2>1 DEF NoneMoreUnderWay
    <2>3. ASSUME NEW b \in Adapters, NEW m \in Msgs
          PROVE  m \in active'[b] <=>
                   \E e \in Deliveries : e[1] = m /\ by'[e] = b /\ pc'[e] \in Running
      <3>1. m \in active[b] <=> \E e \in Deliveries : e[1] = m /\ by[e] = b /\ pc[e] \in Running
        BY DEF ActiveInv
      <3>2. a # Nobody /\ b # Nobody
        OBVIOUS
      <3>3. CASE b = a
        <4>1. \A e \in Deliveries : by'[e] = a => pc'[e] \notin Running
          BY <1>l, <2>1, <3>2
        <4> QED
          BY <2>1, <3>3, <4>1
      <3>4. CASE b # a
        <4>1. \A e \in Deliveries : (by'[e] = b /\ pc'[e] \in Running)
                                      <=> (by[e] = b /\ pc[e] \in Running)
          BY <1>l, <2>1, <3>2, <3>4
        <4> QED
          BY <2>1, <3>1, <3>4, <4>1
      <3> QED
        BY <3>3, <3>4
    <2> QED
      BY <2>2, <2>3, NoneMoreKeeps DEF ActiveInv
  <1> QED
    BY <1>1, <1>2, <1>3, <1>4, <1>5, <1>6, <1>7, <1>8, <1>9, <1>10, <1>11 DEF AdapterStep

\* When handlers end within min_idle_time, no message is under way twice, and
\* what unsubscribe waits for is what the tasks are working on: every message
\* of a running task is active, and none stays active after its task.
THEOREM ActiveTracked ==
  ASSUME PromptHandlers
  PROVE  Spec => []ActiveTracksTasks
  <1>1. Init => UnderWayInv /\ ActiveInv
    BY DEF Init, UnderWayInv, ActiveInv, Live, Running
  <1>2. IInv /\ UnderWayInv /\ ActiveInv /\ [Next]_vars => (UnderWayInv /\ ActiveInv)'
    <2> SUFFICES ASSUME IInv, UnderWayInv, ActiveInv, [Next]_vars
                 PROVE  (UnderWayInv /\ ActiveInv)'
      OBVIOUS
    <2>0. TypeOK
      BY DEF IInv
    <2>s. ASSUME UNCHANGED taskVars, idle' = idle
          PROVE  (UnderWayInv /\ ActiveInv)'
      BY <2>s, Keeps DEF NoneMoreUnderWay, SameWork, taskVars
    <2>1. CASE \E len \in TrimLens : Publish(len)
      BY <2>1, <2>s, IdleShrinks DEF Publish
    <2>2. ASSUME NEW a \in Adapters, AdapterStep(a)
          PROVE  (UnderWayInv /\ ActiveInv)'
      BY <2>2, AdapterKeeps
    <2>3. ASSUME NEW a \in Adapters, TaskStep(a)
          PROVE  (UnderWayInv /\ ActiveInv)'
      BY <2>0, <2>3, TaskKeeps
    <2>4. ASSUME NEW m \in Msgs, Age(m)
          PROVE  (UnderWayInv /\ ActiveInv)'
      <3>1. /\ UNCHANGED taskVars /\ idle' = idle \cup {m}
            /\ \A d \in Deliveries : d[1] = m => pc[d] \notin Live
        BY <2>4 DEF Age, IdleTimePasses
      <3> QED
        BY <3>1, Keeps DEF NoneMoreUnderWay, SameWork, taskVars
    <2>5. CASE UNCHANGED vars
      BY <2>5, <2>s, IdleShrinks DEF vars
    <2> QED
      BY <2>1, <2>2, <2>3, <2>4, <2>5 DEF Next
  <1>3. IInv /\ ActiveInv => ActiveTracksTasks
    <2> SUFFICES ASSUME IInv, ActiveInv, NEW a \in Adapters
                 PROVE  active[a] = {d[1] : d \in {e \in Deliveries : by[e] = a /\ pc[e] \in Running}}
      BY DEF ActiveTracksTasks
    <2>1. active[a] \subseteq Msgs
      BY DEF IInv, TypeOK, AdapterTypeOK
    <2>2. \A d \in Deliveries : d[1] \in Msgs
      BY DeliveryType
    <2> QED
      BY <2>1, <2>2 DEF ActiveInv
  <1> QED
    BY <1>1, <1>2, <1>3, Invariance, PTL DEF Spec

-----------------------------------------------------------------------------
(* One adapter and no failing command: a message is moved once *)

Alone == (\A a, b \in Adapters : a = b) /\ MaxFaults = 0

\* What was moved is not pending any more, but while its move acknowledges it;
\* what is yet to be moved was not moved before.
MovedOnce(m) == dlq[m] <= 1 /\ (dlq[m] > 0 => m <= lastId)

MovedAway(a, m) ==
    /\ dlq[m] > 0 => m \notin pel \/ Stopped(a) \/ (dlqLoop[a] = "xack" /\ Current(a, m))
    /\ m \in dlqTodo[a] /\ dlq[m] > 0 => dlqLoop[a] = "xack" /\ Current(a, m)

MovedInv == \A m \in Msgs : MovedOnce(m) /\ \A a \in Adapters : MovedAway(a, m)

\* A step that moves nothing, and makes pending again nothing that was delivered.
NoneMoved ==
    /\ dlq' = dlq
    /\ \A m \in Msgs : m <= lastId =>
          /\ m <= lastId'
          /\ m \in pel' => m \in pel

LEMMA NoneMovedOnce ==
  ASSUME MovedInv, NoneMoved
  PROVE  \A m \in Msgs : MovedOnce(m)'
  BY DEF MovedInv, NoneMoved, MovedOnce

LEMMA NoneMovedAway ==
  ASSUME MovedInv, NoneMoved, NEW a \in Adapters, NEW m \in Msgs, Stopped(a) => Stopped(a)',
         dlqLoop'[a] = dlqLoop[a], dlqTodo'[a] = dlqTodo[a]
  PROVE  MovedAway(a, m)'
  <1>1. MovedOnce(m) /\ MovedAway(a, m)
    BY DEF MovedInv
  <1>2. Current(a, m) <=> Current(a, m)'
    BY DEF Current
  <1>3. m \in pel' /\ dlq[m] > 0 => m \in pel
    BY <1>1 DEF NoneMoved, MovedOnce
  <1>4. dlq' = dlq
    BY DEF NoneMoved
  <1> HIDE DEF Current, Stopped
  <1> QED
    BY <1>1, <1>2, <1>3, <1>4 DEF MovedAway

\* The commands but XADD_DLQ.
LEMMA CommandMoves ==
  ASSUME IInv
  PROVE  /\ \A len : XADD(len) => NoneMoved
         /\ XGROUP_CREATE => NoneMoved
         /\ \A hi : XREADGROUP(hi) => NoneMoved
         /\ \A start, hi : XAUTOCLAIM(start, hi) => NoneMoved
         /\ \A m : XACK(m) => NoneMoved
         /\ \A m : HSET(m) => NoneMoved
         /\ \A m : DEL(m) => NoneMoved
         /\ \A m : IdleTimePasses(m) => NoneMoved
         /\ UNCHANGED serverVars => NoneMoved
  <1> USE DEF NoneMoved, streamVars, groupVars, errVars, dlqVars, serverVars
  <1>0. /\ lastId \in Nat /\ (~group => lastId = 0) /\ stream \subseteq Msgs
        /\ \A m \in Msgs : m \in Nat
    BY MsgsNat DEF IInv, GroupInv, TypeOK, ServerTypeOK
  <1>1. ASSUME XGROUP_CREATE PROVE NoneMoved
    BY <1>0, <1>1 DEF XGROUP_CREATE
  <1>2. ASSUME NEW hi, XREADGROUP(hi) PROVE NoneMoved
    <2>1. hi \in stream /\ hi > lastId /\ lastId' = hi /\ pel' = pel \cup ReadBatch(hi) /\ dlq' = dlq
      BY <1>2 DEF XREADGROUP, Undelivered
    <2>2. \A m \in ReadBatch(hi) : m \in Msgs /\ m > lastId
      BY <1>0 DEF ReadBatch, Undelivered
    <2>3. hi \in Nat
      BY <1>0, <2>1
    <2>4. \A m \in Msgs : m <= lastId => m <= hi /\ m \notin ReadBatch(hi)
      BY <1>0, <2>1, <2>2, <2>3
    <2> QED
      BY <2>1, <2>4
  <1>3. \A start, hi : XAUTOCLAIM(start, hi) => NoneMoved
    BY DEF XAUTOCLAIM
  <1>4. \A m : XACK(m) => NoneMoved
    BY DEF XACK
  <1>5. /\ \A len : XADD(len) => NoneMoved
        /\ \A m : HSET(m) => NoneMoved
        /\ \A m : DEL(m) => NoneMoved
        /\ \A m : IdleTimePasses(m) => NoneMoved
        /\ UNCHANGED serverVars => NoneMoved
    BY DEF XADD, HSET, DEL, IdleTimePasses
  <1> QED
    BY <1>1, <1>2, <1>3, <1>4, <1>5

LEMMA TaskMoves ==
  ASSUME IInv, NEW a \in Adapters, TaskStep(a)
  PROVE  NoneMoved
  <1> PICK d \in Deliveries : ProcessStep(d, a) \/ CommandFails(d, a)
    BY DEF TaskStep
  <1>1. CASE ProcessStart(d, a) \/ HandlerReturns(d, a) \/ HandlerRaises(d, a)
    BY <1>1, CommandMoves DEF ProcessStart, HandlerReturns, HandlerRaises
  <1>2. CASE \/ ProcessAck(d, a) \/ ProcessDelete(d, a) \/ DropMalformed(d, a)
            \/ StoreError(d, a) \/ ExpireError(d, a)
    BY <1>2, CommandMoves DEF ProcessAck, ProcessDelete, DropMalformed, StoreError, ExpireError
  <1>3. CASE CommandFails(d, a)
    BY <1>3, CommandMoves DEF CommandFails, Command
  <1> QED
    BY <1>1, <1>2, <1>3 DEF ProcessStep

\* _move_to_dlq takes a message from its page only after the acknowledgement.
LEMMA MoveMovedAway ==
  ASSUME IInv, StopInv, MovedInv, Alone, NEW a \in Adapters, NEW m \in Msgs, NEW k \in Msgs,
         \/ MoveXrange(a, m) \/ MoveHgetall(a, m) \/ MoveDelete(a, m)
         \/ MoveXadd(a, m) \/ MoveXack(a, m),
         life' = life
  PROVE  MovedOnce(k)' /\ MovedAway(a, k)'
  <1>0. /\ TypeOK /\ MovedOnce(k) /\ MovedAway(a, k) /\ MovedAway(a, m)
        /\ dlq[k] \in Nat /\ dlq[m] \in Nat
    BY DEF IInv, MovedInv, TypeOK, ServerTypeOK
  <1>1. /\ Current(a, m) /\ m \in dlqTodo[a] /\ dlqLoop[a] \in {"xrange", "hgetall", "delete", "xadd", "xack"}
    BY DEF MoveXrange, MoveHgetall, MoveDelete, MoveXadd, MoveXack, Move, Current
  <1>2. ~Stopped(a)
    BY <1>1 DEF StopInv, AtRest, LoopsOff
  <1>3. Current(a, k) => k = m
    BY <1>1, MsgsNat DEF Current
  <1>n. NextMove(a, m) => dlqTodo'[a] = dlqTodo[a] \ {m}
    BY <1>0 DEF NextMove, TypeOK, AdapterTypeOK
  <1>4. CASE dlqLoop[a] \in {"xrange", "hgetall", "delete"}
    <2>1. dlqTodo'[a] \subseteq dlqTodo[a] /\ UNCHANGED <<dlq, pel, lastId>>
      BY <1>4, <1>n DEF MoveXrange, MoveHgetall, MoveDelete, MoveXadd, MoveXack, Move,
         MoveGoto, DEL, serverVars, groupVars, dlqVars
    <2>2. dlq[k] > 0 => k \notin dlqTodo[a] /\ k \notin pel
      BY <1>0, <1>2, <1>4 DEF MovedAway
    <2> QED
      BY <1>0, <2>1, <2>2 DEF MovedOnce, MovedAway
  <1>5. CASE dlqLoop[a] = "xadd"
    <2>1. MoveXadd(a, m)
      BY <1>5 DEF MoveXrange, MoveHgetall, MoveDelete, MoveXack, Move
    <2>2. /\ dlq' = [dlq EXCEPT ![m] = @ + 1] /\ pel' = pel /\ lastId' = lastId
          /\ dlqTodo' = dlqTodo /\ dlqLoop'[a] = "xack"
      BY <1>0, <2>1 DEF MoveXadd, XADD_DLQ, MoveGoto, TypeOK, AdapterTypeOK, streamVars, groupVars
    <2>3. /\ dlq[m] > 0 => FALSE
          /\ dlq[k] > 0 => k \notin dlqTodo[a] /\ k \notin pel
      BY <1>0, <1>1, <1>2, <1>5 DEF MovedAway
    <2>4. m <= lastId
      BY <1>1 DEF IInv, MoveInv
    <2>5. CASE k = m
      <3>1. dlq'[m] = 1
        BY <1>0, <2>2, <2>3 DEF TypeOK, ServerTypeOK
      <3>2. Current(a, m)'
        BY <1>1, <2>2 DEF Current
      <3> QED
        BY <2>2, <2>4, <2>5, <3>1, <3>2 DEF MovedOnce, MovedAway
    <2>6. CASE k # m
      <3>1. dlq'[k] = dlq[k]
        BY <1>0, <2>2, <2>6 DEF TypeOK, ServerTypeOK
      <3> QED
        BY <1>0, <2>2, <2>3, <3>1 DEF MovedOnce, MovedAway
    <2> QED
      BY <2>5, <2>6
  <1>6. CASE dlqLoop[a] = "xack"
    <2>1. MoveXack(a, m)
      BY <1>6 DEF MoveXrange, MoveHgetall, MoveDelete, MoveXadd, Move
    <2>2. /\ pel' = pel \ {m} /\ lastId' = lastId /\ dlq' = dlq
          /\ dlqTodo'[a] = dlqTodo[a] \ {m}
      BY <1>n, <2>1 DEF MoveXack, XACK, groupVars, dlqVars
    <2>3. dlq[k] > 0 => k \notin pel \/ k = m
      BY <1>0, <1>2, <1>3 DEF MovedAway
    <2>4. k \in dlqTodo[a] /\ dlq[k] > 0 => k = m
      BY <1>0, <1>3 DEF MovedAway
    <2> QED
      BY <1>0, <2>2, <2>3, <2>4 DEF MovedOnce, MovedAway
  <1> QED
    BY <1>1, <1>4, <1>5, <1>6

LEMMA AdapterMoves ==
  ASSUME IInv, StopInv, MovedInv, Alone, NEW a \in Adapters, AdapterStep(a),
         Stopped(a) => Stopped(a)'
  PROVE  MovedInv'
  <1> USE DEF loopVars, moveVars
  <1>0. /\ TypeOK /\ \A m \in Msgs : MovedOnce(m) /\ MovedAway(a, m)
        /\ \A b \in Adapters : b = a
        /\ AtRest(a) => LoopsOff(a)
    BY DEF IInv, MovedInv, Alone, StopInv
  <1>1. ASSUME NoneMoved, \A m \in Msgs : MovedAway(a, m)' PROVE MovedInv'
    BY <1>0, <1>1, NoneMovedOnce DEF MovedInv
  <1>2. ASSUME NoneMoved, UNCHANGED <<dlqLoop, dlqTodo>> PROVE MovedInv'
    BY <1>1, <1>2, NoneMovedAway
  <1>3. CASE Subscribe(a)
    <2>1. NoneMoved /\ dlqTodo' = dlqTodo /\ AtRest(a) /\ life'[a] = "up"
      BY <1>0, <1>3, CommandMoves DEF Subscribe, AtRest, TypeOK, AdapterTypeOK
    <2>2. dlqTodo[a] = {} /\ ~Stopped(a)
      BY <1>0, <1>3, <2>1 DEF LoopsOff, Subscribe, Stopped
    <2>3. ASSUME NEW m \in Msgs PROVE MovedAway(a, m)'
      <3>1. dlq[m] > 0 => m \notin pel
        BY <1>0, <2>2 DEF MovedAway, Current
      <3>2. dlq[m] > 0 => m \notin pel'
        BY <1>0, <2>1, <3>1 DEF NoneMoved, MovedOnce
      <3> QED
        BY <2>1, <2>2, <3>2 DEF MovedAway, NoneMoved
    <2> QED
      BY <1>1, <2>1, <2>3
  <1>4. CASE ReadDeliver(a) \/ ReadDispatch(a) \/ ReadFails(a) \/ ReadExit(a)
    BY <1>2, <1>4, CommandMoves DEF ReadDeliver, ReadDispatch, ReadFails, ReadExit
  <1>5. CASE \/ ClaimDeliver(a) \/ ClaimDispatch(a) \/ ClaimFails(a)
            \/ SubscribeFails(a) \/ UnsubscribeBegin(a) \/ DisconnectEnd(a)
    BY <1>2, <1>5, CommandMoves DEF ClaimDeliver, ClaimDispatch, ClaimFails, SubscribeFails,
                                    UnsubscribeBegin, DisconnectEnd
  <1>6. CASE DlqScan(a)
    <2>1. NoneMoved /\ pel' = pel
      BY <1>6, CommandMoves DEF DlqScan, serverVars
    <2>2. dlqTodo'[a] \subseteq pel /\ dlqLoop[a] = "sleep"
      BY <1>0, <1>6 DEF DlqScan, XPENDING, TypeOK, AdapterTypeOK
    <2>3. ~Stopped(a)
      BY <1>0, <2>2 DEF AtRest, LoopsOff
    <2>4. ASSUME NEW m \in Msgs PROVE MovedAway(a, m)'
      <3>1. dlq[m] > 0 => m \notin pel
        BY <1>0, <2>2, <2>3 DEF MovedAway
      <3> QED
        BY <2>1, <2>2, <3>1 DEF MovedAway, NoneMoved
    <2> QED
      BY <1>1, <2>1, <2>4
  <1>7. CASE MoveToDlq(a)
    BY <1>0, <1>7, MoveMovedAway DEF MoveToDlq, MovedInv
  <1>8. CASE \E m \in Msgs : MoveFails(a, m)
    <2>1. faults \in 0 .. 0 /\ faults < 0
      BY <1>0, <1>8 DEF MoveFails, Fault, Alone, TypeOK, AdapterTypeOK
    <2> QED
      BY <2>1
  <1>9. CASE UnsubscribeEnd(a) \/ DisconnectBegin(a) \/ Crash(a)
    <2>1. NoneMoved
      BY <1>9, CommandMoves DEF UnsubscribeEnd, DisconnectBegin, Crash
    <2>2. dlqTodo'[a] = {} /\ Stopped(a)'
      BY <1>0, <1>9 DEF UnsubscribeEnd, DisconnectBegin, Crash, CancelLoops, Stopped, TypeOK, AdapterTypeOK
    <2> QED
      BY <1>1, <2>1, <2>2 DEF MovedAway
  <1> QED
    BY <1>3, <1>4, <1>5, <1>6, <1>7, <1>8, <1>9 DEF AdapterStep

\* With one adapter and no failing command a message is dead-lettered once, in
\* every interleaving of its handler, the claims and the scans, also when the
\* adapter stops between the entry and the acknowledgement.
THEOREM MovedOnlyOnce ==
  ASSUME Alone
  PROVE  Spec => []DeadLetteredOnce
  <1>1. Init => MovedInv
    BY DEF Init, ServerInit, MovedInv, MovedOnce, MovedAway
  <1>2. IInv /\ StopInv /\ MovedInv /\ [Next]_vars => MovedInv'
    <2> SUFFICES ASSUME IInv, StopInv, MovedInv, [Next]_vars
                 PROVE  MovedInv'
      OBVIOUS
    <2>0. TypeOK
      BY DEF IInv
    <2>s. ASSUME NoneMoved, UNCHANGED <<life, dlqLoop, dlqTodo>> PROVE MovedInv'
      <3>1. \A a \in Adapters : Stopped(a) => Stopped(a)'
        BY <2>s DEF Stopped
      <3> QED
        BY <2>s, <3>1, NoneMovedOnce, NoneMovedAway DEF MovedInv
    <2>1. CASE \E len \in TrimLens : Publish(len)
      BY <2>1, <2>s, CommandMoves DEF Publish, loopVars
    <2>2. ASSUME NEW a \in Adapters, AdapterStep(a)
          PROVE  MovedInv'
      BY <2>0, <2>2, AdapterMoves, StoppedStays
    <2>3. ASSUME NEW a \in Adapters, TaskStep(a)
          PROVE  MovedInv'
      BY <2>3, <2>s, TaskMoves, TaskLoops DEF loopVars
    <2>4. ASSUME NEW m \in Msgs, Age(m)
          PROVE  MovedInv'
      BY <2>4, <2>s, CommandMoves DEF Age, loopVars
    <2>5. CASE UNCHANGED vars
      BY <2>5, <2>s, CommandMoves DEF vars, loopVars
    <2> QED
      BY <2>1, <2>2, <2>3, <2>4, <2>5 DEF Next
  <1>3. MovedInv => DeadLetteredOnce
    BY DEF MovedInv, MovedOnce, DeadLetteredOnce
  <1> QED
    BY <1>1, <1>2, <1>3, StopInvariance, PTL DEF Spec
=============================================================================
