----------------------------- MODULE FakeChannel -----------------------------
(***************************************************************************)
(* adapters/fake.py: the in-memory adapter, for one channel name.  publish *)
(* starts one task per subscription and waits for all of them; a handler   *)
(* may itself publish or unsubscribe, and then waits for that.  Each       *)
(* action is the code between two awaits of one task; the lock of the      *)
(* active messages is never held across one.                               *)
(*                                                                         *)
(* Messages are numbered in the order they are published.  A delivery is a *)
(* pair <<m, i>>, the i-th task that the publish of m started.             *)
(***************************************************************************)
EXTENDS Integers, Sequences, FiniteSets, Functions, Lists

CONSTANTS
    Consumers,        \* the Channel objects of this name, by their id
    Outside,          \* a caller that is not a handler
    Nothing,          \* a handler that waits neither for publish nor unsubscribe
    MaxSubscriptions, \* how often a channel may be subscribed at a time
    MaxMessages,      \* bound: messages ever published
    MaxUnsubscribes,  \* bound: calls of unsubscribe
    MaxConnects       \* bound: calls of connect

ASSUME FakeAssumption ==
    /\ {MaxSubscriptions, MaxMessages, MaxUnsubscribes, MaxConnects} \subseteq Nat
    /\ Outside # Nothing /\ {Outside, Nothing} \cap Consumers = {}
    /\ Outside \notin Nat \X Nat                \* Outside is no delivery, and
    /\ (Consumers \cup {Nothing}) \cap Nat = {}  \* messages are not channels

VARIABLES
    connected,      \* _connected
    subscriptions,  \* _subscriptions of the name, in order
    unsubscribing,  \* channels with unsubscribing set
    waiting,        \* who waits in unsubscribe, for each channel that one is for
    active,         \* _active_messages
    target,         \* for each message the channels it was delivered to
    caller,         \* who waits in its publish
    at,             \* where each delivery is
    waitsFor,       \* the message or channel each handler waits for
    cancelled,      \* messages whose publish was cancelled
    returned,       \* messages whose publish is over
    called,         \* history: pairs of a message and a channel whose handler ended
    since,          \* history: messages published before the channel was subscribed
    unsubscribes, connects

subVars  == <<connected, subscriptions, since, connects>>
waitVars == <<unsubscribing, waiting, unsubscribes>>
pubVars  == <<target, caller, cancelled, returned>>
taskVars == <<active, at, waitsFor, called>>
vars == <<subVars, waitVars, pubVars, taskVars>>

Messages   == DOMAIN target
Deliveries == DOMAIN at
To(d)      == target[d[1]][d[2]]
Running(c) == {d \in Deliveries : at[d] = "running" /\ To(d) = c}

TypeOK ==
    /\ connected \in BOOLEAN
    /\ subscriptions \in Seq(Consumers)
    /\ unsubscribing \subseteq Consumers
    /\ DOMAIN waiting \subseteq unsubscribing
    /\ Range(waiting) \subseteq Deliveries \cup {Outside}
    /\ active \in [Consumers -> SUBSET Messages]
    /\ target \in Seq(Seq(Consumers)) /\ Len(target) <= MaxMessages
    /\ DOMAIN caller = Messages
    /\ Range(caller) \subseteq Deliveries \cup {Outside}
    /\ Deliveries = UNION {{m} \X DOMAIN target[m] : m \in Messages}
    /\ at \in [Deliveries -> {"ready", "running", "done"}]
    /\ waitsFor \in [Deliveries -> Messages \cup Consumers \cup {Nothing}]
    /\ cancelled \subseteq Messages
    /\ returned \subseteq Messages
    /\ called \subseteq Messages \X Consumers
    /\ since \in [Consumers -> 0 .. MaxMessages]

Init ==
    /\ connected = FALSE
    /\ subscriptions = <<>>
    /\ unsubscribing = {}
    /\ waiting = <<>>
    /\ active = [c \in Consumers |-> {}]
    /\ target = <<>> /\ caller = <<>>
    /\ at = <<>> /\ waitsFor = <<>>
    /\ cancelled = {} /\ returned = {} /\ called = {}
    /\ since = [c \in Consumers |-> 0]
    /\ unsubscribes = 0 /\ connects = 0

\* The handlers that may go on: not cancelled, and not waiting for a call.
Acting == {d \in Deliveries : at[d] = "running" /\ waitsFor[d] = Nothing
                              /\ d[1] \notin cancelled}

\* The caller of a call, told what it waits for.
Await(who, what) ==
    waitsFor' = [d \in DOMAIN at' |->
        IF d = who THEN what ELSE IF d \in Deliveries THEN waitsFor[d] ELSE Nothing]

-----------------------------------------------------------------------------
(* connect, disconnect, subscribe *)

Connect ==
    /\ ~connected
    /\ connects < MaxConnects
    /\ connects' = connects + 1
    /\ connected' = TRUE
    /\ UNCHANGED <<subscriptions, since, waitVars, pubVars, taskVars>>

\* Nobody is waited for.
Disconnect ==
    /\ connected
    /\ connected' = FALSE
    /\ subscriptions' = <<>>
    /\ UNCHANGED <<since, connects, waitVars, pubVars, taskVars>>

Subscribe(c) ==
    /\ connected
    /\ Len(Keep(subscriptions, {c})) < MaxSubscriptions
    /\ subscriptions' = Append(subscriptions, c)
    /\ since' = [since EXCEPT ![c] = Len(target)]
    /\ UNCHANGED <<connected, connects, waitVars, pubVars, taskVars>>

-----------------------------------------------------------------------------
(* publish and _deliver_message *)

\* The message is stored, and one task made per subscription that stays.
Publish(who) ==
    /\ connected
    /\ Len(target) < MaxMessages
    /\ LET m  == Len(target) + 1
           to == Keep(subscriptions, Consumers \ unsubscribing)
       IN /\ target' = Append(target, to)
          /\ caller' = Append(caller, who)
          /\ at' = [d \in Deliveries \cup ({m} \X DOMAIN to) |->
                      IF d \in Deliveries THEN at[d] ELSE "ready"]
          /\ Await(who, m)
    /\ UNCHANGED <<subVars, waitVars, cancelled, returned, active, called>>

Begin(d) ==
    /\ at[d] = "ready"
    /\ d[1] \notin cancelled
    /\ at' = [at EXCEPT ![d] = "running"]
    /\ active' = [active EXCEPT ![To(d)] = @ \cup {d[1]}]
    /\ UNCHANGED <<subVars, waitVars, pubVars, waitsFor, called>>

End_NoFinally(d) ==  \* mutant: a handler that is cancelled stays active
    /\ at[d] = "running"
    /\ waitsFor[d] = Nothing
    /\ at' = [at EXCEPT ![d] = "done"]
    /\ active' = IF d[1] \in cancelled THEN active
                 ELSE [active EXCEPT ![To(d)] = @ \ {d[1]}]
    /\ called' = called \cup {<<d[1], To(d)>>}
    /\ UNCHANGED <<subVars, waitVars, pubVars, waitsFor>>

\* The handler returns, raises, or is cancelled: the finally clause runs.
End(d) ==
    /\ at[d] = "running"
    /\ waitsFor[d] = Nothing
    /\ at' = [at EXCEPT ![d] = "done"]
    /\ active' = [active EXCEPT ![To(d)] = @ \ {d[1]}]
    /\ called' = called \cup {<<d[1], To(d)>>}
    /\ UNCHANGED <<subVars, waitVars, pubVars, waitsFor>>

\* A task that is cancelled before it began calls no handler.
Skip(d) ==
    /\ at[d] = "ready"
    /\ d[1] \in cancelled
    /\ at' = [at EXCEPT ![d] = "done"]
    /\ UNCHANGED <<subVars, waitVars, pubVars, active, waitsFor, called>>

Return_FirstEnds(m) ==  \* mutant: gather ends with the first of its tasks
    /\ m \notin returned
    /\ target[m] = <<>> \/ \E i \in DOMAIN target[m] : at[<<m, i>>] = "done"
    /\ returned' = returned \cup {m}
    /\ UNCHANGED at
    /\ Await(caller[m], Nothing)
    /\ UNCHANGED <<subVars, waitVars, target, caller, cancelled, active, called>>

\* gather is over: publish returns to its caller.
Return(m) ==
    /\ m \notin returned
    /\ \A i \in DOMAIN target[m] : at[<<m, i>>] = "done"
    /\ returned' = returned \cup {m}
    /\ UNCHANGED at
    /\ Await(caller[m], Nothing)
    /\ UNCHANGED <<subVars, waitVars, target, caller, cancelled, active, called>>

-----------------------------------------------------------------------------
(* unsubscribe *)

\* wait_for_channel_active_messages has returned: remove the subscription.
Remove(c) ==
    subscriptions' = Keep(subscriptions, Consumers \ {c})

StopsWaiting(c) == waiting' = [d \in DOMAIN waiting \ {c} |-> waiting[d]]

\* The first look at the active messages comes before the first await.
Unsubscribe(c, who) ==
    /\ unsubscribes < MaxUnsubscribes
    /\ c \notin DOMAIN waiting
    /\ unsubscribes' = unsubscribes + 1
    /\ unsubscribing' = unsubscribing \cup {c}
    /\ IF active[c] = {}
       THEN Remove(c) /\ UNCHANGED <<waiting, waitsFor>>
       ELSE /\ waiting' = [d \in DOMAIN waiting \cup {c} |->
                             IF d = c THEN who ELSE waiting[d]]
            /\ UNCHANGED at
            /\ Await(who, c)
            /\ UNCHANGED subscriptions
    /\ UNCHANGED <<connected, since, connects, pubVars, active, at, called>>

Unsubscribed(c) ==
    /\ c \in DOMAIN waiting
    /\ active[c] = {}
    /\ Remove(c)
    /\ StopsWaiting(c)
    /\ UNCHANGED at
    /\ Await(waiting[c], Nothing)
    /\ UNCHANGED <<connected, since, connects, unsubscribing, unsubscribes, pubVars,
                   active, called>>

UnsubscribeTimeout_Removes(c) ==  \* mutant: the timeout removes it all the same
    /\ c \in DOMAIN waiting
    /\ active[c] # {}
    /\ Remove(c)
    /\ StopsWaiting(c)
    /\ UNCHANGED at
    /\ Await(waiting[c], Nothing)
    /\ UNCHANGED <<connected, since, connects, unsubscribing, unsubscribes, pubVars,
                   active, called>>

UnsubscribeTimeout_Never(c) == FALSE  \* mutant: waits without a timeout

\* AdapterError after 30 seconds: the channel stays subscribed, and flagged.
UnsubscribeTimeout(c) ==
    /\ c \in DOMAIN waiting
    /\ active[c] # {}
    /\ StopsWaiting(c)
    /\ UNCHANGED at
    /\ Await(waiting[c], Nothing)
    /\ UNCHANGED <<subVars, unsubscribing, unsubscribes, pubVars, active, called>>

-----------------------------------------------------------------------------
(* The caller of publish is cancelled, and with it what it waits for. *)

Nested_Alone(m) == {m}  \* mutant: what the handlers wait for goes on

\* The messages that handlers of m published, and theirs, and still wait for:
\* the least set that holds m and, with a message, those.
Nested(m) ==
    LET open == {n \in Messages : n \notin returned /\ caller[n] # Outside}
        Closed(S) == m \in S /\ \A n \in open : caller[n][1] \in S => n \in S
    IN {n \in Messages : \A S \in SUBSET Messages : Closed(S) => n \in S}

Cancel(m) ==
    /\ caller[m] = Outside
    /\ m \notin returned \cup cancelled
    /\ cancelled' = cancelled \cup Nested(m)
    /\ waiting' = [c \in {c \in DOMAIN waiting :
                            waiting[c] = Outside \/ waiting[c][1] \notin Nested(m)} |-> waiting[c]]
    /\ waitsFor' = [d \in Deliveries |->
                      IF d[1] \in Nested(m) /\ waitsFor[d] \in Consumers THEN Nothing
                      ELSE waitsFor[d]]
    /\ UNCHANGED <<subVars, unsubscribing, unsubscribes, target, caller, returned,
                   active, at, called>>

-----------------------------------------------------------------------------
Next ==
    \/ Connect \/ Disconnect
    \/ \E c \in Consumers : Subscribe(c) \/ Unsubscribed(c) \/ UnsubscribeTimeout(c)
    \/ \E who \in Acting \cup {Outside} :
          Publish(who) \/ \E c \in Consumers : Unsubscribe(c, who)
    \/ \E d \in Deliveries : Begin(d) \/ End(d) \/ Skip(d)
    \/ \E m \in Messages : Return(m) \/ Cancel(m)

Spec == Init /\ [][Next]_vars

(* The event loop runs every task that can run; handlers end.  Nobody is    *)
(* made to publish, to unsubscribe or to cancel.                            *)
Tasks ==
    \/ \E c \in Consumers : Unsubscribed(c) \/ UnsubscribeTimeout(c)
    \/ \E d \in Deliveries : Begin(d) \/ End(d) \/ Skip(d)
    \/ \E m \in Messages : Return(m)

FairSpec == Spec /\ WF_vars(Tasks)

-----------------------------------------------------------------------------
(* Properties *)

\* Who waits is waited for: a handler that waits for publish or unsubscribe is
\* the one that call returns to; with a handler everything is cancelled that it
\* waits for; and a publish that returned left no task behind.
IInv ==
    /\ TypeOK
    /\ \A d \in Deliveries : waitsFor[d] # Nothing =>
          /\ at[d] = "running"
          /\ waitsFor[d] \in Consumers =>
                /\ waitsFor[d] \in DOMAIN waiting /\ waiting[waitsFor[d]] = d
                /\ d[1] \notin cancelled
          /\ waitsFor[d] \in Messages =>
                /\ caller[waitsFor[d]] = d /\ waitsFor[d] \notin returned
                /\ d[1] \in cancelled => waitsFor[d] \in cancelled
    /\ \A m \in returned : \A i \in DOMAIN target[m] : at[<<m, i>>] = "done"

\* The active messages of a channel are those its handlers are at work on,
\* whether they return, raise or are cancelled.
ActiveTracksHandlers == \A c \in Consumers : active[c] = {d[1] : d \in Running(c)}

\* "Waits for active messages to complete before removing subscription":
\* unsubscribe removes a channel only while none of its handlers runs, and
\* if it gives up it removes nothing.
RemovedWhenQuiet ==
    [][\A c \in Range(subscriptions) \ Range(subscriptions') :
          connected' => Running(c) = {}]_vars

\* "Immediately delivers message to all subscribers (synchronous delivery)":
\* when publish has returned, every channel that has been subscribed since
\* before and is not unsubscribing has handled the message.
SynchronousDelivery ==
    \A m \in returned \ cancelled : \A c \in Range(subscriptions) \ unsubscribing :
        m > since[c] => <<m, c>> \in called

\* The same of every subscribed channel: not so for one whose unsubscribe
\* timed out.
DeliveredToAll ==
    \A m \in returned \ cancelled : \A c \in Range(subscriptions) :
        m > since[c] /\ c \notin DOMAIN waiting => <<m, c>> \in called

\* No handler is called for a channel that is no longer subscribed: not so for
\* a task that publish made before.
NoneAfterUnsubscribe ==
    \A c \in Consumers : Running(c) # {} => c \in Range(subscriptions) \/ ~connected

\* Every publish returns, also when handlers unsubscribe the channel they are
\* called for, or each other's, and so wait for themselves.
EventuallyReturns ==
    \A m \in 1 .. MaxMessages : (m \in Messages) ~> (m \in returned)
=============================================================================
