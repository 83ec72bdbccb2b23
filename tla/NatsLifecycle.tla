---------------------------- MODULE NatsLifecycle ----------------------------
(***************************************************************************)
(* adapters/nats.py and the table of active messages in adapters/base.py,  *)
(* over the life of one process: middleware.py's hooks connect, subscribe, *)
(* unsubscribe and disconnect one after another, while the callbacks of    *)
(* the subscriptions process messages.  NatsChannel has the messages of    *)
(* one subscription; here a callback is at work on one or is not.          *)
(*                                                                         *)
(* Subscriptions to a channel are numbered in the order they are made.  A  *)
(* callback works on one message at a time: while it does, the number of   *)
(* its subscription stands for the message in active.  A message that      *)
(* stays there when its callback is over gets a number of its own.         *)
(***************************************************************************)
EXTENDS Integers, FiniteSets, Functions

CONSTANTS
    Channels,
    StreamOf,      \* _sanitize_stream_name of each channel's name
    Untracked,     \* no entry in _active_messages
    NoChannel,
    Recreates,     \* a service may be created again before it was stopped
    RetriesStart,  \* broker_starting may be repeated after it raised
    SelfStops,     \* a handler may stop the service it belongs to
    FaultKinds,    \* what may fail: "stream", "consumer", "progress", "drain"
    MaxFaults,     \* bound: how often something fails
    MaxStarts,     \* bound: calls of broker_starting
    MaxMade        \* bound: subscriptions to one channel

\* What stands for a message: a subscription at work on it, or the fault after
\* which it stayed in the table.
Subs == 1 .. MaxMade
Ids  == 1 .. MaxMade + MaxFaults

ASSUME LifeAssumption ==
    /\ DOMAIN StreamOf = Channels
    /\ NoChannel \notin Channels
    /\ \A S \in SUBSET Ids : Untracked # S
    /\ {Recreates, RetriesStart, SelfStops} \subseteq BOOLEAN
    /\ FaultKinds \subseteq {"stream", "consumer", "progress", "drain"}
    /\ {MaxFaults, MaxStarts, MaxMade} \subseteq Nat

VARIABLES
    at,         \* the await the hook under way is at
    todo,       \* channels the hook has yet to subscribe
    channel,    \* the channel it subscribes or unsubscribes now
    byHandler,  \* the hook was called by a handler of that channel
    registry,   \* channel_registry
    started,    \* middleware.started
    connected,  \* _connected
    stopping,   \* _stopping
    handle,     \* subscriptions: the number of the subscription of a channel
    active,     \* _active_messages
    running,    \* subscriptions whose callback is in _process_message
    live,       \* subscriptions the server delivers to
    streams,    \* the server's streams: the subject each was created for
    made,       \* subscriptions made so far
    refused,    \* history: channels whose subscribe raised and nothing had failed
    starts, faults

hookVars  == <<at, todo, channel, byHandler>>
wareVars  == <<registry, started, starts>>
linkVars  == <<connected, stopping>>
tableVars == <<handle, active>>
subVars   == <<live, made>>
vars == <<hookVars, wareVars, linkVars, tableVars, subVars, running, streams,
          refused, faults>>

TypeOK ==
    /\ at \in {"idle", "subscribe", "stream", "consumer", "waiting", "draining", "closing"}
    /\ todo \subseteq Channels
    /\ channel \in Channels \cup {NoChannel}
    /\ byHandler \in BOOLEAN
    /\ registry \subseteq Channels
    /\ {started, connected, stopping} \subseteq BOOLEAN
    /\ \A c \in DOMAIN handle : handle[c] \in 1 .. made[c]
    /\ active \in [Channels -> {Untracked} \cup SUBSET Ids]
    /\ {running, live} \subseteq [Channels -> SUBSET Subs]
    /\ \A s \in DOMAIN streams : StreamOf[streams[s]] = s
    /\ made \in [Channels -> 0 .. MaxMade]
    /\ refused \subseteq Channels
    /\ starts \in 0 .. MaxStarts /\ faults \in 0 .. MaxFaults

Init ==
    /\ at = "idle" /\ todo = {} /\ channel = NoChannel /\ byHandler = FALSE
    /\ registry = {} /\ started = FALSE /\ starts = 0
    /\ connected = FALSE /\ stopping = FALSE
    /\ handle = <<>>
    /\ active = [c \in Channels |-> Untracked]
    /\ running = [c \in Channels |-> {}]
    /\ live = [c \in Channels |-> {}]
    /\ streams = <<>>
    /\ made = [c \in Channels |-> 0]
    /\ refused = {} /\ faults = 0

Fault(kind) == kind \in FaultKinds /\ faults < MaxFaults /\ faults' = faults + 1

Goto(to, c) == at' = to /\ channel' = c

\* The hook is over.
HookEnds == Goto("idle", NoChannel) /\ todo' = {} /\ byHandler' = FALSE

-----------------------------------------------------------------------------
(* The table of active messages *)

\* remove_channel_active_messages: an entry that becomes empty is deleted.
Without(set, gone) ==
    IF set = Untracked \/ gone = {} THEN set
    ELSE IF set \subseteq gone THEN Untracked ELSE set \ gone

StopTracking_Keeps(set) == set  \* mutant: the entry is left

\* stop_channel_active_messages raises when messages are active.
StopTracking(set) == IF set = {} THEN Untracked ELSE set

-----------------------------------------------------------------------------
(* service_created and broker_starting *)

\* The next channel of the hook; after the last one the broker is started.
Continue(rest) ==
    IF rest = {} THEN HookEnds /\ started' = TRUE
    ELSE /\ todo' = rest /\ Goto("subscribe", NoChannel)
         /\ UNCHANGED <<byHandler, started>>

\* A registration of the same service and name is replaced; the subscription
\* it had is not touched.
Register(c) == registry' = registry \cup {c}

ServiceCreated(c) ==
    /\ at = "idle"
    /\ c \notin registry \/ Recreates
    /\ made[c] < MaxMade
    /\ Register(c)
    /\ IF started THEN Continue({c}) ELSE UNCHANGED <<hookVars, started>>
    /\ UNCHANGED <<starts, linkVars, tableVars, subVars, running, streams, refused, faults>>

BrokerStarting ==
    /\ at = "idle"
    /\ ~connected \/ (RetriesStart /\ ~started)
    /\ starts < MaxStarts
    /\ \A c \in registry : made[c] < MaxMade
    /\ starts' = starts + 1
    /\ connected' = TRUE
    /\ Continue(registry)
    /\ UNCHANGED <<registry, stopping, tableVars, subVars, running, streams, refused, faults>>

\* subscribe: an entry in the table, or "Already tracking".
InitTracking(c) ==
    /\ at = "subscribe" /\ c \in todo
    /\ active[c] = Untracked
    /\ active' = [active EXCEPT ![c] = {}]
    /\ Goto("stream", c)
    /\ UNCHANGED <<todo, byHandler, wareVars, linkVars, handle, subVars, running,
                   streams, refused, faults>>

\* The hook ends with the error of subscribe; the entry in the table stays.
SubscribeRaises(c) ==
    /\ HookEnds
    /\ refused' = IF faults' = faults THEN refused \cup {c} ELSE refused
    /\ UNCHANGED <<wareVars, linkVars, tableVars, subVars, running, streams>>

AlreadyTracking(c) ==
    /\ at = "subscribe" /\ c \in todo
    /\ active[c] # Untracked
    /\ UNCHANGED faults
    /\ SubscribeRaises(c)

\* add_stream; "stream name already in use" counts as success.
CreateStream ==
    /\ at = "stream"
    /\ streams' = [s \in DOMAIN streams \cup {StreamOf[channel]} |->
                     IF s \in DOMAIN streams THEN streams[s] ELSE channel]
    /\ Goto("consumer", channel)
    /\ UNCHANGED <<todo, byHandler, wareVars, linkVars, tableVars, subVars, running,
                   refused, faults>>

\* js.subscribe looks for a stream with the channel's subject.
HasStream(c) == c \in Range(streams)

CreateConsumer_KeepsHandle ==  \* mutant: an old handle is not replaced
    /\ at = "consumer"
    /\ HasStream(channel)
    /\ LET k == made[channel] + 1 IN
       /\ made' = [made EXCEPT ![channel] = k]
       /\ live' = [live EXCEPT ![channel] = @ \cup {k}]
       /\ handle' = [c \in DOMAIN handle \cup {channel} |->
                       IF c \in DOMAIN handle THEN handle[c] ELSE k]
    /\ Continue(todo \ {channel})
    /\ UNCHANGED <<registry, starts, linkVars, active, running, streams, refused, faults>>

CreateConsumer ==
    /\ at = "consumer"
    /\ HasStream(channel)
    /\ LET k == made[channel] + 1 IN
       /\ made' = [made EXCEPT ![channel] = k]
       /\ live' = [live EXCEPT ![channel] = @ \cup {k}]
       /\ handle' = [c \in DOMAIN handle \cup {channel} |->
                       IF c = channel THEN k ELSE handle[c]]
    /\ Continue(todo \ {channel})
    /\ UNCHANGED <<registry, starts, linkVars, active, running, streams, refused, faults>>

SubscribeFails ==
    /\ \/ at = "stream" /\ Fault("stream")
       \/ at = "consumer" /\ Fault("consumer")
       \/ at = "consumer" /\ ~HasStream(channel) /\ UNCHANGED faults
    /\ SubscribeRaises(channel)

-----------------------------------------------------------------------------
(* _process_message *)

\* The messages of the channel that in_progress left in the table.
Leaked(c) == IF active[c] = Untracked THEN {} ELSE active[c] \ Subs

\* The server has a message, a new one or a leaked one that was not acknowledged
\* in time; a subscription that drains gets no more.
Take(c, k) ==
    /\ k \in live[c] \ running[c]
    /\ ~(at = "draining" /\ channel = c /\ handle[c] = k)
    /\ running' = [running EXCEPT ![c] = @ \cup {k}]
    /\ \E m \in {k} \cup Leaked(c) :
          active' = [active EXCEPT ![c] = (IF @ = Untracked THEN {} ELSE @ \ {m}) \cup {k}]
    /\ UNCHANGED <<hookVars, wareVars, linkVars, handle, subVars, streams, refused, faults>>

\* A handler that called the hook under way waits for it.
Waits(c, k) == byHandler /\ channel = c /\ handle[c] = k

Finish(c, k) ==
    /\ k \in running[c]
    /\ ~Waits(c, k)
    /\ running' = [running EXCEPT ![c] = @ \ {k}]
    /\ active' = [active EXCEPT ![c] = Without(@, {k})]
    /\ UNCHANGED <<hookVars, wareVars, linkVars, handle, subVars, streams, refused, faults>>

\* in_progress raises before the try statement: no finally clause, and the
\* message stays in the table.
InProgressFails(c, k) ==
    /\ k \in running[c]
    /\ ~Waits(c, k)
    /\ Fault("progress")
    /\ running' = [running EXCEPT ![c] = @ \ {k}]
    /\ active' = [active EXCEPT ![c] = (@ \ {k}) \cup {MaxMade + faults'}]
    /\ UNCHANGED <<hookVars, wareVars, linkVars, handle, subVars, streams, refused>>

-----------------------------------------------------------------------------
(* service_stopping *)

Unregister(c) == registry' = registry \ {c} /\ UNCHANGED <<started, starts>>

\* unsubscribe returns at once when the channel has no subscription.
ServiceStopping(c, self) ==
    /\ at = "idle"
    /\ c \in registry
    /\ self => SelfStops /\ c \in DOMAIN handle /\ handle[c] \in running[c]
    /\ IF c \in DOMAIN handle
       THEN Goto("waiting", c) /\ byHandler' = self /\ UNCHANGED <<todo, wareVars>>
       ELSE Unregister(c) /\ UNCHANGED hookVars
    /\ UNCHANGED <<linkVars, tableVars, subVars, running, streams, refused, faults>>

\* The channel is unsubscribing already: this call returns, the other waits.
StoppingAgain(c) ==
    /\ at \in {"waiting", "draining"} /\ channel = c /\ c \in registry
    /\ Unregister(c)
    /\ UNCHANGED <<hookVars, linkVars, tableVars, subVars, running, streams, refused, faults>>

Waited_NoTimeout ==  \* mutant: waits until no message is active
    /\ at = "waiting"
    /\ active[channel] \in {Untracked, {}}
    /\ Goto("draining", channel)
    /\ UNCHANGED <<todo, byHandler, wareVars, linkVars, tableVars, subVars, running,
                   streams, refused, faults>>

\* No message is active, or 30 seconds are over.
Waited ==
    /\ at = "waiting"
    /\ Goto("draining", channel)
    /\ UNCHANGED <<todo, byHandler, wareVars, linkVars, tableVars, subVars, running,
                   streams, refused, faults>>

Drained_NoDrain ==  \* mutant: forgets the subscription without drain()
    /\ at = "draining"
    /\ active' = [active EXCEPT ![channel] = StopTracking(@)]
    /\ handle' = [c \in DOMAIN handle \ {channel} |-> handle[c]]
    /\ Unregister(channel)
    /\ HookEnds
    /\ UNCHANGED <<linkVars, subVars, running, streams, refused, faults>>

\* drain() of a subscription that was drained before, or whose connection is
\* closed, raises.
Drainable == handle[channel] \in live[channel]

Drained_Unsubscribes ==  \* mutant: unsubscribe() for drain()
    /\ at = "draining"
    /\ Drainable
    /\ live' = [live EXCEPT ![channel] = @ \ {handle[channel]}]
    /\ active' = [active EXCEPT ![channel] = StopTracking(@)]
    /\ handle' = IF active'[channel] # Untracked THEN handle
                 ELSE [c \in DOMAIN handle \ {channel} |-> handle[c]]
    /\ Unregister(channel)
    /\ HookEnds
    /\ UNCHANGED <<linkVars, made, running, streams, refused, faults>>

\* sub.drain() has waited for the callback; then the tables are cleaned, unless
\* messages are active still: stop_channel_active_messages raises, unsubscribe
\* logs it and returns.
Drained ==
    /\ at = "draining"
    /\ Drainable
    /\ handle[channel] \notin running[channel]
    /\ live' = [live EXCEPT ![channel] = @ \ {handle[channel]}]
    /\ active' = [active EXCEPT ![channel] = StopTracking(@)]
    /\ handle' = IF active'[channel] # Untracked THEN handle
                 ELSE [c \in DOMAIN handle \ {channel} |-> handle[c]]
    /\ Unregister(channel)
    /\ HookEnds
    /\ UNCHANGED <<linkVars, made, running, streams, refused, faults>>

\* drain raises, by a fault or because there is nothing to drain: both tables
\* keep their entries.
DrainFails ==
    /\ at = "draining"
    /\ IF Drainable THEN Fault("drain") ELSE UNCHANGED faults
    /\ Unregister(channel)
    /\ HookEnds
    /\ UNCHANGED <<linkVars, tableVars, subVars, running, streams, refused>>

-----------------------------------------------------------------------------
(* broker_stopped *)

BrokerStopped ==
    /\ at = "idle"
    /\ connected
    /\ stopping' = TRUE
    /\ Goto("closing", NoChannel)
    /\ UNCHANGED <<todo, byHandler, wareVars, connected, tableVars, subVars, running,
                   streams, refused, faults>>

\* The drain is complete, or after ten seconds the callbacks are cancelled: their
\* finally clauses run.  Neither table is cleared.
Disconnected ==
    /\ at = "closing"
    /\ connected' = FALSE
    /\ live' = [c \in Channels |-> {}]
    /\ running' = [c \in Channels |-> {}]
    /\ active' = [c \in Channels |-> Without(active[c], running[c])]
    /\ started' = FALSE
    /\ HookEnds
    /\ UNCHANGED <<registry, starts, stopping, handle, made, streams, refused, faults>>

-----------------------------------------------------------------------------
Subscribing ==
    \/ \E c \in Channels : InitTracking(c) \/ AlreadyTracking(c)
    \/ CreateStream \/ CreateConsumer \/ SubscribeFails

Leaving == Waited \/ Drained \/ DrainFails \/ Disconnected

Next ==
    \/ BrokerStarting \/ BrokerStopped \/ Subscribing \/ Leaving
    \/ \E c \in Channels : ServiceCreated(c) \/ StoppingAgain(c)
    \/ \E c \in Channels, self \in BOOLEAN : ServiceStopping(c, self)
    \/ \E c \in Channels, k \in Subs :
          Take(c, k) \/ Finish(c, k) \/ InProgressFails(c, k)

Spec == Init /\ [][Next]_vars

(* The server answers, handlers end, and a hook that was called goes on.     *)
FairSpec ==
    /\ Spec
    /\ WF_vars(Subscribing) /\ WF_vars(Leaving)
    /\ \A c \in Channels, k \in Subs : WF_vars(Finish(c, k))

-----------------------------------------------------------------------------
(* Properties *)

\* No message of a channel comes twice at a time: the server delivers to one
\* subscription of it at most.
SubscribedOnce == \A c \in Channels : Cardinality(live[c]) <= 1

\* "Unsubscribes all channels for the service": when every service_stopping that
\* was called for a service has returned, it gets no messages and has no handler
\* at work, whatever timed out and whatever else failed before.
Quiet(c) == live[c] = {} /\ running[c] = {}

StoppedIsQuiet == \A c \in Channels \ (registry \cup {channel}) : Quiet(c)

\* The same of each call: not so for one that finds the channel unsubscribing.
EachStopIsQuiet == \A c \in Channels \ registry : Quiet(c)

\* subscribe succeeds unless something failed, the broker was started before, or
\* another channel has its stream's name.
RefusedForAReason ==
    \A c \in refused : \/ faults > 0
                       \/ starts > 1
                       \/ \E d \in Channels \ {c} : StreamOf[d] = StreamOf[c]

\* "Connects adapter and subscribes to all registered channels": when nothing
\* failed a connected broker is started, and its adapter is not stopping.
StartsAgain == at = "idle" /\ connected /\ faults = 0 => started /\ ~stopping

\* The tables and the server: every message in _process_message is in the table
\* of active messages; the handle of a channel is its newest
\* subscription; what the server delivers to has a handle and a connection.
IInv ==
    /\ TypeOK
    /\ started => connected
    /\ at \in {"stream", "consumer"} => channel \in todo /\ active[channel] # Untracked
    /\ at \in {"waiting", "draining"} => channel \in DOMAIN handle
    /\ at \in {"subscribe", "stream", "consumer"} <=> todo # {}
    /\ \A c \in Channels :
          /\ running[c] \subseteq live[c]
          /\ running[c] # {} => active[c] # Untracked /\ running[c] \subseteq active[c]
          /\ live[c] # {} => connected /\ c \in DOMAIN handle /\ live[c] = {handle[c]}
          /\ c \in DOMAIN handle => handle[c] = made[c] /\ HasStream(c)

\* Every hook that is called comes to its end.
HooksEnd == (at # "idle") ~> (at = "idle")
=============================================================================
