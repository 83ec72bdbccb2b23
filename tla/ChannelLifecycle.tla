-------------------------- MODULE ChannelLifecycle --------------------------
(***************************************************************************)
(* middleware.py with adapters/redis.py: how channels come to be consumed  *)
(* and cease to be.  The broker calls four hooks: broker_starting and      *)
(* broker_stopped on its own task, service_created and service_stopping on *)
(* one task per service.  They share the registry, the flag started, the   *)
(* adapter's connection and its table of background tasks, and interleave  *)
(* at every await.  The background loops of one subscription are one pair  *)
(* <<c, k>>, the loops of the k-th subscription to channel c.              *)
(***************************************************************************)
EXTENDS Integers, Sequences, FiniteSets, Functions, Lists

CONSTANTS
    Services,
    ChannelsOf,           \* the channels in each service's schema, in order
    Invalid,              \* those whose definition is refused
    CreateWhileStarting,  \* service_created may begin while broker_starting
                          \* subscribes
    StopWhileBusy,        \* service_stopping may overlap the broker's hooks, and
                          \* broker_stopped any hook of a service
    MaxStarts,            \* bound: how often the broker is started
    MaxFaults             \* bound: subscriptions that fail

Channels == UNION {Range(ChannelsOf[s]) : s \in Services}

ASSUME LifecycleAssumption ==
    /\ IsFiniteSet(Channels)
    /\ \A s \in Services : ChannelsOf[s] \in Seq(Channels) /\ IsInjective(ChannelsOf[s])
    /\ \A s, t \in Services : s # t => Range(ChannelsOf[s]) \cap Range(ChannelsOf[t]) = {}
    /\ Invalid \subseteq Channels
    /\ {CreateWhileStarting, StopWhileBusy} \subseteq BOOLEAN
    /\ MaxStarts \in Nat
    /\ MaxFaults \in Nat

VARIABLES
    broker,         \* where the broker's task is
    service,        \* where each service's task is
    todo,           \* channels the broker's task has yet to subscribe
    work,           \* channels each service's task has yet to go through
    registry,       \* channel_registry
    started,        \* middleware.started
    connected,      \* adapter._connected
    table,          \* adapter._background_tasks: the subscription of each
                    \* channel it holds
    joined,         \* subscriptions made to each channel so far
    loops,          \* the subscriptions whose loops run
    unsubscribing,  \* channels with unsubscribing set
    visited, size,  \* disconnect's iteration over the table
    starts, faults

brokerVars   == <<broker, todo, starts>>
serviceVars  == <<service, work>>
tableVars    == <<table, joined, loops>>
closeVars    == <<visited, size>>
vars == <<brokerVars, serviceVars, registry, started, connected, tableVars,
          unsubscribing, closeVars, faults>>

Loops == {<<c, k>> : c \in Channels, k \in 1 .. MaxStarts + 1}

TypeOK ==
    /\ broker \in {"idle", "connecting", "joining", "running", "cancelling",
                   "closing", "failed"}
    /\ service \in [Services -> {"absent", "joining", "present", "waiting",
                                 "gathering", "gone", "failed"}]
    /\ todo \in Seq(Channels)
    /\ work \in [Services -> Seq(Channels)]
    /\ registry \in Seq(Channels)
    /\ started \in BOOLEAN /\ connected \in BOOLEAN
    /\ \A c \in DOMAIN table : <<c, table[c]>> \in Loops
    /\ joined \in [Channels -> 0 .. MaxStarts + 1]
    /\ loops \subseteq Loops
    /\ unsubscribing \subseteq Channels
    /\ visited \subseteq Channels
    /\ size \in 0 .. Cardinality(Channels)
    /\ starts \in 0 .. MaxStarts
    /\ faults \in 0 .. MaxFaults

Init ==
    /\ broker = "idle"
    /\ service = [s \in Services |-> "absent"]
    /\ todo = <<>>
    /\ work = [s \in Services |-> <<>>]
    /\ registry = <<>>
    /\ started = FALSE /\ connected = FALSE
    /\ table = <<>>
    /\ joined = [c \in Channels |-> 0]
    /\ loops = {}
    /\ unsubscribing = {}
    /\ visited = {} /\ size = 0
    /\ starts = 0 /\ faults = 0

-----------------------------------------------------------------------------
(* The adapter: subscribe and unsubscribe *)

\* subscribe, after the group was created: start the loops, note them.
Join(c) ==
    /\ joined' = [joined EXCEPT ![c] = @ + 1]
    /\ loops' = loops \cup {<<c, joined'[c]>>}
    /\ table' = [d \in DOMAIN table \cup {c} |-> IF d = c THEN joined'[c] ELSE table[d]]

Cancel(c) == loops' = loops \ {<<c, table[c]>>}

\* A loop that looks at channel.unsubscribing ends by itself.
LoopExits(l) ==
    /\ l \in loops /\ l[1] \in unsubscribing
    /\ loops' = loops \ {l}
    /\ UNCHANGED <<brokerVars, serviceVars, registry, started, connected, table,
                   joined, unsubscribing, closeVars, faults>>

Fault == faults < MaxFaults /\ faults' = faults + 1

Stopping(s) == service[s] \in {"waiting", "gathering"}

-----------------------------------------------------------------------------
(* broker_starting *)

BrokerStarting ==
    /\ broker = "idle"
    /\ StopWhileBusy \/ \A s \in Services : ~Stopping(s)
    /\ starts < MaxStarts
    /\ starts' = starts + 1
    /\ broker' = "connecting"
    /\ UNCHANGED <<todo, serviceVars, registry, started, connected, tableVars,
                   unsubscribing, closeVars, faults>>

\* What is left to subscribe; with nothing left the hook sets started.
Continue(rest) ==
    /\ todo' = rest
    /\ broker' = IF rest = <<>> THEN "running" ELSE "joining"
    /\ started' = (rest = <<>>)

\* connect() returns; the for statement takes the registry as it is now.
BrokerConnects ==
    /\ broker = "connecting"
    /\ connected' = TRUE
    /\ Continue(registry)
    /\ UNCHANGED <<starts, serviceVars, registry, tableVars, unsubscribing, closeVars, faults>>

BrokerJoins ==
    /\ broker = "joining"
    /\ Join(Head(todo))
    /\ Continue(Tail(todo))
    /\ UNCHANGED <<starts, serviceVars, registry, connected, unsubscribing, closeVars, faults>>

\* SubscriptionError ends the hook: started stays False.
BrokerJoinFails ==
    /\ broker = "joining"
    /\ Fault
    /\ broker' = "failed"
    /\ todo' = <<>>
    /\ UNCHANGED <<starts, serviceVars, registry, started, connected, tableVars,
                   unsubscribing, closeVars>>

-----------------------------------------------------------------------------
(* service_created *)

\* The definitions up to the first that _parse_channel_definition refuses.
Parsed(rest) == SubSeq(rest, 1, Cardinality({i \in DOMAIN rest :
                                   \A j \in 1 .. i : rest[j] \notin Invalid}))

\* Register what comes next.  Before the broker has started that is all of
\* rest at once; afterwards one channel at a time, each with its subscribe.  A
\* definition that is refused ends the hook: what came before it stays.
Register(s, rest) ==
    LET all == Parsed(rest)
        one == IF started /\ all # <<>> THEN <<Head(all)>> ELSE all
    IN
    /\ registry' = registry \o one
    /\ work' = [work EXCEPT ![s] = IF started /\ connected /\ one # <<>> THEN rest ELSE <<>>]
    /\ service' = [service EXCEPT ![s] =
          IF rest = <<>> \/ (~started /\ all = rest) THEN "present"
          ELSE IF started /\ connected /\ one # <<>> THEN "joining" ELSE "failed"]

ServiceCreated_OnlyRegisters(s) ==  \* mutant: left to broker_starting
    /\ service[s] = "absent"
    /\ CreateWhileStarting \/ broker # "joining"
    /\ StopWhileBusy \/ broker \notin {"cancelling", "closing"}
    /\ registry' = registry \o ChannelsOf[s]
    /\ service' = [service EXCEPT ![s] = "present"]
    /\ UNCHANGED <<brokerVars, work, started, connected, tableVars, unsubscribing,
                   closeVars, faults>>

ServiceCreated(s) ==
    /\ service[s] = "absent"
    /\ CreateWhileStarting \/ broker # "joining"
    /\ StopWhileBusy \/ broker \notin {"cancelling", "closing"}
    /\ Register(s, ChannelsOf[s])
    /\ UNCHANGED <<brokerVars, started, connected, tableVars, unsubscribing,
                   closeVars, faults>>

ServiceJoins(s) ==
    /\ service[s] = "joining"
    /\ connected
    /\ Join(Head(work[s]))
    /\ Register(s, Tail(work[s]))
    /\ UNCHANGED <<brokerVars, started, connected, unsubscribing, closeVars, faults>>

\* XGROUP CREATE raises: by chance, or because the connection was closed.
ServiceJoinFails(s) ==
    /\ service[s] = "joining"
    /\ IF connected THEN Fault ELSE UNCHANGED faults
    /\ service' = [service EXCEPT ![s] = "failed"]
    /\ work' = [work EXCEPT ![s] = <<>>]
    /\ UNCHANGED <<brokerVars, registry, started, connected, tableVars,
                   unsubscribing, closeVars>>

-----------------------------------------------------------------------------
(* service_stopping *)

Own(s) == Range(ChannelsOf[s])

\* The next channel is flagged and waited for; after the last one the service
\* is removed from the registry.
Leave(s, rest) ==
    /\ work' = [work EXCEPT ![s] = rest]
    /\ service' = [service EXCEPT ![s] = IF rest = <<>> THEN "gone" ELSE "waiting"]
    /\ IF rest = <<>>
       THEN /\ registry' = Keep(registry, Channels \ Own(s))
            /\ UNCHANGED unsubscribing
       ELSE /\ unsubscribing' = unsubscribing \cup {Head(rest)}
            /\ UNCHANGED registry

ServiceStopping(s) ==
    /\ service[s] \in {"present", "failed"}
    /\ StopWhileBusy \/ broker \in {"idle", "running", "failed"}
    /\ Leave(s, Keep(registry, Own(s)))
    /\ UNCHANGED <<brokerVars, started, connected, tableVars, closeVars, faults>>

\* No message is active any more, or the wait is over: cancel the loops.
ServiceWaited_NoCancel(s) ==  \* mutant: the loops are left to end by themselves
    /\ service[s] = "waiting"
    /\ table' = [d \in DOMAIN table \ {Head(work[s])} |-> table[d]]
    /\ Leave(s, Tail(work[s]))
    /\ UNCHANGED <<brokerVars, started, connected, joined, loops, closeVars, faults>>

ServiceWaited(s) ==
    /\ service[s] = "waiting"
    /\ IF Head(work[s]) \in DOMAIN table
       THEN /\ Cancel(Head(work[s]))
            /\ service' = [service EXCEPT ![s] = "gathering"]
            /\ UNCHANGED <<work, registry, unsubscribing>>
       ELSE Leave(s, Tail(work[s])) /\ UNCHANGED loops
    /\ UNCHANGED <<brokerVars, started, connected, table, joined, closeVars, faults>>

\* del _background_tasks[channel.id]: KeyError if disconnect has cleared it.
ServiceGathered(s) ==
    /\ service[s] = "gathering"
    /\ LET c == Head(work[s]) IN
       IF c \in DOMAIN table
       THEN /\ table' = [d \in DOMAIN table \ {c} |-> table[d]]
            /\ Leave(s, Tail(work[s]))
       ELSE /\ service' = [service EXCEPT ![s] = "failed"]
            /\ work' = [work EXCEPT ![s] = <<>>]
            /\ UNCHANGED <<table, registry, unsubscribing>>
    /\ UNCHANGED <<brokerVars, started, connected, joined, loops, closeVars, faults>>

-----------------------------------------------------------------------------
(* broker_stopped *)

Visit_OnlyClears(seen) ==  \* mutant: the table is cleared, nothing is cancelled
    /\ table' = <<>>
    /\ visited' = seen
    /\ broker' = "closing"
    /\ UNCHANGED loops

\* The next entry of the table: cancel its loops and gather them; after the
\* last one clear the table and close the connection.
Visit(seen) ==
    \/ \E c \in DOMAIN table \ seen :
          /\ Cancel(c)
          /\ visited' = seen \cup {c}
          /\ broker' = "cancelling"
          /\ UNCHANGED table
    \/ /\ DOMAIN table \subseteq seen
       /\ table' = <<>>
       /\ visited' = {}
       /\ broker' = "closing"
       /\ UNCHANGED loops

BrokerStopped ==
    /\ broker \in {"running", "failed"} /\ connected
    /\ StopWhileBusy \/ \A s \in Services : service[s] # "joining" /\ ~Stopping(s)
    /\ size' = Cardinality(DOMAIN table)
    /\ Visit({})
    /\ UNCHANGED <<todo, starts, serviceVars, registry, started, connected, joined,
                   unsubscribing, faults>>

\* The table changed its size while disconnect iterated over it: RuntimeError.
BrokerGathered ==
    /\ broker = "cancelling"
    /\ IF Cardinality(DOMAIN table) # size
       THEN /\ broker' = "failed" /\ visited' = {}
            /\ UNCHANGED <<table, loops>>
       ELSE Visit(visited)
    /\ UNCHANGED <<todo, starts, serviceVars, registry, started, connected, joined,
                   unsubscribing, size, faults>>

BrokerCloses_StaysStarted ==  \* mutant: started is not reset
    /\ broker = "closing"
    /\ broker' = "idle"
    /\ connected' = FALSE
    /\ UNCHANGED <<todo, starts, serviceVars, registry, started, tableVars,
                   unsubscribing, closeVars, faults>>

BrokerCloses ==
    /\ broker = "closing"
    /\ broker' = "idle"
    /\ connected' = FALSE
    /\ started' = FALSE
    /\ UNCHANGED <<todo, starts, serviceVars, registry, tableVars, unsubscribing,
                   closeVars, faults>>

-----------------------------------------------------------------------------
BrokerStep ==
    \/ BrokerStarting \/ BrokerConnects \/ BrokerJoins \/ BrokerJoinFails
    \/ BrokerStopped \/ BrokerGathered \/ BrokerCloses

ServiceStep(s) ==
    \/ ServiceCreated(s) \/ ServiceJoins(s) \/ ServiceJoinFails(s)
    \/ ServiceStopping(s) \/ ServiceWaited(s) \/ ServiceGathered(s)

Next ==
    \/ BrokerStep
    \/ \E s \in Services : ServiceStep(s)
    \/ \E l \in Loops : LoopExits(l)

Spec == Init /\ [][Next]_vars

-----------------------------------------------------------------------------
(* Properties *)

Consumed(c) == \E l \in loops : l[1] = c

\* "Connects adapter and subscribes to all registered channels": while the
\* broker runs, every channel of a service that was created is consumed,
\* whether it was registered before, while or after the broker started.
AllSubscribed ==
    broker = "running" =>
        \A s \in Services : service[s] = "present" => \A c \in Own(s) : Consumed(c)

\* Every running loop that would not end by itself is in the table, and its
\* channel in the registry, so that unsubscribe and disconnect can find and
\* cancel it, also when its service was created in part; no channel is consumed
\* twice.
LoopsTracked ==
    \A l \in loops : \/ l[1] \in unsubscribing
                     \/ /\ l[1] \in DOMAIN table /\ table[l[1]] = l[2]
                        /\ l[1] \in Range(registry)

\* What the hooks rely on across their awaits: started implies a connection, a
\* hook that is under way has a channel to work on, the table names the newest
\* subscription of a channel, and the loops that are being gathered have ended.
IInv ==
    /\ TypeOK
    /\ started => connected
    /\ broker = "joining" <=> todo # <<>>
    /\ \A s \in Services :
          /\ service[s] \in {"joining", "waiting", "gathering"} <=> work[s] # <<>>
          /\ service[s] = "gathering" => ~Consumed(Head(work[s]))
    /\ \A l \in loops : l[2] <= joined[l[1]]
    /\ \A c \in DOMAIN table : table[c] = joined[c]

\* Nothing outlives its owner: no loop runs without a connection, and a service
\* that was stopped has neither loops nor registered channels.
NothingLeft ==
    /\ ~connected => loops = {}
    /\ \A s \in Services : service[s] = "gone" =>
          \A c \in Own(s) : ~Consumed(c) /\ c \notin Range(registry)
=============================================================================
