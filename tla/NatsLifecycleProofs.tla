------------------------- MODULE NatsLifecycleProofs -------------------------
(***************************************************************************)
(* Safety of NatsLifecycle for every set of channels, every naming of      *)
(* streams and every number of restarts: type correctness in every         *)
(* configuration; when no service is created twice, why a subscribe is     *)
(* refused; and, when besides broker_starting is not repeated and drain()  *)
(* does not raise, that a channel is subscribed once at most and that a    *)
(* stopped service is quiet.                                               *)
(***************************************************************************)
EXTENDS NatsLifecycle, FiniteSetTheorems, TLAPS

USE LifeAssumption

\* Subscriptions and what stands for the messages that stay in the table.
LEMMA NumbersNat ==
  /\ Subs \subseteq Ids /\ Ids \subseteq Nat
  /\ \A S \in SUBSET Ids : Untracked # S
  BY DEF Subs, Ids

-----------------------------------------------------------------------------
(* What holds in every configuration. *)
TypeInv ==
    /\ at \in {"idle", "subscribe", "stream", "consumer", "waiting", "draining", "closing"}
    /\ todo \subseteq Channels
    /\ channel \in Channels \cup {NoChannel}
    /\ byHandler \in BOOLEAN
    /\ registry \subseteq Channels
    /\ started \in BOOLEAN /\ connected \in BOOLEAN /\ stopping \in BOOLEAN
    /\ active \in [Channels -> {Untracked} \cup SUBSET Ids]
    /\ running \in [Channels -> SUBSET Subs]
    /\ live \in [Channels -> SUBSET Subs]
    /\ made \in [Channels -> 0 .. MaxMade]
    /\ refused \subseteq Channels
    /\ starts \in 0 .. MaxStarts /\ faults \in 0 .. MaxFaults

\* The handle of a channel is its newest subscription, and its stream exists.
HandleInv ==
    /\ DOMAIN handle \subseteq Channels
    /\ \A c \in DOMAIN handle : handle[c] = made[c] /\ made[c] # 0 /\ HasStream(c)
    /\ \A s \in DOMAIN streams : streams[s] \in Channels /\ StreamOf[streams[s]] = s

\* Where the hook under way is and what it works on.
HookInv ==
    /\ started => connected
    /\ todo # {} => connected
    /\ at \in {"stream", "consumer"} => channel \in todo
    /\ at \in {"idle", "subscribe", "closing"} => channel = NoChannel
    /\ at \in {"waiting", "draining"} => channel \in DOMAIN handle
    /\ at \in {"subscribe", "stream", "consumer"} <=> todo # {}
    /\ todo \subseteq registry
    /\ \A c \in todo : made[c] < MaxMade

\* Every message in _process_message is in the table of active messages.
TableInv ==
    \A c \in Channels :
        /\ running[c] \subseteq live[c]
        /\ running[c] # {} => active[c] # Untracked /\ running[c] \subseteq active[c]

GInv == TypeInv /\ HandleInv /\ HookInv /\ TableInv

LEMMA InitGInv == Init => GInv
  <1> SUFFICES ASSUME Init PROVE GInv
    OBVIOUS
  <1> USE DEF Init
  <1>1. TypeInv
    <2>1. made \in [Channels -> 0 .. MaxMade]
      OBVIOUS
    <2>2. starts \in 0 .. MaxStarts /\ faults \in 0 .. MaxFaults
      OBVIOUS
    <2>3. started \in BOOLEAN /\ connected \in BOOLEAN /\ stopping \in BOOLEAN /\ byHandler \in BOOLEAN
      OBVIOUS
    <2>4. /\ active \in [Channels -> {Untracked} \cup SUBSET Ids]
          /\ running \in [Channels -> SUBSET Subs]
          /\ live \in [Channels -> SUBSET Subs]
      OBVIOUS
    <2> QED
      BY <2>1, <2>2, <2>3, <2>4 DEF TypeInv
  <1>2. HandleInv
    <2>1. DOMAIN handle = {} /\ DOMAIN streams = {}
      OBVIOUS
    <2> QED
      BY <2>1 DEF HandleInv
  <1>3. HookInv /\ TableInv
    BY DEF HookInv, TableInv
  <1> QED
    BY <1>1, <1>2, <1>3 DEF GInv

LEMMA TypeStep ==
  ASSUME GInv, [Next]_vars
  PROVE  TypeInv'
  <1> USE NumbersNat DEF hookVars, wareVars, linkVars, tableVars, subVars, Goto, HookEnds, Fault
  <1>0. TypeInv
    BY DEF GInv
  <1> USE <1>0 DEF TypeInv
  <1>c. ASSUME NEW rest \in SUBSET Channels, Continue(rest)
        PROVE  /\ at' \in {"idle", "subscribe"} /\ todo' \subseteq Channels
               /\ channel' \in Channels \cup {NoChannel}
               /\ byHandler' \in BOOLEAN /\ started' \in BOOLEAN
    BY <1>c DEF Continue
  <1>r. ASSUME NEW c \in Channels, SubscribeRaises(c), faults' \in 0 .. MaxFaults
        PROVE  TypeInv'
    BY <1>r DEF SubscribeRaises
  <1>f. ASSUME NEW kind, Fault(kind) PROVE faults' \in 0 .. MaxFaults
    BY <1>f
  <1>1. ASSUME NEW c \in Channels, ServiceCreated(c) PROVE TypeInv'
    BY <1>1, <1>c DEF ServiceCreated, Register
  <1>2. CASE BrokerStarting
    BY <1>2, <1>c DEF BrokerStarting
  <1>3. ASSUME NEW c \in Channels, InitTracking(c) PROVE TypeInv'
    BY <1>3 DEF InitTracking
  <1>4. ASSUME NEW c \in Channels, AlreadyTracking(c) PROVE TypeInv'
    BY <1>4, <1>r DEF AlreadyTracking
  <1>5. CASE CreateStream
    BY <1>5 DEF CreateStream
  <1>6. CASE CreateConsumer
    <2>1. channel \in todo /\ channel \in Channels /\ made[channel] < MaxMade
      BY <1>6 DEF CreateConsumer, GInv, HookInv
    <2>2. made[channel] + 1 \in Subs /\ made[channel] + 1 \in 0 .. MaxMade
      BY <2>1 DEF Subs
    <2> QED
      BY <1>6, <1>c, <2>1, <2>2 DEF CreateConsumer
  <1>7. CASE SubscribeFails
    <2>1. channel \in Channels
      BY <1>7 DEF SubscribeFails, GInv, HookInv
    <2>2. faults' \in 0 .. MaxFaults
      BY <1>7, <1>f DEF SubscribeFails
    <2> QED
      BY <1>7, <1>r, <2>1, <2>2 DEF SubscribeFails
  <1>8. ASSUME NEW c \in Channels, NEW k \in Subs, Take(c, k) PROVE TypeInv'
    <2>1. k \in Ids
      OBVIOUS
    <2>2. active' \in [Channels -> {Untracked} \cup SUBSET Ids]
      <3>1. PICK m : active' = [active EXCEPT ![c] =
                                  (IF @ = Untracked THEN {} ELSE @ \ {m}) \cup {k}]
        BY <1>8 DEF Take
      <3>2. (IF active[c] = Untracked THEN {} ELSE active[c] \ {m}) \cup {k} \in SUBSET Ids
        BY <2>1
      <3> QED
        BY <3>1, <3>2
    <2> QED
      BY <1>8, <2>2 DEF Take
  <1>9. ASSUME NEW c \in Channels, NEW k \in Subs, Finish(c, k) PROVE TypeInv'
    BY <1>9 DEF Finish, Without
  <1>10. ASSUME NEW c \in Channels, NEW k \in Subs, InProgressFails(c, k) PROVE TypeInv'
    <2>1. faults' \in 0 .. MaxFaults /\ faults' # 0
      BY <1>10 DEF InProgressFails
    <2>2. MaxMade + faults' \in Ids
      BY <2>1 DEF Ids
    <2>3. k \in running[c] /\ active[c] \in SUBSET Ids
      BY <1>10 DEF InProgressFails, GInv, TableInv
    <2>4. active' \in [Channels -> {Untracked} \cup SUBSET Ids]
      BY <1>10, <2>2, <2>3 DEF InProgressFails
    <2> QED
      BY <1>10, <2>1, <2>4 DEF InProgressFails
  <1>11. ASSUME NEW c \in Channels, NEW self \in BOOLEAN, ServiceStopping(c, self)
         PROVE  TypeInv'
    BY <1>11 DEF ServiceStopping, Unregister
  <1>12. ASSUME NEW c \in Channels, StoppingAgain(c) PROVE TypeInv'
    BY <1>12 DEF StoppingAgain, Unregister
  <1>13. CASE Waited
    BY <1>13 DEF Waited
  <1>14. CASE Drained
    BY <1>14 DEF Drained, StopTracking, Unregister
  <1>15. CASE DrainFails
    <2>1. faults' \in 0 .. MaxFaults
      BY <1>15 DEF DrainFails
    <2> QED
      BY <1>15, <2>1 DEF DrainFails, Unregister
  <1>16. CASE BrokerStopped
    BY <1>16 DEF BrokerStopped
  <1>17. CASE Disconnected
    <2>1. active' \in [Channels -> {Untracked} \cup SUBSET Ids]
      <3>1. ASSUME NEW c \in Channels
            PROVE  Without(active[c], running[c]) \in {Untracked} \cup SUBSET Ids
        BY DEF Without
      <3>2. active' = [c \in Channels |-> Without(active[c], running[c])]
        BY <1>17 DEF Disconnected
      <3> QED
        BY <3>1, <3>2
    <2>2. /\ live' \in [Channels -> SUBSET Subs] /\ running' \in [Channels -> SUBSET Subs]
          /\ connected' = FALSE /\ started' = FALSE
      BY <1>17 DEF Disconnected
    <2>3. /\ at' = "idle" /\ channel' = NoChannel /\ todo' = {} /\ byHandler' = FALSE
          /\ UNCHANGED <<registry, starts, stopping, made, refused, faults>>
      BY <1>17 DEF Disconnected
    <2> QED
      BY <2>1, <2>2, <2>3
  <1>18. CASE UNCHANGED vars
    BY <1>18 DEF vars
  <1> QED
    BY <1>1, <1>2, <1>3, <1>4, <1>5, <1>6, <1>7, <1>8, <1>9, <1>10, <1>11, <1>12, <1>13,
       <1>14, <1>15, <1>16, <1>17, <1>18
    DEF Next, Subscribing, Leaving

LEMMA HandleStep ==
  ASSUME GInv, [Next]_vars
  PROVE  HandleInv'
  <1> USE DEF hookVars, wareVars, linkVars, tableVars, subVars
  <1>0. HandleInv /\ TypeInv
    BY DEF GInv
  <1>1. ASSUME DOMAIN handle' \subseteq DOMAIN handle, UNCHANGED <<made, streams>>,
               \A c \in DOMAIN handle' : handle'[c] = handle[c]
        PROVE  HandleInv'
    BY <1>0, <1>1 DEF HandleInv, HasStream
  <1>2. CASE CreateStream
    <2> DEFINE s0 == StreamOf[channel]
    <2>1. channel \in Channels
      BY <1>2, <1>0 DEF CreateStream, GInv, HookInv, TypeInv
    <2>2. /\ DOMAIN streams' = DOMAIN streams \cup {s0}
          /\ \A s \in DOMAIN streams : streams'[s] = streams[s]
          /\ s0 \notin DOMAIN streams => streams'[s0] = channel
      BY <1>2 DEF CreateStream
    <2>3. \A c : HasStream(c) => HasStream(c)'
      BY <2>2 DEF HasStream, Range
    <2>4. UNCHANGED <<handle, made>>
      BY <1>2 DEF CreateStream
    <2> QED
      BY <1>0, <2>1, <2>2, <2>3, <2>4 DEF HandleInv
  <1>3. CASE CreateConsumer
    <2>1. channel \in Channels /\ HasStream(channel) /\ made[channel] \in Nat
      BY <1>3, <1>0 DEF CreateConsumer, GInv, HookInv, TypeInv
    <2>2. /\ DOMAIN handle' = DOMAIN handle \cup {channel}
          /\ handle'[channel] = made[channel] + 1
          /\ \A c \in DOMAIN handle : c # channel => handle'[c] = handle[c]
          /\ made'[channel] = made[channel] + 1
          /\ \A c \in Channels : c # channel => made'[c] = made[c]
          /\ streams' = streams
      BY <1>3, <1>0, <2>1 DEF CreateConsumer, TypeInv
    <2>3. made[channel] + 1 # 0
      BY <2>1
    <2> QED
      BY <1>0, <2>1, <2>2, <2>3 DEF HandleInv, HasStream
  <1>4. CASE Drained
    BY <1>4, <1>1 DEF Drained
  <1>5. CASE UNCHANGED <<handle, made, streams>>
    BY <1>5, <1>1
  <1> QED
    BY <1>2, <1>3, <1>4, <1>5
    DEF Next, Subscribing, Leaving, ServiceCreated, BrokerStarting, InitTracking,
        AlreadyTracking, SubscribeFails, SubscribeRaises, Take, Finish, InProgressFails,
        ServiceStopping, StoppingAgain, Waited, DrainFails, BrokerStopped, Disconnected, vars

\* What Continue does for a hook that has these channels left.
LEMMA ContinueFacts ==
  ASSUME NEW rest, Continue(rest)
  PROVE  /\ todo' = rest /\ channel' = NoChannel
         /\ at' = IF rest = {} THEN "idle" ELSE "subscribe"
         /\ started' = IF rest = {} THEN TRUE ELSE started
  BY DEF Continue, HookEnds, Goto

LEMMA HookStep ==
  ASSUME GInv, [Next]_vars
  PROVE  HookInv'
  <1> USE DEF hookVars, wareVars, linkVars, tableVars, subVars, Goto, HookEnds
  <1>0. HookInv /\ TypeInv /\ HandleInv
    BY DEF GInv
  <1>t. (at = "idle" => todo = {}) /\ (at = "closing" => todo = {})
        /\ (at \in {"waiting", "draining"} => todo = {})
    BY <1>0 DEF HookInv
  <1>1. ASSUME NEW c \in Channels, ServiceCreated(c) PROVE HookInv'
    <2>1. at = "idle" /\ todo = {} /\ made[c] < MaxMade
      BY <1>1, <1>t DEF ServiceCreated
    <2>2. /\ registry' = registry \cup {c}
          /\ UNCHANGED <<made, handle, connected>>
      BY <1>1 DEF ServiceCreated, Register
    <2>3. CASE started
      <3>1. Continue({c})
        BY <1>1, <2>3 DEF ServiceCreated
      <3>2. todo' = {c} /\ channel' = NoChannel /\ at' = "subscribe" /\ started' = started
        BY <3>1, ContinueFacts
      <3> QED
        BY <1>0, <2>1, <2>2, <2>3, <3>2 DEF HookInv
    <2>4. CASE ~started
      BY <1>0, <1>1, <2>1, <2>2, <2>4 DEF ServiceCreated, HookInv
    <2> QED
      BY <2>3, <2>4
  <1>2. CASE BrokerStarting
    <2>1. /\ todo' = registry /\ channel' = NoChannel
          /\ at' = IF registry = {} THEN "idle" ELSE "subscribe"
          /\ connected' = TRUE
          /\ UNCHANGED <<registry, handle, made>>
          /\ \A c \in registry : made[c] < MaxMade
      BY <1>2, ContinueFacts DEF BrokerStarting
    <2> QED
      BY <2>1 DEF HookInv
  <1>3. ASSUME NEW c \in Channels, InitTracking(c) PROVE HookInv'
    BY <1>0, <1>3 DEF InitTracking, HookInv
  <1>4. ASSUME NEW c \in Channels, SubscribeRaises(c) PROVE HookInv'
    BY <1>0, <1>4 DEF SubscribeRaises, HookInv
  <1>5. CASE CreateStream
    BY <1>0, <1>5 DEF CreateStream, HookInv
  <1>6. CASE CreateConsumer
    <2> DEFINE rest == todo \ {channel}
    <2>1. /\ todo' = rest /\ channel' = NoChannel
          /\ at' = IF rest = {} THEN "idle" ELSE "subscribe"
          /\ started' = IF rest = {} THEN TRUE ELSE started
      BY <1>6, ContinueFacts DEF CreateConsumer
    <2>2. connected /\ at = "consumer"
      BY <1>0, <1>6 DEF CreateConsumer, HookInv
    <2>3. UNCHANGED <<registry, connected>> /\ \A c \in rest : made'[c] = made[c]
      BY <1>0, <1>6 DEF CreateConsumer, TypeInv
    <2> QED
      BY <1>0, <2>1, <2>2, <2>3 DEF HookInv
  <1>7. ASSUME NEW c \in Channels, NEW self \in BOOLEAN, ServiceStopping(c, self)
        PROVE  HookInv'
    <2>1. at = "idle" /\ todo = {} /\ UNCHANGED <<todo, handle, made, connected, started>>
      BY <1>7, <1>t DEF ServiceStopping, Unregister
    <2>2. \/ at' = "waiting" /\ channel' = c /\ c \in DOMAIN handle
          \/ UNCHANGED <<at, channel>>
      BY <1>7 DEF ServiceStopping
    <2> QED
      BY <1>0, <2>1, <2>2 DEF HookInv
  <1>8. ASSUME NEW c \in Channels, StoppingAgain(c) PROVE HookInv'
    BY <1>0, <1>t, <1>8 DEF StoppingAgain, Unregister, HookInv
  <1>9. CASE Waited
    BY <1>0, <1>t, <1>9 DEF Waited, HookInv
  <1>10. CASE Drained
    BY <1>0, <1>10 DEF Drained, Unregister, HookInv
  <1>11. CASE DrainFails
    BY <1>0, <1>11 DEF DrainFails, Unregister, HookInv
  <1>12. CASE BrokerStopped
    BY <1>0, <1>t, <1>12 DEF BrokerStopped, HookInv
  <1>13. CASE Disconnected
    BY <1>0, <1>13 DEF Disconnected, HookInv
  <1>14. CASE UNCHANGED <<hookVars, wareVars, linkVars, handle, made>>
    BY <1>0, <1>14 DEF HookInv
  <1>15. CASE SubscribeFails
    <2>1. channel \in Channels
      BY <1>0, <1>15 DEF SubscribeFails, HookInv, TypeInv
    <2> QED
      BY <1>4, <1>15, <2>1 DEF SubscribeFails
  <1>16. ASSUME NEW c \in Channels, AlreadyTracking(c) PROVE HookInv'
    BY <1>4, <1>16 DEF AlreadyTracking
  <1>17. ASSUME NEW c \in Channels, NEW k \in Subs,
                Take(c, k) \/ Finish(c, k) \/ InProgressFails(c, k)
         PROVE  HookInv'
    BY <1>14, <1>17 DEF Take, Finish, InProgressFails
  <1>18. CASE UNCHANGED vars
    BY <1>14, <1>18 DEF vars
  <1> QED
    BY <1>1, <1>2, <1>3, <1>4, <1>5, <1>6, <1>7, <1>8, <1>9, <1>10, <1>11, <1>12, <1>13,
       <1>15, <1>16, <1>17, <1>18
    DEF Next, Subscribing, Leaving

LEMMA TableStep ==
  ASSUME GInv, [Next]_vars
  PROVE  TableInv'
  <1> USE DEF hookVars, wareVars, linkVars, tableVars, subVars
  <1>0. TableInv /\ TypeInv
    BY DEF GInv
  <1>u. \A S \in SUBSET Ids : Untracked # S
    BY NumbersNat
  <1>1. ASSUME NEW c \in Channels, InitTracking(c) PROVE TableInv'
    BY <1>0, <1>1 DEF InitTracking, TableInv, TypeInv
  <1>2. CASE CreateConsumer
    <2>1. channel \in Channels
      BY <1>2, <1>0 DEF CreateConsumer, GInv, HookInv, TypeInv
    <2>2. UNCHANGED <<active, running>> /\ \A c \in Channels : live[c] \subseteq live'[c]
      BY <1>0, <1>2, <2>1 DEF CreateConsumer, TypeInv
    <2> QED
      BY <1>0, <2>2 DEF TableInv
  <1>3. ASSUME NEW c \in Channels, NEW k \in Subs, Take(c, k) PROVE TableInv'
    <2>1. PICK m \in {k} \cup Leaked(c) :
            active' = [active EXCEPT ![c] =
                         (IF @ = Untracked THEN {} ELSE @ \ {m}) \cup {k}]
      BY <1>3 DEF Take
    <2>2. /\ running'[c] = running[c] \cup {k}
          /\ active'[c] = (IF active[c] = Untracked THEN {} ELSE active[c] \ {m}) \cup {k}
          /\ k \in live[c] /\ live' = live
          /\ \A d \in Channels : d # c => running'[d] = running[d] /\ active'[d] = active[d]
      BY <1>0, <1>3, <2>1 DEF Take, TypeInv
    <2>3. active'[c] \subseteq Ids
      BY <1>0, <2>2, NumbersNat DEF TypeInv
    \* A leaked message is not what stands for a subscription at work.
    <2>4. m \notin running[c]
      <3>1. m = k \/ m \notin Subs
        BY DEF Leaked
      <3> QED
        BY <1>0, <1>3, <3>1 DEF Take, TypeInv
    <2> QED
      BY <1>0, <1>u, <2>2, <2>3, <2>4 DEF TableInv
  <1>4. ASSUME NEW c \in Channels, NEW k \in Subs, Finish(c, k) PROVE TableInv'
    <2>1. /\ running'[c] = running[c] \ {k} /\ active'[c] = Without(active[c], {k})
          /\ live' = live
          /\ \A d \in Channels : d # c => running'[d] = running[d] /\ active'[d] = active[d]
      BY <1>0, <1>4 DEF Finish, TypeInv
    <2>2. running'[c] # {} => active'[c] # Untracked /\ running'[c] \subseteq active'[c]
      <3>1. CASE active[c] = Untracked
        BY <1>0, <2>1, <3>1 DEF TableInv
      <3>2. CASE active[c] # Untracked
        <4>1. active[c] \subseteq Ids
          BY <1>0, <3>2 DEF TypeInv
        <4>2. running[c] \subseteq active[c]
          BY <1>0 DEF TableInv
        <4>3. active[c] \ {k} # Untracked
          BY <1>u, <4>1
        <4> QED
          BY <2>1, <3>2, <4>2, <4>3 DEF Without
      <3> QED
        BY <3>1, <3>2
    <2> QED
      BY <1>0, <2>1, <2>2 DEF TableInv
  <1>5. ASSUME NEW c \in Channels, NEW k \in Subs, InProgressFails(c, k) PROVE TableInv'
    <2>1. /\ running'[c] = running[c] \ {k} /\ k \in running[c] /\ live' = live
          /\ active'[c] = (active[c] \ {k}) \cup {MaxMade + faults'}
          /\ \A d \in Channels : d # c => running'[d] = running[d] /\ active'[d] = active[d]
      BY <1>0, <1>5 DEF InProgressFails, TypeInv
    <2>2. active'[c] # Untracked
      <3>1. active[c] \subseteq Ids
        BY <1>0, <2>1 DEF TableInv, TypeInv
      <3>2. faults \in Nat /\ faults < MaxFaults /\ faults' = faults + 1
        BY <1>0, <1>5 DEF InProgressFails, Fault, TypeInv
      <3>3. MaxMade + faults' \in Ids
        BY <3>2 DEF Ids
      <3>4. active'[c] \in SUBSET Ids
        BY <2>1, <3>1, <3>3
      <3> QED
        BY <1>u, <3>4
    <2> QED
      BY <1>0, <2>1, <2>2 DEF TableInv
  <1>6. CASE Drained
    <2>1. channel \in Channels
      BY <1>6 DEF Drained, GInv, HookInv, HandleInv
    <2>2. /\ running' = running
          /\ active'[channel] = IF active[channel] = {} THEN Untracked ELSE active[channel]
          /\ live'[channel] = live[channel] \ {handle[channel]}
          /\ handle[channel] \notin running[channel]
          /\ \A c \in Channels : c # channel => active'[c] = active[c] /\ live'[c] = live[c]
      BY <1>0, <1>6, <2>1 DEF Drained, StopTracking, TypeInv
    <2> QED
      BY <1>0, <2>1, <2>2 DEF TableInv
  <1>7. CASE Disconnected
    BY <1>7 DEF Disconnected, TableInv
  <1>8. CASE UNCHANGED <<active, running, live>>
    BY <1>0, <1>8 DEF TableInv
  <1> QED
    BY <1>1, <1>2, <1>3, <1>4, <1>5, <1>6, <1>7, <1>8
    DEF Next, Subscribing, Leaving, ServiceCreated, BrokerStarting, AlreadyTracking,
        CreateStream, SubscribeFails, SubscribeRaises, ServiceStopping, StoppingAgain,
        Waited, DrainFails, BrokerStopped, vars

LEMMA GInvariance == Spec => []GInv
  <1>1. GInv /\ [Next]_vars => GInv'
    BY TypeStep, HandleStep, HookStep, TableStep DEF GInv
  <1> QED
    BY <1>1, InitGInv, PTL DEF Spec

\* What the runs' type invariant says.
LEMMA GInvTypeOK == GInv => TypeOK
  <1> SUFFICES ASSUME GInv PROVE TypeOK
    OBVIOUS
  <1>1. TypeInv /\ HandleInv
    BY DEF GInv
  <1>2. \A c \in DOMAIN handle : handle[c] \in 1 .. made[c]
    <2> SUFFICES ASSUME NEW c \in DOMAIN handle PROVE handle[c] \in 1 .. made[c]
      OBVIOUS
    <2>1. handle[c] = made[c] /\ made[c] # 0 /\ made[c] \in 0 .. MaxMade
      BY <1>1 DEF HandleInv, TypeInv
    <2> QED
      BY <2>1, NumbersNat
  <1>3. \A s \in DOMAIN streams : StreamOf[streams[s]] = s
    BY <1>1 DEF HandleInv
  <1> QED
    BY <1>1, <1>2, <1>3 DEF TypeInv, TypeOK, Subs

(* Every variable has its type, whatever fails and in whatever order the     *)
(* hooks are called: the handle of a channel numbers a subscription made     *)
(* (nats.py: subscriptions), and a stream carries a channel of its name.     *)
THEOREM TypeCorrect == Spec => []TypeOK
  BY GInvariance, GInvTypeOK, PTL

(* A message in _process_message is in _active_messages, and comes from a    *)
(* subscription that was not yet drained: in every configuration, a handler  *)
(* that stops its own service and a drain() that raises among them.          *)
RunningIsActive ==
    \A c \in Channels : /\ running[c] \subseteq live[c]
                        /\ running[c] # {} => active[c] # Untracked /\ running[c] \subseteq active[c]

THEOREM RunningTracked == Spec => []RunningIsActive
  <1>1. GInv => RunningIsActive
    BY DEF GInv, TableInv, RunningIsActive
  <1> QED
    BY <1>1, GInvariance, PTL

-----------------------------------------------------------------------------
(* What holds when the hooks are called in their order: a service is created *)
(* once before it is stopped, broker_starting is not repeated, and drain()   *)
(* of an open connection does not raise.                                     *)
Orderly == ~Recreates /\ ~RetriesStart /\ "drain" \notin FaultKinds

\* What the server delivers to has a handle and a connection, and is not a
\* channel that is yet to be subscribed or that was stopped.
LiveInv ==
    /\ \A c \in Channels : live[c] # {} => connected /\ c \in DOMAIN handle /\ live[c] = {handle[c]}
    /\ \A c \in todo : live[c] = {}
    /\ \A c \in Channels \ (registry \cup {channel}) : live[c] = {}
    /\ at \in {"stream", "consumer"} => active[channel] # Untracked

OInv == GInv /\ LiveInv

LEMMA LiveStep ==
  ASSUME ~Recreates, OInv, [Next]_vars, BrokerStarting => ~connected,
         DrainFails => ~Drainable
  PROVE  LiveInv'
  <1> USE DEF hookVars, wareVars, linkVars, tableVars, subVars, Goto, HookEnds
  <1>0. GInv /\ LiveInv /\ TypeInv /\ HandleInv /\ HookInv /\ TableInv
    BY DEF OInv, GInv
  <1>i. at = "idle" => todo = {} /\ channel = NoChannel
    BY <1>0 DEF HookInv
  <1>n. NoChannel \notin Channels
    OBVIOUS
  <1>1. ASSUME NEW c \in Channels, ServiceCreated(c) PROVE LiveInv'
    <2>1. /\ at = "idle" /\ todo = {} /\ channel = NoChannel /\ c \notin registry
          /\ registry' = registry \cup {c} /\ UNCHANGED <<live, handle, active, connected>>
      BY <1>1, <1>i DEF ServiceCreated, Register
    <2>2. live[c] = {}
      BY <1>0, <2>1, <1>n DEF LiveInv
    <2>3. /\ channel' = NoChannel /\ at' \in {"idle", "subscribe"} /\ todo' \subseteq {c}
      <3>1. CASE started
        BY <1>1, <3>1, ContinueFacts DEF ServiceCreated
      <3>2. CASE ~started
        BY <1>1, <3>2, <2>1 DEF ServiceCreated
      <3> QED
        BY <3>1, <3>2
    <2> QED
      BY <1>0, <1>n, <2>1, <2>2, <2>3 DEF LiveInv
  <1>2. CASE BrokerStarting
    <2>1. /\ ~connected /\ connected' = TRUE /\ at = "idle"
          /\ UNCHANGED <<registry, live, handle, active>>
          /\ todo' = registry /\ channel' = NoChannel /\ at' \in {"idle", "subscribe"}
      BY <1>2, ContinueFacts DEF BrokerStarting
    <2>2. \A c \in Channels : live[c] = {}
      BY <1>0, <2>1 DEF LiveInv
    <2>3. registry \subseteq Channels
      BY <1>0 DEF TypeInv
    <2> QED
      BY <2>1, <2>2, <2>3 DEF LiveInv
  <1>3. ASSUME NEW c \in Channels, InitTracking(c) PROVE LiveInv'
    <2>1. /\ at = "subscribe" /\ c \in todo /\ channel = NoChannel
          /\ at' = "stream" /\ channel' = c
          /\ active' = [active EXCEPT ![c] = {}]
          /\ UNCHANGED <<todo, registry, live, handle, connected>>
      BY <1>3, <1>0 DEF InitTracking, HookInv
    <2>2. active'[c] = {} /\ {} # Untracked
      BY <2>1, <1>0, NumbersNat DEF TypeInv
    <2> QED
      BY <1>0, <2>1, <2>2, <1>n DEF LiveInv
  <1>4. ASSUME NEW c \in todo, SubscribeRaises(c), channel \in todo \cup {NoChannel} PROVE LiveInv'
    <2>1. /\ at' = "idle" /\ channel' = NoChannel /\ todo' = {}
          /\ UNCHANGED <<registry, live, handle, active, connected>>
      BY <1>4 DEF SubscribeRaises
    <2> QED
      BY <1>0, <1>4, <2>1 DEF LiveInv
  <1>5. CASE CreateStream
    <2>1. UNCHANGED <<todo, registry, channel, live, handle, active, connected>> /\ at = "stream"
      BY <1>5 DEF CreateStream
    <2> QED
      BY <1>0, <2>1 DEF LiveInv
  <1>6. CASE CreateConsumer
    <2> DEFINE k == made[channel] + 1
    <2>1. /\ channel \in todo /\ channel \in Channels /\ channel \in registry /\ connected
      BY <1>0, <1>6 DEF CreateConsumer, HookInv, TypeInv
    <2>2. /\ live' = [live EXCEPT ![channel] = @ \cup {k}]
          /\ handle' = [c \in DOMAIN handle \cup {channel} |->
                           IF c = channel THEN k ELSE handle[c]]
          /\ UNCHANGED <<registry, active, connected>>
      BY <1>6 DEF CreateConsumer
    <2>3. live[channel] = {}
      BY <1>0, <2>1 DEF LiveInv
    <2>4. live'[channel] = {k} /\ handle'[channel] = k /\ channel \in DOMAIN handle'
      BY <1>0, <2>1, <2>2, <2>3 DEF TypeInv
    <2>5. \A c \in Channels : c # channel => live'[c] = live[c]
      BY <1>0, <2>2 DEF TypeInv
    <2>6. \A c \in DOMAIN handle : c # channel => c \in DOMAIN handle' /\ handle'[c] = handle[c]
      BY <2>2
    <2>7. todo' = todo \ {channel} /\ channel' = NoChannel /\ at' \in {"idle", "subscribe"}
      BY <1>6, ContinueFacts DEF CreateConsumer
    <2> HIDE DEF k
    <2>8. \A c \in Channels : live'[c] # {} => connected' /\ c \in DOMAIN handle' /\ live'[c] = {handle'[c]}
      BY <1>0, <2>1, <2>2, <2>4, <2>5, <2>6 DEF LiveInv
    <2>9. \A c \in todo' : live'[c] = {}
      BY <1>0, <2>5, <2>7 DEF LiveInv, TypeInv
    <2>10. \A c \in Channels \ (registry' \cup {channel'}) : live'[c] = {}
      BY <1>0, <2>1, <2>2, <2>5, <2>7 DEF LiveInv
    <2> QED
      BY <2>7, <2>8, <2>9, <2>10 DEF LiveInv
  <1>7. ASSUME NEW c \in Channels, NEW k \in Subs, Take(c, k) PROVE LiveInv'
    <2>1. UNCHANGED <<at, todo, channel, registry, live, handle, connected>>
      BY <1>7 DEF Take
    <2>2. active[channel] # Untracked /\ channel \in Channels => active'[channel] # Untracked
      <3> SUFFICES ASSUME active[channel] # Untracked, channel \in Channels
                   PROVE  active'[channel] # Untracked
        OBVIOUS
      <3>1. PICK m : active' = [active EXCEPT ![c] =
                                  (IF @ = Untracked THEN {} ELSE @ \ {m}) \cup {k}]
        BY <1>7 DEF Take
      <3>2. /\ active[c] \in {Untracked} \cup SUBSET Ids /\ k \in Ids
            /\ active'[channel] = IF channel = c
                                   THEN (IF active[c] = Untracked THEN {}
                                         ELSE active[c] \ {m}) \cup {k}
                                   ELSE active[channel]
        BY <1>0, <3>1, NumbersNat DEF TypeInv
      <3> QED
        BY <3>1, <3>2, NumbersNat
    <2>3. at \in {"stream", "consumer"} => channel \in Channels
      BY <1>0 DEF HookInv, TypeInv
    <2> QED
      BY <1>0, <2>1, <2>2, <2>3 DEF LiveInv
  <1>8. ASSUME NEW c \in Channels, NEW k \in Subs, Finish(c, k) PROVE LiveInv'
    <2>1. UNCHANGED <<at, todo, channel, registry, live, handle, connected>>
          /\ active' = [active EXCEPT ![c] = Without(@, {k})] /\ k \in running[c]
      BY <1>8 DEF Finish
    <2>2. at \in {"stream", "consumer"} => channel \in Channels /\ channel # c
      BY <1>0, <2>1 DEF HookInv, TypeInv, LiveInv, TableInv
    <2> QED
      BY <1>0, <2>1, <2>2 DEF LiveInv, TypeInv
  <1>9. ASSUME NEW c \in Channels, NEW self \in BOOLEAN, ServiceStopping(c, self)
        PROVE  LiveInv'
    <2>1. /\ at = "idle" /\ channel = NoChannel /\ todo = {} /\ c \in registry
          /\ UNCHANGED <<todo, live, handle, active, connected>>
      BY <1>9, <1>i DEF ServiceStopping, Unregister
    <2>2. \/ c \in DOMAIN handle /\ at' = "waiting" /\ channel' = c /\ registry' = registry
          \/ c \notin DOMAIN handle /\ UNCHANGED <<at, channel>> /\ registry' = registry \ {c}
      BY <1>9 DEF ServiceStopping, Unregister
    <2>3. c \notin DOMAIN handle => live[c] = {}
      BY <1>0 DEF LiveInv
    <2> QED
      BY <1>0, <1>n, <2>1, <2>2, <2>3 DEF LiveInv
  <1>10. ASSUME NEW c \in Channels, StoppingAgain(c) PROVE LiveInv'
    <2>1. /\ at \in {"waiting", "draining"} /\ channel = c /\ registry' = registry \ {c}
          /\ UNCHANGED <<at, todo, channel, live, handle, active, connected>>
      BY <1>10 DEF StoppingAgain, Unregister
    <2> QED
      BY <1>0, <2>1 DEF LiveInv
  <1>11. CASE Waited
    BY <1>0, <1>11 DEF Waited, LiveInv
  <1>12. CASE Drained
    <2>1. channel \in Channels /\ channel \in DOMAIN handle /\ todo = {}
      BY <1>0, <1>12 DEF Drained, HookInv, HandleInv
    <2>2. live[channel] = {} \/ live[channel] = {handle[channel]}
      BY <1>0, <2>1 DEF LiveInv
    <2>3. /\ live'[channel] = {}
          /\ \A c \in Channels : c # channel => live'[c] = live[c]
      BY <1>0, <1>12, <2>1, <2>2 DEF Drained, TypeInv
    <2>4. \A c \in DOMAIN handle : c # channel => c \in DOMAIN handle' /\ handle'[c] = handle[c]
      BY <1>12 DEF Drained
    <2>5. at' = "idle" /\ channel' = NoChannel /\ todo' = {} /\ connected' = connected
          /\ registry' = registry \ {channel}
      BY <1>12 DEF Drained, Unregister
    <2>6. \A c \in Channels : live'[c] # {} => connected' /\ c \in DOMAIN handle' /\ live'[c] = {handle'[c]}
      BY <1>0, <2>3, <2>4, <2>5 DEF LiveInv
    <2>7. \A c \in Channels \ (registry' \cup {channel'}) : live'[c] = {}
      BY <1>0, <2>3, <2>5 DEF LiveInv
    <2> QED
      BY <2>5, <2>6, <2>7 DEF LiveInv
  <1>13. CASE DrainFails
    <2>1. /\ ~Drainable /\ at' = "idle" /\ channel' = NoChannel /\ todo' = {}
          /\ at = "draining" /\ registry' = registry \ {channel}
          /\ UNCHANGED <<live, handle, active, connected>>
      BY <1>13 DEF DrainFails, Unregister
    <2>2. channel \in Channels /\ live[channel] = {}
      BY <1>0, <2>1 DEF LiveInv, HookInv, HandleInv, Drainable
    <2> QED
      BY <1>0, <2>1, <2>2 DEF LiveInv
  <1>14. CASE BrokerStopped
    <2>1. /\ at' = "closing" /\ channel' = NoChannel /\ channel = NoChannel
          /\ UNCHANGED <<todo, registry, live, handle, active, connected>>
      BY <1>14, <1>i DEF BrokerStopped
    <2> QED
      BY <1>0, <2>1 DEF LiveInv
  <1>15. CASE Disconnected
    <2>1. \A c \in Channels : live'[c] = {}
      BY <1>15 DEF Disconnected
    <2>2. at' = "idle" /\ todo' = {}
      BY <1>15 DEF Disconnected
    <2> QED
      BY <2>1, <2>2 DEF LiveInv
  <1>16. CASE UNCHANGED <<at, todo, channel, registry, live, handle, active, connected>>
    BY <1>0, <1>16 DEF LiveInv
  <1>17. CASE SubscribeFails
    <2>1. channel \in todo
      BY <1>0, <1>17 DEF SubscribeFails, HookInv
    <2> QED
      BY <1>4, <1>17, <2>1 DEF SubscribeFails
  <1>18. ASSUME NEW c \in Channels, AlreadyTracking(c) PROVE LiveInv'
    <2>1. c \in todo /\ channel = NoChannel
      BY <1>0, <1>18 DEF AlreadyTracking, HookInv
    <2> QED
      BY <1>4, <1>18, <2>1 DEF AlreadyTracking
  <1>19. ASSUME NEW c \in Channels, NEW k \in Subs, InProgressFails(c, k) PROVE LiveInv'
    <2>1. UNCHANGED <<at, todo, channel, registry, live, handle, connected>>
          /\ active' = [active EXCEPT ![c] = (@ \ {k}) \cup {MaxMade + faults'}]
          /\ k \in running[c]
      BY <1>19 DEF InProgressFails
    <2>2. at \in {"stream", "consumer"} => channel \in Channels /\ channel # c
      BY <1>0, <2>1 DEF HookInv, TypeInv, LiveInv, TableInv
    <2> QED
      BY <1>0, <2>1, <2>2 DEF LiveInv, TypeInv
  <1>20. CASE UNCHANGED vars
    BY <1>16, <1>20 DEF vars
  <1> QED
    BY <1>1, <1>2, <1>3, <1>5, <1>6, <1>7, <1>8, <1>9, <1>10, <1>11, <1>12, <1>13, <1>14,
       <1>15, <1>17, <1>18, <1>19, <1>20
    DEF Next, Subscribing, Leaving

LEMMA OInvariance == ASSUME Orderly PROVE Spec => []OInv
  <1>1. Init => LiveInv
    BY DEF Init, LiveInv
  <1>2. OInv /\ [Next]_vars => OInv'
    <2>1. /\ BrokerStarting => ~connected
          /\ DrainFails => ~Drainable
      BY DEF Orderly, BrokerStarting, DrainFails, Fault
    <2> QED
      BY <2>1, LiveStep, TypeStep, HandleStep, HookStep, TableStep DEF OInv, GInv, Orderly
  <1>3. Init => OInv
    BY <1>1, InitGInv DEF OInv
  <1> QED
    BY <1>2, <1>3, PTL DEF Spec

LEMMA OInvIInv == OInv => IInv
  <1> SUFFICES ASSUME OInv PROVE IInv
    OBVIOUS
  <1>1. GInv /\ LiveInv /\ HandleInv /\ HookInv /\ TableInv /\ TypeOK
    BY GInvTypeOK DEF OInv, GInv
  <1>2. /\ started => connected
        /\ at \in {"stream", "consumer"} => channel \in todo /\ active[channel] # Untracked
        /\ at \in {"waiting", "draining"} => channel \in DOMAIN handle
        /\ at \in {"subscribe", "stream", "consumer"} <=> todo # {}
    BY <1>1 DEF LiveInv, HookInv
  <1>3. ASSUME NEW c \in Channels
        PROVE  /\ running[c] \subseteq live[c]
               /\ running[c] # {} => active[c] # Untracked /\ running[c] \subseteq active[c]
               /\ live[c] # {} => connected /\ c \in DOMAIN handle /\ live[c] = {handle[c]}
               /\ c \in DOMAIN handle => handle[c] = made[c] /\ HasStream(c)
    BY <1>1 DEF LiveInv, HandleInv, TableInv
  <1> QED
    BY <1>1, <1>2, <1>3 DEF IInv

(* The tables and the server agree at every step, when the hooks are called  *)
(* in their order: what the server delivers to has a handle and an open      *)
(* connection, and its messages in _process_message are tracked.             *)
THEOREM Invariance == ASSUME Orderly PROVE Spec => []IInv
  BY OInvariance, OInvIInv, PTL

(* A channel never has two subscriptions the server delivers to, through     *)
(* every restart of the broker and of the service: no message is handled     *)
(* twice at a time (nats.py: subscribe).                                     *)
THEOREM Once == ASSUME Orderly PROVE Spec => []SubscribedOnce
  <1>1. OInv => SubscribedOnce
    <2> SUFFICES ASSUME OInv, NEW c \in Channels PROVE Cardinality(live[c]) <= 1
      BY DEF SubscribedOnce
    <2>1. live[c] = {} \/ live[c] = {handle[c]}
      BY DEF OInv, LiveInv
    <2>2. Cardinality({}) = 0 /\ Cardinality({handle[c]}) = 1
      BY FS_EmptySet, FS_Singleton
    <2> QED
      BY <2>1, <2>2
  <1> QED
    BY <1>1, OInvariance, PTL

(* A service every service_stopping of which has returned gets no messages   *)
(* and has no handler at work, whatever timed out, whatever was disconnected *)
(* and started again (middleware.py: service_stopping; nats.py: unsubscribe).*)
THEOREM Stopped == ASSUME Orderly PROVE Spec => []StoppedIsQuiet
  <1>1. OInv => StoppedIsQuiet
    BY DEF OInv, GInv, TableInv, LiveInv, StoppedIsQuiet, Quiet
  <1> QED
    BY <1>1, OInvariance, PTL

-----------------------------------------------------------------------------
(* Why a subscribe is refused.                                             *)

\* No other channel has the stream of this one.
Alone(c) == \A d \in Channels \ {c} : StreamOf[d] # StreamOf[c]

\* Before broker_starting was called.
NotStartedYet ==
    starts = 0 => /\ at = "idle" /\ ~connected /\ DOMAIN handle = {}
                  /\ \A c \in Channels : active[c] = Untracked

\* A channel that is to be subscribed is not in the table of active messages, and
\* the request for its consumer finds its stream.
FirstTime(c) ==
    /\ connected /\ c \notin registry \cup {channel} => active[c] = Untracked
    /\ c \in todo \ {channel} => active[c] = Untracked
    /\ connected /\ c \notin DOMAIN handle /\ ~(at \in {"stream", "consumer"} /\ channel = c)
         => active[c] = Untracked
    /\ at = "consumer" /\ channel = c => HasStream(c)
    /\ c \notin refused

\* The server delivers to each subscription that has a handle.
HandlesLive == connected => \A c \in DOMAIN handle : handle[c] \in live[c]

\* In the first life of the broker, and as long as nothing failed, the server delivers
\* as LiveInv and HandlesLive say, the table holds the messages in _process_message and
\* no others, and no subscribe is refused.
ReasonInv ==
    faults = 0 /\ starts <= 1 =>
        /\ LiveInv
        /\ \A c \in Channels : active[c] \in {Untracked, running[c]}
        /\ NotStartedYet /\ HandlesLive
        /\ \A c \in Channels : Alone(c) => FirstTime(c)

LEMMA NoFault ==
  ASSUME GInv, [Next]_vars, faults' = 0
  PROVE  faults = 0 /\ (UNCHANGED faults) /\ \A kind : ~Fault(kind)
  <1>1. faults \in Nat
    BY DEF GInv, TypeInv
  <1>2. \A kind : ~Fault(kind)
    BY <1>1 DEF Fault
  <1> QED
    BY <1>1, <1>2 DEF Next, Subscribing, Leaving, ServiceCreated, BrokerStarting, InitTracking,
      AlreadyTracking, CreateStream, CreateConsumer, SubscribeFails, Take, Finish,
      InProgressFails, ServiceStopping, StoppingAgain, Waited, Drained, DrainFails,
      BrokerStopped, Disconnected, vars

\* The table holds the messages in _process_message.
LEMMA ActiveStep ==
  ASSUME OInv, [Next]_vars, faults' = 0,
         \A c \in Channels : active[c] \in {Untracked, running[c]}
  PROVE  \A c \in Channels : active'[c] \in {Untracked, running'[c]}
  <1> USE DEF hookVars, wareVars, linkVars, tableVars, subVars, Goto, HookEnds
  <1>0. TypeInv /\ TableInv /\ LiveInv /\ HookInv /\ HandleInv
    BY DEF OInv, GInv
  <1>f. \A kind : ~Fault(kind)
    BY NoFault DEF OInv
  <1>u. \A c \in Channels : running[c] # Untracked /\ (running[c] # {} => active[c] = running[c])
    BY <1>0, NumbersNat DEF TypeInv, TableInv
  <1>1. ASSUME NEW d \in Channels, InitTracking(d), NEW c \in Channels
        PROVE  active'[c] \in {Untracked, running'[c]}
    <2>1. running' = running /\ active' = [active EXCEPT ![d] = {}] /\ d \in todo
      BY <1>1 DEF InitTracking
    <2>2. running[d] = {}
      BY <2>1, <1>0 DEF LiveInv, TableInv
    <2> QED
      BY <1>0, <2>1, <2>2 DEF TypeInv
  <1>2. ASSUME NEW d \in Channels, NEW k \in Subs, Take(d, k), NEW c \in Channels
        PROVE  active'[c] \in {Untracked, running'[c]}
    <2>0. Leaked(d) = {}
      BY <1>0, <1>u DEF Leaked, TypeInv
    <2>1. /\ running' = [running EXCEPT ![d] = @ \cup {k}]
          /\ active' = [active EXCEPT ![d] =
                           (IF @ = Untracked THEN {} ELSE @ \ {k}) \cup {k}]
      BY <1>2, <2>0 DEF Take
    <2>2. running'[d] = running[d] \cup {k} /\ active'[d] = running[d] \cup {k}
      BY <2>1, <1>0, <1>u DEF TypeInv
    <2>3. c # d => running'[c] = running[c] /\ active'[c] = active[c]
      BY <2>1, <1>0 DEF TypeInv
    <2> QED
      BY <2>2, <2>3
  <1>3. ASSUME NEW d \in Channels, NEW k \in Subs, Finish(d, k), NEW c \in Channels
        PROVE  active'[c] \in {Untracked, running'[c]}
    <2>1. /\ running' = [running EXCEPT ![d] = @ \ {k}] /\ k \in running[d]
          /\ active' = [active EXCEPT ![d] = Without(@, {k})]
      BY <1>3 DEF Finish
    <2>2. running'[d] = running[d] \ {k} /\ active'[d] = Without(running[d], {k})
      BY <2>1, <1>0, <1>u DEF TypeInv
    <2>3. c # d => running'[c] = running[c] /\ active'[c] = active[c]
      BY <2>1, <1>0 DEF TypeInv
    <2> QED
      BY <1>u, <2>2, <2>3 DEF Without
  <1>4. ASSUME Drained, NEW c \in Channels PROVE active'[c] \in {Untracked, running'[c]}
    <2>1. channel \in Channels
      BY <1>0, <1>4 DEF Drained, HookInv, HandleInv
    <2>2. running' = running /\ active' = [active EXCEPT ![channel] = StopTracking(@)]
      BY <1>4 DEF Drained
    <2> QED
      BY <1>0, <2>1, <2>2 DEF TypeInv, StopTracking
  <1>5. ASSUME Disconnected, NEW c \in Channels PROVE active'[c] \in {Untracked, running'[c]}
    <2>1. running'[c] = {} /\ active'[c] = Without(active[c], running[c])
      BY <1>5 DEF Disconnected
    <2>2. active[c] = Untracked \/ active[c] = running[c]
      OBVIOUS
    <2> QED
      BY <2>1, <2>2 DEF Without
  <1>6. CASE UNCHANGED <<active, running>>
    BY <1>6
  <1> QED
    BY <1>f, <1>1, <1>2, <1>3, <1>4, <1>5, <1>6
    DEF Next, Subscribing, Leaving, ServiceCreated, BrokerStarting, AlreadyTracking,
        CreateStream, CreateConsumer, SubscribeFails, SubscribeRaises, InProgressFails,
        ServiceStopping, StoppingAgain, Waited, DrainFails, BrokerStopped, vars

\* Nothing but broker_starting counts a start.
LEMMA StartsStep ==
  ASSUME GInv, [Next]_vars
  PROVE  starts' = starts \/ (BrokerStarting /\ starts' = starts + 1)
  <1> USE DEF hookVars, wareVars, linkVars, tableVars, subVars
  <1>1. CASE BrokerStarting
    BY <1>1 DEF BrokerStarting
  <1>2. ASSUME NEW c \in Channels, NEW self \in BOOLEAN, ServiceStopping(c, self)
        PROVE  UNCHANGED starts
    BY <1>2 DEF ServiceStopping, Unregister
  <1>3. ASSUME NEW c \in Channels,
               ServiceCreated(c) \/ StoppingAgain(c) \/ InitTracking(c) \/ AlreadyTracking(c)
        PROVE  UNCHANGED starts
    BY <1>3 DEF ServiceCreated, StoppingAgain, InitTracking, AlreadyTracking,
                SubscribeRaises, Unregister
  <1>4. ASSUME Waited \/ Drained \/ DrainFails \/ Disconnected \/ BrokerStopped
        PROVE  UNCHANGED starts
    BY <1>4 DEF Waited, Drained, DrainFails, Disconnected, BrokerStopped, Unregister
  <1>5. ASSUME CreateStream \/ CreateConsumer \/ SubscribeFails
        PROVE  UNCHANGED starts
    BY <1>5 DEF CreateStream, CreateConsumer, SubscribeFails, SubscribeRaises
  <1>6. ASSUME NEW c \in Channels, NEW k \in Subs,
               Take(c, k) \/ Finish(c, k) \/ InProgressFails(c, k)
        PROVE  UNCHANGED starts
    BY <1>6 DEF Take, Finish, InProgressFails
  <1> QED
    BY <1>1, <1>2, <1>3, <1>4, <1>5, <1>6 DEF Next, Subscribing, Leaving, vars

LEMMA NotStartedStep ==
  ASSUME OInv, [Next]_vars, NotStartedYet
  PROVE  NotStartedYet'
  <1> SUFFICES ASSUME starts' = 0
               PROVE  /\ at' = "idle" /\ ~connected' /\ DOMAIN handle' = {}
                      /\ \A c \in Channels : active'[c] = Untracked
    BY DEF NotStartedYet
  <1> USE DEF hookVars, wareVars, linkVars, tableVars, subVars
  <1>0. HookInv /\ TableInv /\ LiveInv /\ starts \in Nat
    BY DEF OInv, GInv, TypeInv
  <1>1. starts = 0
    BY <1>0, StartsStep DEF OInv
  <1>2. /\ at = "idle" /\ ~connected /\ ~started /\ DOMAIN handle = {}
        /\ \A c \in Channels : active[c] = Untracked /\ live[c] = {} /\ running[c] = {}
    BY <1>0, <1>1 DEF NotStartedYet, HookInv, LiveInv, TableInv
  <1>3. UNCHANGED <<at, connected, handle, active>>
    <2>1. ~BrokerStarting
      BY <1>0, <1>1 DEF BrokerStarting
    <2>2. ASSUME NEW c \in Channels, ServiceCreated(c)
          PROVE  UNCHANGED <<at, connected, handle, active>>
      BY <1>2, <2>2 DEF ServiceCreated
    <2>3. ASSUME NEW c \in Channels, NEW self \in BOOLEAN, ServiceStopping(c, self)
          PROVE  UNCHANGED <<at, connected, handle, active>>
      BY <1>2, <2>3 DEF ServiceStopping
    <2>4. ~Subscribing /\ ~Leaving /\ ~BrokerStopped /\ \A c \in Channels : ~StoppingAgain(c)
      BY <1>2 DEF Subscribing, InitTracking, AlreadyTracking, CreateStream, CreateConsumer,
        SubscribeFails, Leaving, Waited, Drained, DrainFails, Disconnected, BrokerStopped,
        StoppingAgain
    <2>5. ASSUME NEW c \in Channels, NEW k \in Subs
          PROVE  ~Take(c, k) /\ ~Finish(c, k) /\ ~InProgressFails(c, k)
      BY <1>2 DEF Take, Finish, InProgressFails
    <2> QED
      BY <2>1, <2>2, <2>3, <2>4, <2>5 DEF Next, vars
  <1> QED
    BY <1>2, <1>3

LEMMA HandlesLiveStep ==
  ASSUME OInv, [Next]_vars, HandlesLive, NotStartedYet, starts' <= 1, faults' = 0,
         BrokerStarting => ~connected,
         \A c \in Channels : active[c] \in {Untracked, running[c]}
  PROVE  HandlesLive'
  <1> USE DEF hookVars, wareVars, linkVars, tableVars, subVars
  <1>0. TypeInv /\ TableInv /\ LiveInv /\ HookInv /\ HandleInv
    BY DEF OInv, GInv
  <1>1. CASE BrokerStarting
    <2>1. starts = 0 /\ handle' = handle
      BY <1>0, <1>1 DEF BrokerStarting, TypeInv
    <2> QED
      BY <2>1 DEF NotStartedYet, HandlesLive
  <1>2. CASE CreateConsumer
    <2> DEFINE k == made[channel] + 1
    <2>1. channel \in Channels
      BY <1>0, <1>2 DEF CreateConsumer, HookInv, TypeInv
    <2>2. /\ live' = [live EXCEPT ![channel] = @ \cup {k}]
          /\ handle' = [c \in DOMAIN handle \cup {channel} |->
                           IF c = channel THEN k ELSE handle[c]]
          /\ connected' = connected
      BY <1>2 DEF CreateConsumer
    <2>3. k \in live'[channel] /\ \A c \in Channels : c # channel => live'[c] = live[c]
      BY <1>0, <2>1, <2>2 DEF TypeInv
    <2> HIDE DEF k
    <2>4. ASSUME connected', NEW c \in DOMAIN handle' PROVE handle'[c] \in live'[c]
      BY <1>0, <2>2, <2>3, <2>4 DEF HandlesLive, HandleInv
    <2> QED
      BY <2>4 DEF HandlesLive
  <1>3. CASE Drained
    <2>1. /\ channel \in Channels /\ channel \in DOMAIN handle
          /\ handle[channel] \in live[channel] /\ handle[channel] \notin running[channel]
          /\ live' = [live EXCEPT ![channel] = @ \ {handle[channel]}]
          /\ active' = [active EXCEPT ![channel] = StopTracking(@)]
          /\ handle' = (IF active'[channel] # Untracked THEN handle
                        ELSE [e \in DOMAIN handle \ {channel} |-> handle[e]])
          /\ connected' = connected
      BY <1>0, <1>3 DEF Drained, Drainable, HookInv, HandleInv
    <2>2. running[channel] = {}
      BY <1>0, <2>1 DEF LiveInv, TableInv
    <2>3. active'[channel] = Untracked
      BY <1>0, <2>1, <2>2 DEF StopTracking, TypeInv
    <2>4. \A c \in Channels : c # channel => live'[c] = live[c]
      BY <1>0, <2>1 DEF TypeInv
    <2> QED
      BY <1>0, <2>1, <2>3, <2>4 DEF HandlesLive, HandleInv
  <1>4. CASE Disconnected
    BY <1>4 DEF Disconnected, HandlesLive
  <1>5. CASE UNCHANGED <<connected, handle, live>>
    BY <1>5 DEF HandlesLive
  <1> QED
    BY <1>1, <1>2, <1>3, <1>4, <1>5
    DEF Next, Subscribing, Leaving, ServiceCreated, InitTracking, AlreadyTracking,
        CreateStream, SubscribeFails, SubscribeRaises, Take, Finish, InProgressFails,
        ServiceStopping, StoppingAgain, Waited, DrainFails, BrokerStopped, vars

\* One channel with a stream of its own, in the first life of the broker.
LEMMA FirstTimeStep ==
  ASSUME ~Recreates, OInv, [Next]_vars, ReasonInv, faults' = 0, starts' <= 1,
         NEW c \in Channels, Alone(c)
  PROVE  FirstTime(c)'
  <1> USE DEF hookVars, wareVars, linkVars, tableVars, subVars, Goto, HookEnds
  <1>0. TypeInv /\ TableInv /\ LiveInv /\ HookInv /\ HandleInv /\ starts \in Nat
    BY DEF OInv, GInv, TypeInv
  <1>f. faults = 0 /\ starts <= 1 /\ \A kind : ~Fault(kind)
    BY <1>0, NoFault, StartsStep DEF OInv
  <1>a. active[c] \in {Untracked, running[c]} /\ NotStartedYet
    BY <1>f DEF ReasonInv
  <1>p. ASSUME starts' = starts PROVE FirstTime(c)
    BY <1>f, <1>p DEF ReasonInv
  <1>n. NoChannel # c /\ (at = "idle" => channel = NoChannel /\ todo = {})
    BY <1>0 DEF HookInv
  <1>1. ASSUME NEW d \in Channels, ServiceCreated(d) PROVE FirstTime(c)'
    <2>1. /\ at = "idle" /\ channel = NoChannel /\ todo = {} /\ d \notin registry
          /\ registry' = registry \cup {d}
          /\ UNCHANGED <<starts, active, connected, handle, refused, streams>>
      BY <1>1, <1>n DEF ServiceCreated, Register
    <2>2. /\ channel' = NoChannel /\ at' \in {"idle", "subscribe"} /\ todo' \subseteq {d}
          /\ todo' # {} => connected
      <3>1. CASE started
        BY <1>0, <1>1, <3>1, ContinueFacts DEF ServiceCreated, HookInv
      <3>2. CASE ~started
        BY <1>1, <3>2, <2>1 DEF ServiceCreated
      <3> QED
        BY <3>1, <3>2
    <2>3. FirstTime(c)
      BY <1>p, <2>1
    <2> QED
      BY <1>n, <2>1, <2>2, <2>3 DEF FirstTime
  <1>2. CASE BrokerStarting
    <2>1. starts = 0
      BY <1>0, <1>2 DEF BrokerStarting
    <2>2. active[c] = Untracked
      BY <1>a, <2>1 DEF NotStartedYet
    <2>3. /\ active' = active /\ refused' = refused /\ at' \in {"idle", "subscribe"}
      BY <1>2, ContinueFacts DEF BrokerStarting
    <2>4. c \notin refused
      <3>1. starts <= 1
        BY <2>1
      <3> QED
        BY <3>1, <1>f DEF ReasonInv, FirstTime
    <2> QED
      BY <2>2, <2>3, <2>4 DEF FirstTime
  <1>3. ASSUME NEW d \in Channels, InitTracking(d) PROVE FirstTime(c)'
    <2>1. /\ at = "subscribe" /\ d \in todo /\ channel = NoChannel
          /\ at' = "stream" /\ channel' = d
          /\ active' = [active EXCEPT ![d] = {}]
          /\ UNCHANGED <<todo, registry, handle, connected, refused, starts>>
      BY <1>3, <1>0 DEF InitTracking, HookInv
    <2>2. c # d => active'[c] = active[c]
      BY <1>0, <2>1 DEF TypeInv
    <2>3. FirstTime(c)
      BY <1>p, <2>1
    <2> QED
      BY <1>n, <2>1, <2>2, <2>3 DEF FirstTime
  <1>4. ASSUME NEW d, d # c, channel # c, SubscribeRaises(d) PROVE FirstTime(c)'
    <2>1. /\ at' = "idle" /\ channel' = NoChannel /\ todo' = {}
          /\ refused' \subseteq refused \cup {d}
          /\ UNCHANGED <<registry, handle, active, connected, starts>>
      BY <1>4 DEF SubscribeRaises
    <2>2. FirstTime(c)
      BY <1>p, <2>1
    <2> QED
      BY <1>4, <2>1, <2>2 DEF FirstTime
  <1>5. CASE CreateStream
    <2> DEFINE s0 == StreamOf[channel]
    <2>1. /\ at = "stream" /\ at' = "consumer"
          /\ UNCHANGED <<todo, channel, registry, handle, active, connected, refused, starts>>
      BY <1>5 DEF CreateStream
    <2>2. FirstTime(c)
      BY <1>p, <2>1
    <2>3. channel = c => HasStream(c)'
      <3>1. /\ s0 \in DOMAIN streams'
            /\ streams'[s0] = IF s0 \in DOMAIN streams THEN streams[s0] ELSE channel
        BY <1>5 DEF CreateStream
      <3>2. s0 \in DOMAIN streams => streams[s0] \in Channels /\ StreamOf[streams[s0]] = s0
        BY <1>0 DEF HandleInv
      <3>3. channel = c => streams'[s0] = c
        BY <3>1, <3>2 DEF Alone
      <3> QED
        BY <3>1, <3>3 DEF HasStream, Range
    <2> QED
      BY <2>1, <2>2, <2>3 DEF FirstTime
  <1>6. CASE CreateConsumer
    <2>1. /\ channel \in todo /\ channel \in registry
      BY <1>0, <1>6 DEF CreateConsumer, HookInv
    <2>2. /\ DOMAIN handle' = DOMAIN handle \cup {channel}
          /\ UNCHANGED <<registry, active, connected, refused, starts>>
      BY <1>6 DEF CreateConsumer
    <2>3. todo' = todo \ {channel} /\ channel' = NoChannel /\ at' \in {"idle", "subscribe"}
      BY <1>6, ContinueFacts DEF CreateConsumer
    <2>4. FirstTime(c) /\ at = "consumer"
      BY <1>p, <1>6, <2>2 DEF CreateConsumer
    <2> QED
      BY <2>1, <2>2, <2>3, <2>4 DEF FirstTime
  <1>7. CASE SubscribeFails
    <2>1. at = "consumer" /\ ~HasStream(channel) /\ SubscribeRaises(channel)
      BY <1>f, <1>7 DEF SubscribeFails
    <2>2. starts' = starts
      BY <2>1 DEF SubscribeRaises
    <2>3. channel # c
      BY <1>p, <2>1, <2>2 DEF FirstTime
    <2> QED
      BY <1>4, <2>1, <2>3
  <1>8. ASSUME NEW d \in Channels, AlreadyTracking(d) PROVE FirstTime(c)'
    <2>1. d \in todo /\ channel = NoChannel /\ active[d] # Untracked /\ SubscribeRaises(d)
      BY <1>0, <1>8 DEF AlreadyTracking, HookInv
    <2>2. starts' = starts
      BY <2>1 DEF SubscribeRaises
    <2>3. d # c /\ channel # c
      BY <1>n, <1>p, <2>1, <2>2 DEF FirstTime
    <2> QED
      BY <1>4, <2>1, <2>3
  <1>9. ASSUME NEW d \in Channels, NEW k \in Subs, Take(d, k) \/ Finish(d, k)
        PROVE  FirstTime(c)'
    <2>1. /\ UNCHANGED <<hookVars, registry, handle, connected, refused, starts, streams>>
          /\ k \in live[d]
      BY <1>0, <1>9 DEF Take, Finish, TableInv
    <2>2. FirstTime(c)
      BY <1>p, <2>1
    <2>3. c # d => active'[c] = active[c]
      BY <1>0, <1>9 DEF Take, Finish, TypeInv
    <2>4. d \in registry \cup {channel} /\ d \notin todo /\ d \in DOMAIN handle
      BY <1>0, <2>1 DEF LiveInv
    <2> QED
      BY <2>1, <2>2, <2>3, <2>4 DEF FirstTime, HasStream
  <1>10. ASSUME NEW d \in Channels, NEW self \in BOOLEAN, ServiceStopping(d, self)
         PROVE  FirstTime(c)'
    <2>1. /\ at = "idle" /\ channel = NoChannel /\ todo = {}
          /\ UNCHANGED <<todo, handle, active, connected, refused, streams>>
      BY <1>10, <1>n DEF ServiceStopping, Unregister
    <2>2. \/ d \in DOMAIN handle /\ at' = "waiting" /\ channel' = d /\ registry' = registry /\ starts' = starts
          \/ /\ d \notin DOMAIN handle /\ UNCHANGED <<at, channel>> /\ registry' = registry \ {d}
             /\ starts' = starts
      BY <1>10 DEF ServiceStopping, Unregister
    <2>3. FirstTime(c)
      BY <1>p, <2>2
    <2> QED
      BY <1>n, <2>1, <2>2, <2>3 DEF FirstTime
  <1>11. ASSUME NEW d \in Channels, StoppingAgain(d) PROVE FirstTime(c)'
    <2>1. /\ at \in {"waiting", "draining"} /\ channel = d /\ registry' = registry \ {d}
          /\ UNCHANGED <<at, todo, channel, handle, active, connected, refused, streams, starts>>
      BY <1>11 DEF StoppingAgain, Unregister
    <2>2. FirstTime(c)
      BY <1>p, <2>1
    <2> QED
      BY <2>1, <2>2 DEF FirstTime, HasStream
  <1>12. CASE Waited
    <2>1. FirstTime(c)
      BY <1>12, <1>p DEF Waited
    <2> QED
      BY <1>12, <2>1 DEF Waited, FirstTime
  <1>13. CASE Drained
    <2>1. /\ channel \in Channels /\ at = "draining" /\ handle[channel] \notin running[channel]
          /\ active' = [active EXCEPT ![channel] = StopTracking(@)]
          /\ registry' = registry \ {channel} /\ starts' = starts /\ refused' = refused
          /\ at' = "idle" /\ channel' = NoChannel /\ todo' = {} /\ connected' = connected
          /\ handle' = IF active'[channel] # Untracked THEN handle
                       ELSE [e \in DOMAIN handle \ {channel} |-> handle[e]]
      BY <1>0, <1>13 DEF Drained, Unregister, HookInv, HandleInv
    <2>2. FirstTime(c)
      BY <1>p, <2>1
    <2>3. running[channel] = {}
      BY <1>0, <2>1 DEF TableInv, LiveInv
    <2>4. channel = c => active'[c] = Untracked
      BY <1>0, <1>a, <2>1, <2>3 DEF StopTracking, TypeInv
    <2>5. channel # c => active'[c] = active[c] /\ (c \in DOMAIN handle <=> c \in DOMAIN handle')
      BY <1>0, <2>1 DEF TypeInv
    <2> QED
      BY <2>1, <2>2, <2>4, <2>5 DEF FirstTime
  <1>14. CASE DrainFails
    <2>0. /\ at = "draining" /\ ~Drainable /\ HandlesLive /\ channel \in DOMAIN handle
      BY <1>14, <1>f, <1>0 DEF DrainFails, ReasonInv, HookInv
    <2>1. ~connected' /\ at' = "idle" /\ todo' = {} /\ refused' = refused /\ starts' = starts
      BY <1>14, <2>0 DEF DrainFails, Unregister, Drainable, HandlesLive
    <2>2. FirstTime(c)
      BY <1>p, <2>1
    <2> QED
      BY <2>1, <2>2 DEF FirstTime
  <1>15. CASE BrokerStopped
    <2>1. /\ at = "idle" /\ channel' = channel /\ at' = "closing" /\ channel = NoChannel
          /\ UNCHANGED <<todo, registry, handle, active, connected, refused, starts>>
      BY <1>15, <1>n DEF BrokerStopped
    <2>2. FirstTime(c)
      BY <1>p, <2>1
    <2> QED
      BY <2>1, <2>2 DEF FirstTime
  <1>16. CASE Disconnected
    <2>1. ~connected' /\ at' = "idle" /\ todo' = {} /\ refused' = refused /\ starts' = starts
      BY <1>16 DEF Disconnected
    <2>2. FirstTime(c)
      BY <1>p, <2>1
    <2> QED
      BY <2>1, <2>2 DEF FirstTime
  <1>17. CASE UNCHANGED vars
    <2>1. FirstTime(c)
      BY <1>17, <1>p DEF vars
    <2> QED
      BY <1>17, <2>1 DEF vars, FirstTime, HasStream
  <1>18. ASSUME NEW d \in Channels, NEW k \in Subs PROVE ~InProgressFails(d, k)
    BY <1>f DEF InProgressFails
  <1> QED
    BY <1>1, <1>2, <1>3, <1>5, <1>6, <1>7, <1>8, <1>9, <1>10, <1>11, <1>12, <1>13, <1>14,
       <1>15, <1>16, <1>17, <1>18
    DEF Next, Subscribing, Leaving

LEMMA ReasonStep ==
  ASSUME ~Recreates, GInv, [Next]_vars, ReasonInv
  PROVE  ReasonInv'
  <1> SUFFICES ASSUME faults' = 0, starts' <= 1
               PROVE  /\ LiveInv'
                      /\ \A c \in Channels : active'[c] \in {Untracked, running'[c]}
                      /\ NotStartedYet' /\ HandlesLive'
                      /\ \A c \in Channels : Alone(c) => FirstTime(c)'
    BY DEF ReasonInv, Alone
  <1>1. starts \in Nat /\ faults = 0 /\ starts <= 1 /\ \A kind : ~Fault(kind)
    BY NoFault, StartsStep DEF GInv, TypeInv
  <1>2. OInv /\ NotStartedYet /\ HandlesLive /\ \A c \in Channels : active[c] \in {Untracked, running[c]}
    BY <1>1 DEF ReasonInv, OInv
  <1>3. BrokerStarting => ~connected
    BY <1>1, <1>2 DEF BrokerStarting, NotStartedYet
  <1>4. DrainFails => ~Drainable
    BY <1>1 DEF DrainFails
  <1>5. LiveInv'
    BY <1>2, <1>3, <1>4, LiveStep
  <1>6. \A c \in Channels : active'[c] \in {Untracked, running'[c]}
    BY <1>2, ActiveStep
  <1>7. NotStartedYet'
    BY <1>2, NotStartedStep
  <1>8. \A c \in Channels : Alone(c) => FirstTime(c)'
    BY <1>2, FirstTimeStep
  <1>9. HandlesLive'
    BY <1>1, <1>2, <1>3, HandlesLiveStep
  <1> QED
    BY <1>5, <1>6, <1>7, <1>8, <1>9

(* As long as no service is created again under its name: subscribe raises   *)
(* "Already tracking", or finds no stream with its subject, only when a      *)
(* request had failed, the broker was started before, or another channel's   *)
(* name is sanitized to the same stream, however often broker_starting is    *)
(* repeated and whatever drain does (nats.py: subscribe,                     *)
(* _sanitize_stream_name; base.py: init_channel_active_messages).            *)
THEOREM Refused == ASSUME ~Recreates PROVE Spec => []RefusedForAReason
  <1>1. Init => ReasonInv
    BY DEF Init, ReasonInv, LiveInv, NotStartedYet, HandlesLive, FirstTime
  <1>2. GInv /\ ReasonInv /\ [Next]_vars => ReasonInv'
    BY ReasonStep
  <1>3. GInv /\ ReasonInv => RefusedForAReason
    <2> SUFFICES ASSUME GInv, ReasonInv, NEW c \in refused
                 PROVE  faults > 0 \/ starts > 1 \/ ~Alone(c)
      BY DEF RefusedForAReason, Alone
    <2>1. c \in Channels /\ faults \in Nat /\ starts \in Nat
      BY DEF GInv, TypeInv
    <2>2. CASE faults = 0 /\ starts <= 1
      BY <2>1, <2>2 DEF ReasonInv, FirstTime
    <2> QED
      BY <2>1, <2>2
  <1> QED
    BY <1>1, <1>2, <1>3, GInvariance, PTL DEF Spec
=============================================================================
