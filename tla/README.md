# moleculerpy-channels in TLA+

moleculerpy-channels is a middleware of the MoleculerPy framework: services declare
*channels*, durable message streams that are consumed by a group of processes, and the
middleware subscribes them through an adapter for Redis Streams, for NATS JetStream or for
memory. This directory holds TLA+ modules for the parts of it that are concurrent, may fail
half-way or outlive a crash, configurations that check them with TLC, and proofs that TLAPS
checks. All paths below are relative to `src/moleculerpy_channels/`; `README.md:n` is the
repository's own README.

    tlc -workers 2 -config RedisStops.cfg MCRedisChannel     # a run
    tlapm RedisChannelProofs.tla                             # the proofs of one module

## 1. Inventory

The program is asyncio code: in one process nothing is preempted, and other tasks run only at
an `await`. Several processes share one consumer group and meet in the server.

| Component | State | Operations | Where |
|---|---|---|---|
| Redis adapter | table of background tasks, `unsubscribing`, claim cursors, active ids; in Redis: stream, group position, pending list, error hashes, dead letter stream | `connect`, `disconnect`, `subscribe`, `unsubscribe`, `publish`; loops `_xreadgroup_loop`, `_xclaim_loop`, `_dlq_loop`; `_process_message`, `_move_to_dlq` | `adapters/redis.py` |
| NATS adapter | subscriptions, `_stopping`, active ids; in JetStream: streams, durable consumer, unacknowledged deliveries | `connect`, `disconnect`, `subscribe`, `unsubscribe`, `publish`; callback `_process_message`; `_move_to_dlq` | `adapters/nats.py` |
| Active message tracking | a set of message ids per channel | `init_`, `add_`, `remove_`, `stop_channel_active_messages`, `wait_for_...` | `adapters/base.py` |
| Middleware lifecycle | `started`, `channel_registry` | hooks `broker_starting`, `service_created`, `service_stopping`, `broker_stopped` | `middleware.py` |
| Context propagation | message headers | `send_to_channel`, `context_handler` | `middleware.py` |
| Fake adapter | subscriptions in memory, active ids | the adapter protocol; `_deliver_message` | `adapters/fake.py` |
| Error headers | in Redis: a hash per message | exception to headers and back | `utils.py`, `adapters/redis.py` |
| Tracing middleware | open spans | `local_channel` wraps a handler; nothing but tests calls it | `tracing.py` |
| Metrics | counters, a gauge | forwards to the broker's metrics | `metrics.py` |
| Configuration, constants, errors | none | options of a channel, names, exception classes | `channel.py`, `constants.py`, `errors.py` |

How they interact: the broker calls the hooks; the middleware calls the adapter; an adapter's
loops start one task (Redis) or one callback (NATS) per delivery, which runs the service's
handler, and adapters of different processes share the server. The table of background tasks,
the active ids and the flag `unsubscribing` connect the hooks with the loops.

What is hard, and what makes each component correct:

* **Redis adapter.** A reply or a page read from the server is used after several awaits,
  while handlers return, other adapters claim and move the same message, the process
  unsubscribes or dies, and any command may fail or be executed with its reply lost. Correct
  means: no message is lost; retries come before the dead letter queue; every message is
  settled in the end; `unsubscribe` waits for what runs and nothing is taken after it.
* **NATS adapter.** The client queues deliveries while `ack_wait` runs, so one message may be in
  hand twice with different counts; answers are not confirmed; the process may end anywhere and
  a new one must get everything published meanwhile. The same promise, by another mechanism.
* **Middleware lifecycle.** Four hooks on several tasks share a list, a flag, a connection and a
  table, each of them changed across awaits. Correct means: every channel of a present service
  is consumed, and no loop outlives its connection or its service.
* **Context propagation.** One side writes strings, the other reads them, over several hops and
  over dead letter queues; on Redis the errors of several attempts meet in one hash, which a move
  reads. Correct means: what is written is what is read.
* **NATS adapter over restarts.** Three tables (subscriptions, active ids, the server's consumers)
  must stay in step while hooks fail, time out and are called again. Correct means: a service that
  was stopped is left alone, none is subscribed twice, and every hook ends.
* **Fake adapter.** `publish` waits for handlers that may publish and unsubscribe themselves, and so
  wait for each other. Correct means: what `publish` promised is done when it returns, and it
  returns.

`PROJECT.json` lists the hazards at their lines with the properties that would notice them; the further
configurations of section 3 show more of them.

## 2. Modules

| Module | Models | Used by |
|---|---|---|
| `AtLeastOnce` | what a durable channel promises to a group, without saying how | both adapters, as refinement |
| `RedisServer` | the Redis commands as `redis.py` uses them (external) | `RedisChannel` |
| `RedisChannel` | `redis.py` with the tracking of `base.py`: the adapters of one group on one channel | `MCRedisChannel`, `RedisChannelProofs` |
| `JetStream` | streams and the durable consumer as `nats.py` uses them (external) | `NatsChannel` |
| `NatsChannel` | `nats.py`: one consumer in a process that stops and is restarted | `MCNatsChannel`, `NatsChannelProofs` |
| `Lists` | the list comprehensions of `middleware.py` and `fake.py` | `ChannelLifecycle`, `FakeChannel` |
| `ChannelLifecycle` | the hooks of `middleware.py` over connection and task table of `redis.py` | `MCChannelLifecycle`, `ChannelLifecycleProofs` |
| `NatsLifecycle` | the hooks over `nats.py` and the table of `base.py`, over several starts of the broker | `MCNatsLifecycle`, `NatsLifecycleProofs` |
| `FakeChannel` | `fake.py`: one channel name in one process | `MCFakeChannel`, `FakeChannelProofs` |
| `ContextPropagation` | `send_to_channel`, `context_handler`, the error hash and the headers of a dead letter | `MCContextPropagation`, `ContextPropagationProofs` |
| `ListProofs` | lemmas on lists: `Keep` of `Lists`, head, tail, append and concatenation | four of the proof modules |
| `...Proofs` | the theorems about the module of that name (section 4) | |

The `MC` modules only name model values and sets for the configurations. Definitions whose
comment says *mutant* are not part of a specification: each is the neighbouring definition with
a plausible mistake, and shows which property would notice it.

### RedisChannel

One action is the code between two awaits. A *delivery* `<<m, n>>` is the n-th time the server
hands out message `m`; `pc[d]` is where its task stands and `by[d]` whose it is:

| `pc` | code |
|---|---|
| `sent` | in a reply of XREADGROUP or XAUTOCLAIM that is on its way |
| `created` | `create_task` was called, the task has not run (`redis.py:532`, `:610`) |
| `handling` | the handler is awaited (`:704`); the id is in the active set |
| `acking`, `cleanup` | XACK, then DEL of the error hash (`:707-717`) |
| `dropping` | XACK of a message without payload (`:694-699`) |
| `failing`, `expiring` | HSET of the error hash (`:719-727`), then its EXPIRE (`:729`) |
| `over` | the `finally` clause has run, or nobody will ever process it |

`life[a]` is an adapter's way through `subscribe`, `unsubscribe` and `disconnect`; `disconnect` may begin
while `unsubscribe` waits, and takes two steps: the loops are cancelled (`DisconnectBegin`), and the
connection is closed after the gather (`DisconnectEnd`); in between (`closing`) commands still succeed and
handlers go on. A `subscribe` that fails (`SubscribeFails`) leaves a consumer group, perhaps, and no loop. `claimLoop`
and `dlqLoop` say which command a loop awaits; `dlqTodo` is the rest of an XPENDING page and is
acted on without a second look, as in the code. `Fault` is a command that raises, or is executed
and loses its reply: it takes the path of the `except` clause at that place. A restarted process
is a new adapter, because the consumer name holds the time of `connect` (`:184`).

Left out: the length of sleeps and of the backoff (a sleep ends at any time, except that an entry
is claimed only after `Age`), the TTL of error hashes, the wording of errors, metrics.

### NatsChannel

`queue` holds the deliveries that the client library keeps for the callback, `current` and `at`
the one in `_process_message` and the await it is at. The callback is awaited one delivery at a
time, so there is one `current`. `Stop` bounds how often the process unsubscribes, disconnects
or crashes; after `ProcessEnds` a new process subscribes to the same durable consumer. `unsubscribe`
ends with the queue empty and the callback at rest (`UnsubscribeEnd`), or with both as they are when
`drain` raises (`UnsubscribeFails`, life `undrained`): the process is then ended by `disconnect` or a
crash. Redelivery is the server's decision (`Expire`, or a nak); what may fail is named by `FaultKinds`.

### ChannelLifecycle

`broker` is where `broker_starting` or `broker_stopped` stands, `service[s]` where the hook of
service `s` stands, with the channels still to be visited in `todo` and `work[s]`. The iteration
over `channel_registry` is over the list object it started with (`middleware.py:501`), which
`_unregister_channel` replaces (`:473`, `Keep`): so `todo` does not see later registrations. A subscription's
three loops are one pair `<<channel, k>>` in `loops`; `table` is `_background_tasks`. A channel in
`Invalid` has a definition that `_parse_channel_definition` refuses: the hook ends there, and what it
registered before stays (`middleware.py:216`). Two
constants say how the broker uses the hooks: `CreateWhileStarting` and `StopWhileBusy`. The framework
is not part of the repository; `examples/simple.py:87` and `examples/graceful_shutdown.py:103` call
`broker_stopped` while services are present, which the model always allows, and start
`service_created` as a task of its own (`simple.py:101`), which may run at any await of a hook.

### ContextPropagation

Contexts are numbered, messages are records of headers; the conversions `Str`, `StrBool`, `Encode`
and back are modelled by what they give the other side. What an application puts into meta and headers is
one token each; an error is one value that every one of its header fields stands for, and only those in
`Coded` have a code. A Context of MoleculerPy is external: as the code uses it (`middleware.py:430-445`),
it keeps what it is given and makes an id. With `ReusesHeaders` a caller passes one headers dictionary to
several calls, into which `send_to_channel` writes over what is there (`middleware.py:154-185`).

`OnRedis` tells the two adapters apart. On Redis an attempt that fails writes its error into the hash of
the message, over the fields of earlier ones (`StoreError`, `redis.py:727`), or not at all (`NotStored`:
HSET fails, or the process ends), the hash may be deleted or expire (`Forget`), and a move reads it as it
is, copies the fields of the entry and puts those of the hash over them (`MoveToDlq`, `redis.py:764-797`).
`nats.py` moves in the attempt that failed, and builds the headers anew (`RaiseAndMove`, `nats.py:425-447`).
A message may be moved again from a dead letter queue (`DlqOf`), with another error. Which attempts there
are, and when a move is due, is the subject of `RedisChannel` and `NatsChannel`; here any number of
attempts of any outcome comes before a move.

### NatsLifecycle

`NatsChannel` follows the messages of one subscription; here the unit is the subscription, and the
question is how the tables fare. `at` is the await the one hook under way is at; hooks come one after
another, except a second `service_stopping` for a service that is stopping (`StoppingAgain`). Callbacks
(`Take`, `Finish`, `InProgressFails`) interleave with them everywhere. A message's id is that of the
subscription it came by, or a fresh one, and an id that `in_progress` left behind when it raised
(`Leaked`) stays for good, unless that message is delivered and handled once more. `drain` succeeds for a
subscription that the server still delivers to (`Drainable`) and raises for the handle of a connection
that was closed: the entry and the tracking then stay (`nats.py:490`, `:501-502`). `handle` is `subscriptions`,
`active` is `_active_messages` with its entries that come and go (`Untracked`: no entry), `live` is what
the server delivers to. `StreamOf` gives the stream name of each channel's name, so two channels may
share one. An existing stream keeps the subject it was created for ("stream name already in use" counts
as success, `nats.py:255`), and `js.subscribe` looks for a stream by subject (external). `deliver_group`
is set so that several subscriptions share a consumer (`nats.py:300`); the model takes it that the
server accepts a second one. It matters only where a channel is subscribed twice, which
`NatsRestarts` shows not to happen.

### FakeChannel

A delivery `<<m, i>>` is the i-th task that the publish of `m` made; `at[d]` is `ready`, `running` or
`done`. A handler may publish or unsubscribe: `waitsFor[d]` is the message or the channel it waits for,
and `caller` and `waiting` say who is waited for. A caller outside of handlers may be cancelled
(`Cancel`): gather cancels its tasks, and they what they wait for, so that a cancellation reaches the least
set closed under "published by a handler of, and still waiting" (`Nested`); a task that has not begun never does
(`Skip`), a running one runs its `finally` clause (`End`). Handlers that raise end as those that
return: the error is logged (`fake.py:194`). Left out: payloads that do not deserialise (the task
ends before it is active) and the message history, which only tests read.

## 3. Runs

| Run | What it asks | Bounds | States |
|---|---|---|---|
| `RedisStops` | Two adapters, one stops anywhere in any way, one command fails, slow handlers: `IInv`, is a message lost (`NoLoss`), is the promise kept (`KeepsPromise`), does a stopped adapter take anything (`QuietAfterStop`)? | 1 message, 2 deliveries | 0.9 M |
| `RedisBatches` | Batches, claim pages of one, a capped stream, a malformed message: `IInv`, `RetriesBeforeDlq`, `DeadLetteredOnce`, and does the cursor come back to everything (`EventuallySettled`)? | 1 adapter, 3 messages, 3 deliveries | 179 k |
| `RedisSettles` | One of two adapters stops, one command fails, prompt handlers: `EventuallySettled`; is the active set what the tasks work on (`ActiveTracksTasks`)? | 1 message | 112 k |
| `NatsStops` | Two stops, a lost delivery or answer, slow handlers: `IInv`, `NoLoss`, `KeepsPromise`, `ActiveTracksTask` | 2 messages, 3 deliveries | 223 k |
| `NatsSettles` | Two faults of every kind, one stop of any kind, one message on its way at a time: `EventuallySettled`, `DeadLettered`; whatever fails, is a message given up before its time (`NotGivenUpEarly`)? | 2 messages, 5 deliveries | 14 k |
| `Lifecycle` | Services come and go, the broker restarts, a subscription fails, a definition is refused: `AllSubscribed`, `LoopsTracked`, `NothingLeft`, `IInv` | 3 services, 5 channels, 2 starts | 84 k |
| `ContextHops` | Two hops, straight or over the dead letter queue once or twice, after attempts that store errors over one another or none, headers reused or not: `TypeOK`, `ContextPropagated`, `MetaKept`, `ErrorVisible` | 3 contexts, 3 messages, 2 errors | 1.2 M |
| `FakeDelivers` | Handlers that publish and unsubscribe, cancelled callers, a timeout, a `disconnect` anywhere: `IInv`, `ActiveTracksHandlers`, `SynchronousDelivery`, `RemovedWhenQuiet`, `EventuallyReturns` | 2 channels, 2 messages, 2 unsubscribes | 361 k |
| `NatsRestarts` | Services come and go, two share a stream name, the broker starts twice, one request fails: `IInv`, `SubscribedOnce`, `StoppedIsQuiet`, `RefusedForAReason`, `HooksEnd` | 3 channels, 2 subscriptions each | 202 k |
| `NatsStopLoses` | *violated:* `NoLoss` while `disconnect` drains | 1 message | |
| `LifecycleLateService` | *violated:* `AllSubscribed` for a service created while `broker_starting` subscribes | | |
| `NatsStartsAgain` | *violated:* an adapter that was connected again is not stopping (`StartsAgain`) | 2 channels | |

**The view.** `RedisStops` tells states apart by the view `ButErrors`, which omits whether an error is stored
(`errInfo`) and whether a move has read one (`dlqErr`): no guard looks at them, so states that agree in
the rest have the same future, and of the properties of the run only the types mention them.

**Why the bounds are enough.** The Redis hazards are races for one message (a claim against a
handler, a move against both, a stop against each), so one message, two adapters and two
deliveries show them; the second delivery is enough to reach `max_retries = 2`. Pages, cursors and
trimming need more messages, and there one adapter suffices; with `max_retries = 3` a message may be
claimed twice, so a cursor that did not come back would be noticed. In JetStream two messages show the
queue of the client; five deliveries leave room for `max_retries = 2`, a stop and two faults
without the bound ever stopping a message. In `FakeDelivers` two channels and two messages are the
least in which a handler waits for the other channel's handler that waits for it, and two unsubscribes
let both give up. In `NatsRestarts` two subscriptions per channel are one before and one after a stop
or a restart; three channels are two that share a stream name and one that does not. `ContextHops`
reaches an origin, its receiver and the receiver's receiver, or one message moved twice; of its two errors one
has a code and one has none, so that what an earlier attempt left can show; one message at a time has a stored
error (`MaxFailing`), as the hashes of two messages do not meet. `MaxDeliveries` bounds redelivery in the guards of `Age`
(through `IdleTimePasses`), `Expire` and the deliveries; `MaxFaults`, `MaxStops`, `MaxStarts`,
`MaxMade`, `MaxContexts`, `MaxMessages`, `MaxFailing`, `MaxUnsubscribes` and `MaxConnects` are named as bounds where they are declared. Deadlock is not checked:
every behaviour ends once all messages are settled and the bounds used up; that the system does
not stop earlier is what `EventuallySettled` says.

**Fairness.** Only weak fairness, on what asyncio, the servers and timers do by themselves: a
ready task runs, a reply that is there is read, a sleep ends, a handler ends, a process that
ended is started again (NATS). Nothing has to fail, stop or crash, and no publisher has to publish.
Strong fairness is nowhere needed: each of these steps stays possible until it is taken, or the
loop it belongs to is cancelled. In `RedisSettles` one adapter may stop for ever; the other is
the one that "keeps running". In `NatsRestarts` (`HooksEnd`) the server answers a hook's requests, a
callback ends, and the timers of `unsubscribe` and `disconnect` run out. In `FakeDelivers`
(`EventuallyReturns`) the event loop runs every task that can run and handlers that wait for nothing
end; a handler that waits is *not* taken to end, so that a circle of waiting handlers is broken by the
timeout of `wait_for_channel_active_messages` alone, which a mutant without it shows.

**Assumptions that runs make, by constant.** `PromptHandlers`: a handler ends within
`min_idle_time` (Redis) or `ack_wait` (NATS), the condition under which `ActiveTracksTasks` and the count in
`DeadLettered` hold. `DisconnectsLive = FALSE` in `NatsStops`: `unsubscribe` comes before `disconnect`;
`NatsSettles` drops it. `CreateWhileStarting` and `StopWhileBusy` are `FALSE` in `Lifecycle`.
`RetriesStart`, `Recreates`, `SelfStops` and, over restarts, the fault `"drain"` are left to the further configurations of
`NatsLifecycle`. `MaxSubscriptions = 1` in `FakeDelivers` says that a channel is subscribed once at a
time, `MaxConnects = 1` that it is not connected again: `FakeReconnects` has the same properties with a second
connect and one unsubscribe less. `FaultKinds` leaves the fault `"drain"` out of `NatsStops`; `NatsSettles` has it.
`MaxFaults` counts commands of connected adapters; a crash is not a fault and is not counted by it.

### Further configurations

Properties that the repository's documents suggest and the code does not have; each is refuted
by TLC in seconds with the configuration named. A configuration with several properties shows the first
that TLC finds refuted; commented out, it makes room for the next. One more configuration, `FakeReconnects`,
passes (548 k states): it is `FakeDelivers` with a second connect, while handlers of the first are at work.

| Configuration | Property | What happens |
|---|---|---|
| `RedisNoClaim` | `EventuallySettled` | `_xclaim_loop` starts only if `channel.redis` is set, which it is not by default: a message whose handler raises once is never tried again (`redis.py:258`) |
| `RedisErrorLost` | `ErrorReachesDlq` | the stored error is deleted before XADD; if XADD raises, the next move writes the entry without it (`:778`) |
| `RedisErrorLost` | `DeadLetteredOnce` | XADD is done and its reply lost, or XACK fails: the entry stays pending and is moved again (`:807`); `RedisBatches` with two adapters shows the same of two that hold a page with it |
| `RedisHandlers` | `HandlersDoneAtUnsubscribe` | tasks enter the active set when they first run and do not look at `unsubscribing`: a handler starts after `unsubscribe` has returned (`:532`) |
| `RedisHandlers` | `OnlyFailedDeadLettered` | a message whose handler returned after the XPENDING reply is moved all the same (`redis.py:661`) |
| `RedisHandlers` | `HandlersDoneAtDisconnect` | `disconnect` gathers the loops only, not the tasks of `_process_message` (`:204`) |
| `RedisHandlers` | `InFlightBounded` | `max_in_flight` is never read (`:522`) |
| `RedisOverlap` | `ActiveTracksTasks` | a handler slower than `min_idle_time` shares its id with the second delivery's task; the first to end removes it (`base.py:238`) |
| `RedisAttempts` | `AttemptsBounded` | deliveries are counted by `_dlq_loop` and made by `_xclaim_loop`, which is faster |
| `NatsFaults` | `NoLoss` | the dead letter publish fails, is logged, and the message is acknowledged (`nats.py:450`) |
| `NatsFaults` | `ActiveTracksTask` | `in_progress` raises before the `try` (`nats.py:353`) |
| `NatsFaults` | `DeadLettered` | a handler slower than `ack_wait` has its message delivered again while it runs: every delivery from `max_retries` on that fails moves it (`nats.py:383`) |
| `NatsUndrained` | `NoLoss` | `drain` raises, `unsubscribe` returns all the same, and `disconnect` refuses the publish of the last attempt that is still under way (`nats.py:501`, `:521`) |
| `LifecycleBusyStop` | `NothingLeft` | a subscription that completes while `disconnect` closes leaves loops (`redis.py:212`) |
| `ContextLosses` | `TracingKept` | `"True"` is written, `"true"` is read (`middleware.py:161`, `:387`) |
| `ContextLosses` | `HeadersKept` | the error of a dead letter replaces `meta["$headers"]` (`middleware.py:426`) |
| `ContextNatsDlq` | `ContextPropagated`, `MetaKept` | a dead letter of the NATS adapter has no context headers (`nats.py:434`) |
| `ContextReused` | `NothingStale` | headers that are used again still hold what an earlier context left there (`middleware.py:154`) |
| `ContextLosses` | `ErrorOfLastAttempt` | HSET of the last attempt fails, or the process ends first: the dead letter shows the error of an earlier attempt (`redis.py:727`, `:775`) |
| `ContextLosses` | `ErrorUnmixed` | HSET clears no field: an error without a code shows the code of an earlier attempt's (`redis.py:727`); and a message moved twice shows fields of both errors (`redis.py:787`, `utils.py:101`) |
| `ContextLosses` | `StackReadable` | the Redis adapter encodes the stack trace, and nothing decodes it (`redis.py:149`, `utils.py:121`) |
| `NatsNames` | `StartsAgain` | channels `a.b` and `a_b` share a stream name, and the second has no stream (`nats.py:220`) |
| `NatsDrainFails` | `StoppedIsQuiet` | `drain` raises, the service is unregistered and goes on getting messages (`nats.py:501`) |
| `NatsStopsTwice` | `EachStopIsQuiet` | the second of two calls returns while the first waits (`nats.py:462`) |
| `NatsRetriesStart` | `SubscribedOnce` | `broker_starting` is repeated after a failure: "Already tracking" stops the second subscription only as long as the channel has had no message (`base.py:240`) |
| `NatsRecreates` | `SubscribedOnce` | a service is created again without having been stopped (`middleware.py:461`) |
| `NatsSelfStops` | `HooksEnd` | a handler that stops its own service waits for a `drain` that waits for it (`nats.py:490`) |
| `FakeUnsubscribe` | `DeliveredToAll` | an `unsubscribe` that gave up leaves a subscription that gets nothing any more (`fake.py:108`) |
| `FakeUnsubscribe` | `NoneAfterUnsubscribe` | a task made before `unsubscribe` begins after it (`fake.py:166`) |
| `FakeTwice` | `ActiveTracksHandlers` | a channel subscribed twice has one active id for two handlers (`fake.py:188`) |

### Findings

The three violated runs, with the document they contradict, are in `PROJECT.json`:

1. The NATS adapter sets `_stopping` before it drains; a last attempt that fails during the drain
   cannot publish its dead letter and is acknowledged.
2. A service created while `broker_starting` subscribes is registered in a list that its loop does
   not see, with `started` still false: nobody subscribes it.
3. `_stopping` is never reset: an adapter that was disconnected and connected again refuses every
   publish.

## 4. Proofs

The proof modules show, for all values of the constants (any number of adapters, services, channels,
messages, deliveries, faults, stops and restarts), every invariant and every action property that a passing
run checks, and the refinement of `AtLeastOnce` by both adapters. The assumptions on constants
(`ServerAssumption`, `ChannelAssumption`, `JetStreamAssumption`, `NatsAssumption`, `LifecycleAssumption`,
`LifeAssumption`, `FakeAssumption`, `ContextAssumption`) say what kind of value each
one is, and TLC evaluates them in the runs. A theorem with a *hypothesis* states the configurations it
covers. Each hypothesis is there because the code does not have the property without it: the last column
names the configurations of section 3 in which TLC refutes it, put in as their invariant.

| Theorem | Statement | Hypothesis | Without it |
|---|---|---|---|
| **`RedisChannelProofs`** | | | |
| `TypeCorrect`, `Invariance` | `TypeOK`, `IInv` | | |
| `NothingLost` | `NoLoss` | | |
| `DeadLettersRetried` | `RetriesBeforeDlq` | | |
| `Refinement` | `Promise!Spec`: every step is a step of `AtLeastOnce` or a stutter | | |
| `Quiet` | `QuietAfterStop` | | |
| `ActiveTracked` | `ActiveTracksTasks` | `PromptHandlers` | `RedisOverlap` |
| `MovedOnlyOnce` | `DeadLetteredOnce` | one adapter, `MaxFaults = 0` | `RedisErrorLost` |
| **`NatsChannelProofs`** | | | |
| `TypeCorrect`, `Invariance` | `TypeOK`, `IInv` | | |
| `TriedOften` | `NotGivenUpEarly`: a message leaves the consumer's care only when handled or delivered `max_retries` times | | |
| `ActiveCovers` | `TaskIsActive`: `unsubscribe` waits for the message in `_process_message` | | |
| `ActiveTracked` | `ActiveTracksTask`: and for no other | `in_progress` does not raise | `NatsFaults` |
| `NothingLost`, `Refinement` | `NoLoss`, `KeepsPromise` | `~MoveMayFail` | `NatsFaults`, `NatsStopLoses`, `NatsUndrained` |
| `DeadLetteredOnce` | `DeadLettered` | `PromptHandlers` | `NatsFaults` |
| **`NatsLifecycleProofs`** | | | |
| `TypeCorrect` | `TypeOK` | | |
| `RunningTracked` | `RunningIsActive`: what is in `_process_message` is tracked, its subscription not drained | | |
| `Invariance`, `Once`, `Stopped` | `IInv`, `SubscribedOnce`, `StoppedIsQuiet` | `Orderly` | `NatsRecreates`, `NatsRetriesStart`, `NatsDrainFails` |
| `Refused` | `RefusedForAReason` | `~Recreates` | `NatsRecreates` |
| **`ChannelLifecycleProofs`** | | | |
| `TypeCorrect`, `GInvariance` | `TypeOK`; `GInv`: no list has a channel twice, numbers have no gaps, a channel is subscribed at most once by its service and once by each start | | |
| `Invariance`, `Tracked`, `Left` | `IInv`, `LoopsTracked`, `NothingLeft` | `~StopWhileBusy` | `LifecycleBusyStop`, `Lifecycle` with `StopWhileBusy = TRUE` |
| `Subscribed` | `AllSubscribed` | `~StopWhileBusy`, `~CreateWhileStarting` | `LifecycleLateService`, `Lifecycle` with `StopWhileBusy = TRUE` |
| **`FakeChannelProofs`** | | | |
| `TypeCorrect`, `Invariance` | `TypeOK`, `IInv` | | |
| `Synchronous` | `SynchronousDelivery` | | |
| `ActiveHandled` | `ActiveIsRunning`: an active message has a handler at work | | |
| `ActiveTracked`, `Removed` | `ActiveTracksHandlers`, `RemovedWhenQuiet` | `MaxSubscriptions <= 1` | `FakeTwice` |
| **`ContextPropagationProofs`** | | | |
| `TypeCorrect`, `Invariance` | `TypeOK`, `CInv` | | |
| `Visible` | `ErrorVisible` | | |
| `Propagated`, `MetaArrives` | `ContextPropagated`, `MetaKept` | `OnRedis` | `ContextNatsDlq` |
| `NothingLeftOver` | `NothingStale` | `OnRedis`, `~ReusesHeaders` | `ContextReused` |

What the hypotheses say of the code. `PromptHandlers`: a handler ends within `min_idle_time`, an hour by
default (`channel.py:51`), or `ack_wait`. `MoveMayFail` is that there is a dead letter queue, and that a
publish to it may raise, or that `disconnect` may come ahead of `unsubscribe` or after one whose `drain`
raised: `nats.py:450` logs the error
and the message is acknowledged. `Orderly` of `NatsLifecycle`: no service is created again under its name,
`broker_starting` is not repeated after it failed, `drain` does not raise; `Refused` needs the first only.
`~StopWhileBusy` of `ChannelLifecycle`: no service stops while `broker_starting` runs, and no hook of a
service is under way while `broker_stopped` disconnects. `~CreateWhileStarting`: no `service_created` runs
while `broker_starting` subscribes. Both are up to the broker, which the repository does not hold.
`OnRedis` is the dead letter queue of `redis.py`; that of `nats.py` is the case without it.

### The arguments

Few of these properties are inductive, as the code uses after an await what it learnt ahead of it. The
inductive invariants say what is carried over, and that it is still true when it is used.

**Redis.** Whether an XACK may be sent depends on what its task learnt several awaits ago. `IInv` has
`GroupInv` (the group's position is behind the publishers, pending and handled messages are behind the
position, a message beyond it was never delivered: why the group must be created at 0, and why a reading
adapter never skips a message), `TaskInv` (a task that is about to acknowledge has a handled message, one
that is about to drop a malformed one, and its delivery's number is at most the server's count) and
`MoveInv` (a message on a page has reached `max_retries`, and counts never fall; a move that is about to
acknowledge has written the dead letter). In the refinement XADD is `Publish`, XREADGROUP and XAUTOCLAIM
are `Attempt` of a batch, the return of a handler is `Handle`, XADD to the dead letter stream is
`DeadLetter`, an effective XACK is `Settle`, and every other action stutters.
`Quiet` rests on `StopInv`: an adapter at rest has no loop, no reply on its way and no page, each of which
could otherwise hand it a message later. `ActiveTracked` needs `UnderWayInv`: a message that is under way
is not idle, so that nobody can claim it, and it is under way once: the `finally` clause that takes an id
out of the set is that of the only task that put it there. `MovedOnlyOnce` needs `MovedInv`: what
was moved is not pending any more, and is on no page, unless its own XACK is awaited or the adapter ended.

**NATS.** `FullInv`, from which every theorem but the last follows, is the types and five parts: `ServerInv` (a message
that is no longer pending is one that may be settled), `QueueInv` and `TaskInv` (a delivery in the client's
queue or in the callback was made with at most the count that the server has, and the callback acknowledges
or moves only what it may), `StopInv` (after a drain that did not raise the queue is empty and no callback is at work, which is why
`disconnect` refuses no move then) and
`ActiveInv`. The weak form of "may be settled" holds in every configuration and gives `TriedOften`; with
`~MoveMayFail` it is the promise. `DeadLetteredOnce` adds `HandInv` (with prompt handlers a delivery in hand
is the only one of its message, and the server does not want to deliver it again) and `MovedInv`, which
counts: an unanswered message has no more dead letters than there were faults and stops.

**Restarts over NATS.** `GInv` holds in every configuration: the handle of a channel is its newest
subscription, a hook's list is a part of the registry, a message in `_process_message` is in the
table. `LiveInv` is what `Orderly` adds: the server delivers to the handle and to nothing else, and a
channel that is in neither the registry nor a hook's hands is quiet. `ReasonInv` tells a first subscribe from
a repeated one by the entry in the table; it contains `LiveInv`, which in the first life of the broker and
without a failure needs no more than that no service is created twice.

**Hooks over Redis.** `GInv` again holds in every configuration; `CountInv` in it bounds the
subscriptions of a channel by its service and the starts. `OInv` needs all of its parts at once: `PhaseInv`
says which hooks go together, so that nothing changes the table that `disconnect` iterates over (`size`);
`RegistryInv` that what is yet to be subscribed is registered, and that only channels of a service that
leaves are flagged; `LoopInv` that every loop is found through the table and the registry; and `HookInv` how
far each hook has come, so that the last step of a hook completes `AllSubscribed` or `NothingLeft`. The parts about channels that
must have been subscribed have `~CreateWhileStarting` as a premise of their own.

**Fake adapter.** Handlers wait for calls that wait for handlers. `WaitsInv` says that every wait is one the
call knows of, and that a cancellation reaches both ends; `DoneInv` and `ReachedInv` are what `publish` leaves
behind. For the tracked ids `OnceInv` (no channel twice in the list, no message twice to one channel)
makes an id stand for one handler.

**Contexts.** `CInv` relates three kinds of fact: headers that `context_handler` may find
(`Readable`, whoever wrote them and however often), headers that convey the context which published them
(`Conveys`), and contexts, each `Connected` to the one that caused it. A message carries them through a move
because the move keeps all headers but those of the error. Of the hash it says that all fields of the error
that was stored last are in it, whatever else is, so that a move puts all of them over what the headers hold.

**Lists.** `Keep` is defined without recursion, through the ascending enumeration of the indices that pass;
that one exists is an induction over finite sets, which is cited in the form of a set that contains the
empty set and is closed under adding one element (`SetInduction`), because a theorem with an operator as
parameter cannot be instantiated.

Each lemma that a step preserves an invariant has one step per action and, below it, one per conjunct the
action can disturb.

**Model-checked only:** the liveness properties `EventuallySettled` (both adapters), `EventuallyReturns` and
`HooksEnd`. They need fairness and ENABLED, which the prover does not reason about. The further
configurations and the three violated runs are TLC's: a theorem cannot show that something goes wrong. No
module declares a RECURSIVE operator.

## 5. What is not modelled, and the plan

Not modelled because no decision depends on it: metrics (nothing reads a counter back), logging,
constants and exception classes, the length of the backoff. The tracing middleware is not modelled because
the program does not compose it: `local_channel` returns a wrapper, and the handlers that
`ChannelsMiddleware` gives to the adapters (`middleware.py:317`, `:333-450`) are made without it. Redis, JetStream, the
client libraries and the MoleculerPy broker are external and are modelled from how the
code uses them. Of channel definitions the modules keep whether they are accepted and the options as
constants. Headers that do not decode are logged and dropped by the code (`middleware.py:398`, `:407`)
and do not occur in the model, whose senders are `send_to_channel` and the adapters. The fake adapter promises
neither retries nor dead letters, so `AtLeastOnce` is not what it implements.

Next: what holds where a hypothesis of section 4 fails. How many dead letters of one message the Redis
adapters can write for each fault and each adapter (`DeadLetteredOnce` is the case of none); how many
dead letters of one message slow handlers can cause over NATS; what of a context survives the dead letter
queue of `nats.py` (`OnRedis = FALSE`); which loops can be left when a hook of a service runs into one
of the broker's. Then the safety halves of the liveness arguments: that a message which is not settled is
always idle, pending at a live task, or unread, so that `EventuallySettled` fails only where a step is not taken.
