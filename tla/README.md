# A TLA+ verification of eventstream

`eventstream` is a Go library with one interface, `EventBus` (`src/eventstream.go:11`:
`Emit`, `On`, `Off`, `Close`), and two implementations: an in-memory bus, where goroutines of
one process hand events to each other through channels, and a distributed bus over a message
queue adapter. This directory models the library in TLA+, checks the models with TLC and
proves the central facts about them with TLAPS.

## 1. Inventory

| Component | State | Operations | What makes it correct |
|---|---|---|---|
| Memory bus, `memory.go` | `closed` flag, registry, history, metrics, pool | `Emit`, `On`, `Off`, `Close`, `deliverEvent` | calls from any goroutine, in any order, stop each subscription once and leave registry, history and metrics consistent |
| Memory subscription, `memory_subscription.go:11-144` | `active`, `stopCh`, `eventCh`, `wg`; one goroutine per `Concurrency` | `start`, `stop`, `deliver`, `processEvents`, `handleEvent` | no channel is closed twice, no worker outlives `stop`, no accepted event is handled twice or lost while the subscription lives |
| Subscriber manager, `memory_subscription.go:147-225` | list of subscriptions per topic | `add`, `remove`, `getSubscribers`, `getAllSubscribers` | lists the subscriptions that are open |
| Event history, `memory_components.go:7-57` | bounded slice | `add`, `get` | holds and returns the newest events |
| Event metrics, `memory_components.go:60-125` | three counters per topic | `inc...`, `dec...` | agree with the registry and with the deliveries |
| Retry policy, `utils.go:22-44`, `memory_subscription.go:109-144` | loop counter | `calculateBackoff`, the retry loop | right number of handler calls, right waits |
| Goroutine pool (ants v2.9.0, external) | running goroutines, closed flag | `Submit`, `Release` | assumed, see section 3 |
| Distributed bus, `distributed.go` | `closed` flag, registry, metrics, pool; a stop channel per subscription | the four calls, `processMessages`, `handleEvent` | a subscription is stopped once; no message is doubled or lost between adapter and handler; one is acknowledged only after its handler succeeded |
| Kafka adapter, `kafka_adapter.go` | a reader per topic and group, a pump per subscription | `Publish`, `Subscribe`, `Ack`, `Close` | a position that is committed is one a handler has reached; pumps end |
| RabbitMQ example, `examples/custom_adapter/adapter.go` | a connection, an AMQP channel and a pump per subscription | the same interface | what is not acknowledged comes back; a consumer stalls only on a message it was given |
| Configuration, `config.go`, `eventstream.go` | none | `Validate`, `New`, options | what later code relies on is validated |
| Event model and helpers, `event.go`, `utils.go` | none | constructors, JSON, identifiers | data only |

The bus calls the subscription methods on the caller's goroutine; subscriptions and the bus
share the pool: `start` takes `Concurrency` goroutines out of it for the life of the
subscription, and each `Emit` that finds subscribers takes one for its delivery task.
Subscriptions and delivery tasks share `active`, `stopCh` and `eventCh`, without a lock.
Handlers run on the workers and may call the bus again.

The distributed bus hands an event to its adapter (`Publish`) and takes messages from the channel
that the adapter's `Subscribe` returns. At the sending end of that channel is the adapter's pump,
at the receiving end the goroutine of `processMessages`, which gives each message to a pool task;
the task runs the handler and calls the adapter's `Ack`. Nobody waits for these goroutines:
`Off` and `Close` set flags and close `stopChan`.

The hard behaviours, each with its line and the property that watches it, are the `hazards` of
`PROJECT.json`. The main ones: `deliver` checks `active` and then sends on a channel that `stop`
may have closed; `On` and `Close` both act on a check that is stale; several `Off` and `Close`
calls stop the same subscription, and only one of them waits; workers and deliveries compete
for one pool, whose `Submit` blocks; handlers panic, fail, or call back into the bus; retries
race with `stop`; the backoff arithmetic overflows; on the distributed bus a message may be held by
a pump, a channel, `processMessages` or a task when its subscription is stopped, and acknowledged
after the adapter was closed.

## 2. Modules

| Module | What it is |
|---|---|
| `EventBus` | what both buses promise, the abstract specification they are shown to implement |
| `History` | the pure operations of the event history |
| `MemoryBus` (instances: `MCMemoryBus`) | the memory bus with its subscriptions, registry, metrics and workers in one module, because all the interesting behaviour is in their interleaving |
| `MemoryBusProofs` | type correctness and the stop protocol |
| `MemoryBusFateProofs` | where every event is, and the refinement of `EventBus` |
| `MemoryBusCloseProofs` | the registry, what `Close` owes the subscriptions, and that history and metrics are right |
| `EventHistory` (`MCEventHistory`), `EventHistoryProofs` | the history alone, against the log of all additions |
| `Backoff` (`MCBackoff`), `BackoffProofs` | one run of `handleEvent` with the arithmetic of its delays |
| `Config` | `Validate`, `New`, the defaults and the merge of options |
| `MQAdapter` | the adapter interface and the channel between pump and `processMessages` |
| `KafkaAdapter`, `RabbitAdapter` | the two adapters, each with what it uses of its broker |
| `DistributedBus` (`MCDistributedBus`) | the distributed bus, composed with both adapters; the variable `mq` says which one the configuration holds |
| `DistributedBusProofs` | the stop of a subscription, the registry, its metric and `Close` on the distributed bus |
| `DistributedFlowProofs` | where every message is on the distributed bus, type correctness, the refinement of `EventBus`, and what is left at rest |
| `ListProofs` | lists without repetition, used by the proofs about both buses |

## 3. What is modelled

### MemoryBus

A *caller* is a client goroutine or a worker inside a handler. `pc[p]` names the next atomic
step of the call that `p` is in: one step per mutex section, atomic operation, channel
operation or pool operation, in the order of the code.

| Code | Actions |
|---|---|
| `Emit` | `EmitBegin` (closed check), `EmitRecord`, `EmitCount`, `EmitLookup`, `EmitSubmit`, `EmitAcquire` |
| `On`, `start` | `OnBegin`, then `OnSubmit` and `OnAcquire` for each worker, `OnAdd`, `OnCount` |
| `Off` | `OffBegin`, the stop steps, `OffRemove`, `OffCount` |
| `Close` | `CloseBegin` (the swap), `CloseCollect`, `CloseNext` and the stop steps for each subscription, `CloseRelease` |
| `stop` | `StopCas`, `StopSignal`, `StopWait` |
| `deliverEvent`, `deliver` | `DeliverCheck`, then `DeliverSend`, `DeliverHandoff`, `DeliverRefuse` or `DeliverPanic`; `DeliverDone` |
| `processEvents` | `WorkerReceive`, `WorkerQuit` |
| `handleEvent` | `HandlerSucceeds`, `HandlerFails`, `HandlerPanics`, `BackoffElapses`, `BackoffStopped` |

State: `closer` stands for `closed` and remembers whose `Close` won; `subscribers` is the
manager's map, an empty list standing for an absent key; `eventCh` is the buffered channel;
`stage`, `todo`, `target`, `hits` are the locals of an event's Emit call and delivery task;
`wpc`, `wev`, `attempt` the locals of a worker. `fate` and `openAtClose` are auxiliary: what
became of each event at each subscription, and which subscriptions `On` had returned when
`Close` began.

Decisions worth knowing:

* Channels. A select with several ready cases may take any. A closed `eventCh` makes the send
  case ready and taking it panics; the pool recovers the panic, so only that task dies. With
  `BufferSize` 0 a send succeeds only together with a receiver that waits.
* Pool. `Submit` checks the closed flag and then takes a goroutine or, on a full pool, falls asleep
  (`PoolSleep`). A task that ends wakes one sleeper, `Release` all that are asleep by then, once, and
  a caller that is woken on a released pool gets an error (`Granted`, `Refused`, `Freed`). The closed
  flag is not looked at again before the wait: a call that falls asleep after `Release` may find nobody
  to wake it, and one that need not wait still starts its task. Idle goroutines that `Release` ends
  count for a while and wake a sleeper when they go (`PoolWakes`), which is not relied on. Workers and
  delivery tasks are what occupies the pool. A signal that is sent between a caller's look at the pool
  and its wait is lost; this is modelled on a released pool, and left out on an open one, where only a
  goroutine that ends by a panic signals without the pool's lock. All of this is external: `go.mod`
  requires ants v2.9.0, whose source is not in the repository.
* Calls. Each event is emitted at most once and each subscription created at most once; the
  finite sets `Events` and `Subs` bound the calls, `MaxOffCalls` bounds `Off` per handle.
  Only handles that `On` has returned are given to `Off`. Calls refused at once change nothing
  and are not steps.
* `Close` stops subscriptions in any order, which covers the random order of topics in the map.
* Reading calls (`GetStats`, `GetHistory`) change nothing; `GetHistory` is in `EventHistory`.
* Handler contexts are `context.Background()`, so the `ctx.Done()` cases are never ready.

### History and EventHistory

`HistoryAdd` and `HistoryGet` are `add` and `get`; the mutex makes each one step.
`EventHistory` runs them in any order next to `log`, the sequence of all additions. `answer`
keeps the last result of `get`, its limit and the length of the log at that time.

### Backoff

One run of `handleEvent` with a policy chosen at the start. `calculateBackoff` returns the set
of delays the build may produce: Go leaves the conversion of a float that does not fit to
the implementation, which gives the least integer on amd64 and the greatest on arm64. Durations
go up to `MaxInt`, 2^63 - 1 in the code, and down to `MinInt`.

Floats are fractions, with denominator 0 for infinities and NaN. A multiplier can be any of them, as
nobody validates it: broken, negative, infinite or NaN. Rounding is bounded instead of computed: of the
initial delay, each factor of the power and the product, each rounding is off by at most one part in
`Precision`, and small whole products are exact (`Whole`). `Near` gives every duration that such a float may be cut
to; if the roundings can take it out of the range (`Fits`), the least and the greatest duration are
possible as well, as `InitialDelay` 2^63 - 1 becomes 2^63 in the code; for infinities and NaN they
are all there is, and perhaps 0.

### EventBus

A subscription goes from fresh to open, stopping and stopped; an event at a subscription from
none to running and over. A handler runs only for an emitted event of the subscription's topic,
once per event (retries are one run), and not on a stopped subscription. The constant
`StopWaits` is the one difference between the buses: when the memory bus has stopped a
subscription none of its handlers runs, the distributed bus lets them run on, and still passes
on the one message `processMessages` had in hand. `MemoryBus` maps a subscription's state from
`active`, `chClosed` and `phase`, `DistributedBus` from `proc`, `closed` and `held`; an event's
from `fate` and `task`.

### Config

Configurations are records of the fields that decide what a bus does, `Valid` is `Validate`,
`New` gives the kind of bus. `DistributedBus` takes the configuration as a constant that `New`
must accept, so that its pool size and metrics are those of a valid configuration, and the
options of each `On` call through `mergeSubscribeOptions`.

### DistributedBus and the adapters

| Code | Actions |
|---|---|
| `Emit` | `EmitBegin`, `EmitPublish`, `EmitCount` |
| `On` | `OnBegin`, `OnSubscribe` (the adapter's `Subscribe`, and the goroutine of `processMessages`), `OnAdd`, `OnCount` |
| `Off` | `OffBegin`, `StopCas`, `StopClose`, `OffRemove`, `OffCount` |
| `Close` | `CloseBegin`, `CloseCollect`, `CloseNext` with the stop steps, `CloseAdapter`, `CloseRelease` |
| `processMessages` | `ProcReceive`, `ProcAcquire` (`Submit`), `ProcEnds` |
| `handleEvent` | `HandlerReturns`, `HandlerAcks` |
| Kafka `Publish`, `Subscribe`, `Ack`, `Close` | `KafkaPublish`, `KafkaSubscribe`, `KafkaAck`, `KafkaClose`, each part of the bus step that calls it |
| Kafka `consumeMessages` | `KafkaCheck` (`stopChan`), `KafkaFetch`, `KafkaFetchFails`, `KafkaSend` |
| RabbitMQ, likewise | `RabbitPublish`, `RabbitSubscribe`, `RabbitAck`, `RabbitClose`; `RabbitTake`, `RabbitStop`, `RabbitDisconnected`, `RabbitSend` |
| RabbitMQ broker | `RabbitDeliver` |

* `Faults` is the set of outside calls that may fail: publish (the message may be written all the
  same), subscribe (at any of its five steps), fetch, decode, ack and close.
* Kafka: one partition per topic and no rebalancing, so that a log is a sequence and a reader a
  position in it. A reader is created with its first subscription and used again under its
  name; where it starts is fixed then. A commit sets the group's position to just behind the
  message, or, with a commit interval, does not lower it. Several pumps may wait in one reader.
* RabbitMQ: durable queues bound to an exchange; each consumer has one unacknowledged message at a
  time (`Qos(1)`); when a channel closes its message returns to the front of the queue. The
  connection is closed only by `Close`. An `Ack` that fails leaves the message unacknowledged, on an
  open channel too; a `conn.Close` that fails leaves the connection open or takes it down all the same.
* `Routes` says which routing keys the exchange puts into which bindings, as its type decides:
  equal keys, patterns (`topic`, the default) or everything (`fanout`). The runs have topics that are
  no patterns, so `Routes` is equality; the theorems hold for any `Routes`, but for the two that
  assume `ExactTopics`.
* Pool. The wait of `processMessages` in `Submit` ends with a free goroutine or, once the pool is released, with
  an error (`ProcAcquire`). Nothing has to end one that begins after `Release`; while a subscription is in
  this wait the bus does not count as at rest.
* Names are sequences of the words between dashes, so that joining topic and group with a dash
  is concatenation and can give one name to two pairs, as it does in the code.
* `succeeded`, `routed` and `openAtClose` are auxiliary.

## 4. Runs

`MC*.cfg` gives the constants. The runs of the memory bus have, unless said otherwise: 2 clients,
2 subscriptions and 1 event of one topic, `Concurrency` 1, buffers and retries of 1, `PoolSize` 4
(room for all), history of 2, metrics on, all four calls with one `Off` per handle, handlers that
call nothing. The runs of the distributed bus have one client that emits, subscribes and
unsubscribes and one that closes, 2 subscriptions of one topic and group, a pool of 1, a message
channel of 1 and either adapter. Symmetry is used in runs of safety properties, between values
that the constants treat alike.

| Run | Bounds that differ | Checks |
|---|---|---|
| `BusStop` | 2 `Off` per handle, handlers panic; the first subscription has no buffer, the second `MaxRetries` -1 | `TypeOK`, `StopExclusive`, `Quiesced`, `WorkerAccounting`, `RegistryTracksActive`, `CloseStopsOpen`, `SubscribedAgrees`, `DeliveredAgrees` |
| `BusHandlers` | 1 client, 1 subscription with 2 workers, 3 events, the third of another topic; handlers panic and make every call | `StopInv`, `FateInv`, `TopicIsolation`, `FateConsistent`, `RecordedBeforeDelivered`, `FateFinal`, `ImplementsEventBus` |
| `BusLive` | 1 subscription, 2 events, no history or metrics, no `Close`, handlers panic, fairness | `CallsReturn`, `DeliveryEnds`, `AcceptedSettles` |
| `BusFullPool` | 3 clients, 2 workers each, pool 2, no `Off`, fairness | `CloseUnblocks`, `CloseDrains` |
| `EventHistory` | 2 events, capacity 3, 5 additions, limits -1 to 4 | `RetainsNewest`, `ReadsNewest` |
| `Backoff` | 8-bit durations, precision 32; 3 strategies, 4 retry counts, 5 initial and 3 maximal delays, 9 multipliers, in all combinations, and the nil policy | `TypeOK`, `HandlerCallsExact`, `WaitsAsConfigured`, `WaitBounded` |
| `DistBus` | 2 events, 1 `Off`, nothing fails but handlers | `FetchedIsOnce`, `RestHoldsNothing`, `RestSettlesLog`, `RestStallsOnFailure`, `RestAfterClose`, `ImplementsEventBus` |
| `DistFaults` | 1 event, 2 `Off`, every outside call may fail, the first subscription without `AutoCommit` | `TypeOK`, `StopExclusive`, `RegistryTracksActive`, `CloseStopsOpen`, `SubscribedAgrees`, `CommitWasHandled`, `HandledOrRedelivered` |

What they show. On either bus, however the calls overlap, a subscription is stopped by one of
them and its channels are closed once; `Close` stops what was open when it began, or an `Off`
is doing so; registry and metrics agree with the subscriptions. On the memory bus the channel of
a subscription is closed after its last worker, its WaitGroup does not drift when workers
panic or the pool refuses them, an accepted event is in the buffer or with one worker until it is
settled, and history and metrics say what happened. On the distributed bus no message is
lost or doubled between a reader and a task; a group's committed position stands behind a
message that was handled; RabbitMQ loses no message that was not. Both are event buses in the sense of
`EventBus`.

Why the bounds suffice: two callers are enough for every race between two calls, and each pair
of calls on one subscription occurs; two subscriptions are enough for a list whose first entry
disturbs the second, and to share a reader or a queue; two events fill a buffer of one and occupy
two workers, and one can overtake the other in the handlers; one retry has a wait that `stop` can
interrupt; capacity 3 and 5 additions overflow the history twice. A pool of one makes
`processMessages` wait in `Submit` while its channel fills. In `Backoff` eight bits overflow within
the six retries as 64 bits do after some thirty-four with a delay of a second and a multiplier
of two, and a delay that fits passes the precision of 32, as 2^53 is passed in the code; the greatest
initial delay is rounded out of the range. With both two events and all faults the distributed bus has more states than a run can
visit, so the faults are explored with one event.

Deadlock is checked in `BusStop`, `BusLive`, `DistBus` and `DistFaults`, with a stuttering step
where everything is at rest (`AtRest`), so that calls which block each other for good are an
error. It is not checked where the code does get stuck, which is `BusHandlers` (a handler that
stops its own subscription waits for itself) and `BusFullPool` (`Emit` and `On` wait in `Submit`
until `Close`), nor in the runs that end in a violation, nor in `Backoff`, which terminates.
`EventHistory` always has a read to do. `Close` is left out of `BusLive` to keep the search of
the fair behaviours within minutes; its calls are covered by the deadlock check of `BusStop` and
by `BusFullPool`.

Fairness (`FairSpec` of `MemoryBus`): weak fairness of each call's steps, each delivery task, each
worker's own steps, and of handlers that succeed or fail. Go schedules every runnable goroutine, a
timer fires, a handler is assumed to return. Nobody is obliged to call, and no select is assumed
to choose fairly between its ready cases. A caller asleep in `Submit` has no step that fairness could
give it: where the pool has room nobody falls asleep, and in `BusFullPool` it is woken by a task that
ends or by `Release`, once, after which it goes on. That an idle goroutine wakes it is not assumed.

For `DistributedBus` what must eventually happen is stated as what holds at rest (`Rest...`). Every
step but the stuttering one uses up a part of a call or moves a message forward, and both are
finite, so every run comes to rest, but for a `processMessages` that began to wait in a released pool;
the deadlock check shows that it stops nowhere else. This
needs no choice of fairness and costs a fraction of the search for fair behaviours.

### Where the code departs from what it says

| Run | Statement | Behaviour found |
|---|---|---|
| `BusNoDeliverToAll` | `memory.go:86`: deliver to all subscribers | `deliver` passes the active check, `stop` closes `eventCh`, the send panics, and subscribers later in the list, still active, get nothing |
| `BusCloseMissesOn` | `memory.go:163`: stop all subscriptions | `On` registers after `Close` took its list; the subscription stays active on a closed bus, and `Off` refuses it |
| `BackoffOverflow` | `utils.go:38`: limit to the maximum delay | the product overflows to the least integer, which passes a positive cap: the retry does not wait |
| `DistNameClash` | `docs/distributed_usage.md:15`: a subscription receives messages of its topic | topic `user` with group `created-service` and topic `user-created` with group `service` have one reader or queue, and one gets the other's events |

Limits that are written into the properties because the code has them: `SubscribedAgrees`
excepts topics where a handle was given to `Off` twice, which decrements the counter twice.
`AcceptedSettles` excepts a stopped subscription, whose buffered events stay where they are, and
one whose workers have all panicked, which are not replaced. `CallsReturn` is claimed where the
pool has room and no handler stops a subscription; `BusFullPool` says what remains otherwise, and
`CloseUnblocks` excepts a call that falls asleep in the pool after `Release`: when the pool is full of the
workers of an `On` that `Close` did not see, nobody wakes it.
`CommitWasHandled` speaks of the message just before the committed position only: an earlier one
that failed, or whose handler is still running, is passed over by a later commit, and the code
promises nothing else. `RestSettlesLog` excepts a subscription whose pump has ended after one
failed fetch, which stays registered and gets nothing more. `RestAfterClose` is stated for readers
that `Close` has closed, which it does not when the producer's close fails, and excepts a
pump in a send to a full channel that nobody reads.

## 5. Proofs

All theorems hold for every value of the constants that satisfies the assumptions named in the
modules: finitely many subscriptions and events, any number of clients and topics, any
concurrency, buffer and pool size, any choice of adapter and of outside calls that may fail. Every
invariant and action property that a run checks is a theorem, and so is each refinement;
`CommitWasHandled` and the refinement by the distributed bus need that no two names clash, and the
refinement also that a RabbitMQ exchange routes by equal keys (`ExactTopics`).

*The stop protocol* (`MemoryBusProofs`). The claims are that a
subscription has one stopper (`OneStopper`), that its WaitGroup counts its workers
(`WaitGroupCounts`), that it is quiet once `eventCh` is closed (`StoppedIsQuiet`) and that the
types are right (`TypeCorrect`). None is inductive alone. `wg` is right only because no worker
that start has yet to launch can be running, and because one `On` call owns a subscription
until it is registered (`StartInv`). A subscription that is stopped was registered or listed by
`Close`, and what is listed is fully started (`PublishInv`), so that `wg.Wait` cannot return
before start's last `Add`. The flags go down in the order `active`, `stopCh`, `eventCh`
(`FlagInv`). `StopInv` is the conjunction, and `StopInvariant` is proved as usual: it holds
initially, and every step keeps it.

The typing lemma has one step per action. The other lemmas split the actions only as far as
their conjunct needs: steps that touch neither a worker nor a count (`Calm`), those that move a
worker without ending it, and those that end one (`EndingFacts`). The counts
are handled by the facts on cardinalities of `FiniteSetTheorems`: adding or removing one worker
changes `Live` by one, and at most one caller is at `on.acquire` for a subscription
(`HandingAtMostOne`).
`StoppedIsQuiet` then needs no induction: `chClosed` gives `wg = 0`, the count is zero, and a
finite set of cardinality zero is empty.

*Where every event is* (`MemoryBusFateProofs`). `FateFinal` and `FateConsistent` say that no event
is lost inside the bus or handled twice. They rest on five facts, `FateInv` together, inductive on
top of `StopInv`: a worker with an event in hand is the only one that handles it (`HandInv`); a
buffer holds the accepted events that nobody has taken, each once (`QueueInv`); the manager lists
a subscription once, under its own topic (`ListInv`), so that the copy a delivery works through
offers the event to each subscription once, and has not reached those still on it (`RouteInv`);
and one call emits an event (`EmitInv`). Without `ListInv` a subscription could be twice on a
delivery's copy, and the event be accepted again after it was settled. Each of the five has a
lemma of its own. `KindOfStep` sorts the actions by what they do to a fate: nothing, a delivery's
(`DeliverFates`), a worker taking an event (`TakeFates`), a worker ending one; `OneWay` says that a
fate moves only forward. `NoneLostNoneDoubled` turns the invariant into the statement on
cardinalities (`FatePlaces`).

*The refinement* (`Implements`). Under the mapping of section 3 the initial states map to initial
states (`InitBus`), and every step to a step of `EventBus` or a stutter (`NextBus`). The step that
matters is `StopWait`: `EventBus` requires that no handler runs when a subscription becomes stopped,
which holds because a running handler is a live worker, the WaitGroup counts it, and `wg.Wait`
has returned.

*Registry and Close* (`MemoryBusCloseProofs`). `RegistryTracks` and `CloseStops` rest on two more
facts. `ActiveInv` follows a subscription from its `On` to its end: it is active and, once `On` has
added it, registered; when it is not, a call is stopping it or has closed its channel, and one that
is registered all the same is about to be removed. `CloseInv` says where in Close's loop a
subscription is that `Close` owes a stop: not yet collected, on the list, or the one being stopped.
That the collection misses none is where the two meet: what was open when `Close` began and is
still active is registered, by `ActiveInv`. `Aside` collects the steps that touch no subscription
and begin no call on a closed bus; the others have one step each.

*History and metrics* (`MemoryBusCloseProofs`). `MetricInv` says in the middle of every call what
the history and the counters owe. `RecordInv`: Emit records, counts and only then hands on, so that an
event with a delivery is recorded (`RecordedFirst`). `HitsInv`: the count of a delivery task is that of the
subscriptions that have accepted its event so far; a task killed by the panic of a send on a closed
channel never adds it, which is why `DeliveredAgrees` speaks of deliveries that ran to their end
(`DeliveredCounts`). `SubscribedAgrees` is about the moments between calls, and between calls
nothing is inductive: `CountInv` says of every moment which subscriptions the metric counts,
`InCount`, from the last step of `On` to the last step of `Off`. It needs `OnceInv`, that one `On` call
counts a subscription and that the first `Off` of it has it to itself: it is registered until this
call removes it. Stops by `Close` are set apart (`InOff`), as they neither remove nor count. `CountKinds`
sorts the steps by what they do to the count of one topic, `CountStep` adds or takes one member of a
finite set, and between calls the set is the range of the topic's list, which has no repetition
(`LenDistinct`).

*The retry loop* (`BackoffProofs`). `LoopInv` ties the loop counter to the calls made and a wait to the
retry it precedes. The power in the delay stays an unexamined function: whatever the product is, the conversion
gives a duration (`DurationType`), so that no wait is above the cap (`DelayBounded`, `WaitsBounded`). For a
product that fits, `CutWithin` bounds how far the cut float is from it: less than one nanosecond and its
roundings; `CapWithin` says that the cap brings the two no further apart, and `CappedWithin` joins them for
either sign and for whole products, which are exact. So `WaitsExact` holds for every policy, width and
precision, and the missing wait after an overflow, which `BackoffOverflow` exhibits, is outside its condition.

*The history* (`EventHistoryProofs`). `HistoryInv` is inductive as it stands. The two lemmas are
that adding to the newest `m` elements of a log gives the newest `m` of the longer log
(`AddNewest`), and that the newest of the newest are the newest (`GetNewest`).

*The distributed bus* (`DistributedBusProofs`). `LifeInv` carries the three claims `OneStopper`,
`RegistryTracks` and `CloseStops` over to the bus whose `Off` waits for nobody. It says which
subscription and event each call works on (`CallInv`), that the manager lists a subscription
from `On` until the stop that takes it off (`RegistryInv`), and where in its loop `Close` has what it
owes a stop (`CloseInv`). A subscription that is closed has its stop channel closed or one caller
that is about to, which is what `OneStopper` needs, and `CloseStops` is the two joined. `KindOfStep`
separates what goes on between adapter and handlers (`Flow`), which touches none of this, from
the calls; so the proof is the same for either adapter and for whatever fails. The subscribed
metric (`SubscribedCounts`) rests on the same two facts as on the memory bus, `OnceInv` and `CountInv`.

*Where every message is* (`DistributedFlowProofs`). `FetchedIsOnce` speaks of the subscriptions that
share a Kafka reader (`readers` is keyed by topic and group, and a second `On` takes the reader it
finds), `HandledOrRedelivered` of a RabbitMQ queue. Neither is inductive. `FlowInv` adds: within one
subscription a message is in one place on its way from the broker to a handler (`PlaceInv`); a log
has an event once and a reader's position is inside it (`LogInv`); a subscription is given only what
the reader of its name handed out, and no other subscription of that name is given it (`KafkaInv`);
a message unacknowledged on an open channel is out of the queue and is all that this channel's
subscription works on, and a closed connection leaves no open channel (`RabbitInv`). Most steps move
a message within one subscription; the lemmas about `Moved` and `InnerMoves` dispose of them
together, and the steps left are those that meet the broker: a publication, a fetch, a delivery, an
acknowledgement, a requeue and `Close`. That the messages put back by a requeue are counted once
rests on the facts about lists without repetition (`ListProofs`). `KafkaAssumption` says that
no reader is the value that stands for "no reader", and that the capacity of the message channel is a
natural number.

*Names and the refinement* (`DistributedFlowProofs`). A reader and a queue are found by the name
`topic-group`. `NoClash` says of the constants that no two subscriptions have the same name for
different topics or groups; the run `DistNameClash` shows what happens without it, and the theorems here
assume it. `OwnTopicOnly` and `Implements` assume `ExactTopics` as well, since an exchange that matches
patterns gives a queue other topics by design. `NameInv` says that a name leads to the reader and the queue of its own topic and group, and
that what is committed was handled; a subscription is therefore given events of its own topic only
(`GivenOfTopic`, `OwnTopicOnly`), and `CommitsHandled` follows since a task acknowledges after its
handler's success. For `Implements`, most steps are unseen by `EventBus` (`UnseenStutters`); the five
that are seen are a new `Emit`, the adapter's `Subscribe`, the compare-and-swap of a stop, and
processMessages or a task settling a message (`DropSeen`, `AcquireSeen`, `TaskSeen`). The step that
matters is `ProcAcquire` of a subscription already stopped: the message in hand is still handled, and
`EventBus` allows this once, on the way from "stopping" to "stopped".

*At rest* (`DistributedFlowProofs`). What is left when nothing is under way depends on how the two
goroutines of a subscription have ended, which is `RestInv`, on top of `LifeInv` and `FlowInv`. A channel is
closed exactly when its pump has returned; the loop of `processMessages` ends
only when the subscription was stopped or the closed channel is empty (`EndOf`). A Kafka channel never
holds more than its buffer but for a message its receiver is about to take (`KafkaEndOf`), which makes a pump
that is still in its send at rest one on a full channel. A RabbitMQ consumer has one message on its way at a
time, and one that its open channel has not seen acknowledged was given to the subscription and ended
without an acknowledgement, or is on its way (`RabbitEndOf`). `AtRestOf` draws from this what a
subscription at rest is left with, and `RestHolds`, `RestSettles`, `RestStalls` and `RestCloses` follow. For
`RestSettles` the reader has handed out its whole log (`LogRead`), each message of it was given to a
subscription of that name (`KafkaInv`), and where that one is not settled the subscription was
stopped (`FetchedSettled`). The theorems are about states at rest; that each run gets there is argued in
section 4 and not proved.

*Only model-checked*: the liveness properties (`CallsReturn`, `DeliveryEnds`, `AcceptedSettles`,
`CloseUnblocks`, `CloseDrains`), since liveness under fairness is out of the prover's reach, and that the
buses do not deadlock. `StopInv` and `FateInv` are checked by runs as well. The other
inductive invariants are defined in the proof modules, next to what they are for: `ActiveInv`, `CloseInv` and
`MetricInv` in `MemoryBusCloseProofs`, `LifeInv` and `MetricInv` in `DistributedBusProofs`, `FlowInv`,
`NameInv` and `RestInv` in `DistributedFlowProofs`, `LoopInv` in `BackoffProofs`; `HistoryInv`, in `EventHistory`,
joins what its run checks.

## 6. Not modelled

* Of the memory bus: reading calls other than `GetHistory`. Of the pool: expiry of idle goroutines
  and pre-allocation, which change no order of events.
* Of the distributed bus: the options of a subscription that the code accepts and never reads
  (`Concurrency`, `RetryPolicy`, `BufferSize`, `StartOffset`, the dead letter queue).
* Of Kafka: several partitions, rebalancing between processes, and retention. Of RabbitMQ: a
  connection that fails by itself or takes a failed `Ack` for its end; the adapter has no code for it.
* A crash of the process and its restart: the library persists nothing, and what a restarted process finds is
  the broker's state, a committed position or the queue, of which `CommitWasHandled` and
  `HandledOrRedelivered` speak in every reachable state.
* Event construction, cloning, JSON, identifiers, topic checks and copying of headers: data
  without behaviour. Logging, examples, tests and scripts hold no logic of the library.
