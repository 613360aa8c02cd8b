---------------------------- MODULE DistributedBus ----------------------------
(***************************************************************************)
(* The distributed event bus (distributed.go) on top of either adapter.    *)
(* mq says which one the configuration holds; the calls of the interface   *)
(* are dispatched on it.  Callers are goroutines outside the bus, handlers *)
(* that call it included; each has a program counter that names the next   *)
(* atomic step of its call.  A call refused at once is not a step.         *)
(***************************************************************************)
EXTENDS KafkaAdapter, RabbitAdapter

CONSTANTS
  Clients,
  ClientCalls,    \* the calls each client makes
  Adapters,       \* the adapters to choose from
  BusConfig,      \* the Config given to New
  SubOptions,     \* the options of each On call
  MaxOffCalls     \* bound: Off calls

PoolSize == BusConfig.PoolSize
EnableMetrics == BusConfig.Distributed.EnableMetrics
SubConfig(s) == mergeSubscribeOptions(SubOptions[s])

ASSUME BusAssumption ==
  /\ New(BusConfig) = "distributed"
  /\ Adapters \subseteq {"kafka", "rabbit"}
  /\ DOMAIN ClientCalls = Clients /\ MaxOffCalls \in Nat /\ None \notin Clients

VARIABLES
  mq,
  closer,       \* the caller whose Close won the swap; closed == closer # None
  poolClosed,
  subscribers,  \* the subscriber manager: registered subscriptions by topic
  closing,      \* Close's list of subscriptions it has yet to stop
  phase,        \* how far On has come with this subscription
  closed,       \* the closed flag of each subscription
  offCalls,
  pc, sub, ev,  \* of each caller
  stage,        \* the Emit call of each event
  held,         \* the message processMessages holds
  task,         \* the pool task of each subscription and event, or its outcome
  emitted, subscribed,
  \* auxiliary: the subscriptions whose On had returned when Close began, and
  \* the handler runs that succeeded
  openAtClose, succeeded

busVars == <<mq, closer, poolClosed, subscribers, closing, openAtClose>>
subVars == <<phase, closed, offCalls>>
callVars == <<pc, sub, ev>>
metricVars == <<emitted, subscribed>>
procVars == <<held, task, succeeded>>
mqVars == <<pump, chanVars, proc, kafkaVars, rabbitVars>>
vars == <<busVars, subVars, callVars, stage, metricVars, procVars, mqVars>>

Init ==
  /\ mq \in Adapters
  /\ closer = None /\ poolClosed = FALSE
  /\ subscribers = [t \in Topics |-> <<>>]
  /\ closing = {} /\ openAtClose = {}
  /\ phase = [s \in Subs |-> "fresh"]
  /\ closed = [s \in Subs |-> FALSE]
  /\ offCalls = [s \in Subs |-> 0]
  /\ pc = [p \in Clients |-> "idle"]
  /\ sub = [p \in Clients |-> None] /\ ev = [p \in Clients |-> None]
  /\ stage = [e \in Events |-> "new"]
  /\ held = [s \in Subs |-> None]
  /\ task = [s \in Subs |-> [e \in Events |-> "none"]] /\ succeeded = {}
  /\ emitted = [t \in Topics |-> 0] /\ subscribed = [t \in Topics |-> 0]
  /\ ChannelInit /\ KafkaInit /\ RabbitInit

Closed == closer # None
At(p, label) == pc[p] = label
Goto(p, label) == pc' = [pc EXCEPT ![p] = label]
MayCall(p, call) == At(p, "idle") /\ ~Closed /\ call \in ClientCalls[p]

\* Goroutines of the pool that are busy.
Running == Cardinality({t \in Subs \X Events : task[t[1]][t[2]] \in {"handling", "acking"}})

------------------------------------------------------------------------------
(* The adapter's methods *)

Kafka == mq = "kafka" /\ UNCHANGED rabbitVars
Rabbit == mq = "rabbit" /\ UNCHANGED kafkaVars

Publish(e, ok) ==
  /\ (Kafka /\ KafkaPublish(e, ok)) \/ (Rabbit /\ RabbitPublish(e, ok))
  /\ UNCHANGED <<pump, chanVars, proc>>

Subscribe(s, ok) == (Kafka /\ ok /\ KafkaSubscribe(s)) \/ (Rabbit /\ RabbitSubscribe(s, ok))

Ack(s, e, ok) ==
  /\ (Kafka /\ KafkaAck(s, e, ok)) \/ (Rabbit /\ RabbitAck(s, e, ok))
  /\ UNCHANGED <<pump, chanVars, proc>>

CloseConnections ==
  /\ \E ok \in BOOLEAN : (Kafka /\ KafkaClose(ok)) \/ (Rabbit /\ RabbitClose(ok))
  /\ UNCHANGED <<pump, chanVars, proc>>

------------------------------------------------------------------------------
(* Emit *)

EmitBegin(p, e) ==
  /\ MayCall(p, "Emit") /\ stage[e] = "new"
  /\ stage' = [stage EXCEPT ![e] = "emitting"]
  /\ ev' = [ev EXCEPT ![p] = e]
  /\ Goto(p, "emit.publish")
  /\ UNCHANGED <<busVars, subVars, sub, metricVars, procVars, mqVars>>

EmitPublish(p) ==
  LET e == ev[p]
  IN  /\ At(p, "emit.publish")
      /\ \E ok \in BOOLEAN :
           /\ Publish(e, ok)
           /\ stage' = [stage EXCEPT ![e] = IF ok THEN "published" ELSE "failed"]
           /\ Goto(p, IF ok THEN "emit.count" ELSE "idle")
      /\ UNCHANGED <<busVars, subVars, sub, ev, metricVars, procVars>>

EmitCount(p) ==
  /\ At(p, "emit.count")
  /\ emitted' = IF EnableMetrics THEN [emitted EXCEPT ![EventTopic[ev[p]]] = @ + 1]
                                 ELSE emitted
  /\ Goto(p, "idle")
  /\ UNCHANGED <<busVars, subVars, sub, ev, stage, subscribed, procVars, mqVars>>

------------------------------------------------------------------------------
(* On *)

OnBegin(p, s) ==
  /\ MayCall(p, "On") /\ phase[s] = "fresh"
  /\ phase' = [phase EXCEPT ![s] = "starting"]
  /\ sub' = [sub EXCEPT ![p] = s]
  /\ Goto(p, "on.subscribe")
  /\ UNCHANGED <<busVars, closed, offCalls, ev, stage, metricVars, procVars, mqVars>>

\* adapter.Subscribe; with the channel it returns processMessages is started.
OnSubscribe(p) ==
  LET s == sub[p]
  IN  /\ At(p, "on.subscribe")
      /\ \E ok \in BOOLEAN :
           /\ Subscribe(s, ok)
           /\ proc' = IF ok THEN [proc EXCEPT ![s] = "receive"] ELSE proc
           /\ phase' = IF ok THEN phase ELSE [phase EXCEPT ![s] = "failed"]
           /\ Goto(p, IF ok THEN "on.add" ELSE "idle")
      /\ UNCHANGED <<busVars, closed, offCalls, sub, ev, stage, metricVars, procVars,
                     chanVars>>

OnAdd(p) ==
  LET s == sub[p]
  IN  /\ At(p, "on.add")
      /\ subscribers' = [subscribers EXCEPT ![SubTopic[s]] = Append(@, s)]
      /\ phase' = [phase EXCEPT ![s] = "added"]
      /\ Goto(p, "on.count")
      /\ UNCHANGED <<mq, closer, poolClosed, closing, openAtClose, closed, offCalls,
                     sub, ev, stage, metricVars, procVars, mqVars>>

OnCount(p) ==
  LET s == sub[p]
  IN  /\ At(p, "on.count")
      /\ subscribed' = IF EnableMetrics THEN [subscribed EXCEPT ![SubTopic[s]] = @ + 1]
                                        ELSE subscribed
      /\ phase' = [phase EXCEPT ![s] = "open"]
      /\ Goto(p, "idle")
      /\ UNCHANGED <<busVars, closed, offCalls, sub, ev, stage, emitted, procVars, mqVars>>

------------------------------------------------------------------------------
(* Off, Close, and the stop of a subscription that both call *)

OffBegin(p, s) ==
  /\ MayCall(p, "Off") /\ phase[s] = "open" /\ SumFunction(offCalls) < MaxOffCalls
  /\ offCalls' = [offCalls EXCEPT ![s] = @ + 1]
  /\ sub' = [sub EXCEPT ![p] = s]
  /\ Goto(p, "stop.cas")
  /\ UNCHANGED <<busVars, phase, closed, ev, stage, metricVars, procVars, mqVars>>

AfterStop(p) == IF p = closer THEN "close.next" ELSE "off.remove"

\* Mutant of StopCas: a store in place of the compare-and-swap.
StopCasMutant(p) ==
  LET s == sub[p]
  IN  /\ At(p, "stop.cas")
      /\ closed' = [closed EXCEPT ![s] = TRUE]
      /\ Goto(p, "stop.close")
      /\ UNCHANGED <<busVars, phase, offCalls, sub, ev, stage, metricVars, procVars, mqVars>>

StopCas(p) ==
  LET s == sub[p]
  IN  /\ At(p, "stop.cas")
      /\ closed' = [closed EXCEPT ![s] = TRUE]
      /\ Goto(p, IF closed[s] THEN AfterStop(p) ELSE "stop.close")
      /\ UNCHANGED <<busVars, phase, offCalls, sub, ev, stage, metricVars, procVars, mqVars>>

\* closeFunc closes stopChan, and nobody waits for the pump or for the handlers.
StopClose(p) ==
  /\ At(p, "stop.close")
  /\ stopChan' = [stopChan EXCEPT ![sub[p]] = TRUE]
  /\ Goto(p, AfterStop(p))
  /\ UNCHANGED <<busVars, subVars, sub, ev, stage, metricVars, procVars,
                 pump, inHand, msgChan, chanClosed, proc, kafkaVars, rabbitVars>>

\* Mutant of Without: the slice starts at the entry it should cut out.
WithoutMutant(subs, s) == subs

\* distributedSubscriberManager.remove: the entry with the subscription's id.
Without(subs, s) == RemoveFirst(subs, s)

OffRemove(p) ==
  LET s == sub[p]
  IN  /\ At(p, "off.remove")
      /\ subscribers' = [subscribers EXCEPT ![SubTopic[s]] = Without(@, s)]
      /\ Goto(p, "off.count")
      /\ UNCHANGED <<mq, closer, poolClosed, closing, openAtClose, subVars, sub, ev,
                     stage, metricVars, procVars, mqVars>>

\* Mutant of OffCount: the counter is not kept from going below zero.
OffCountMutant(p) ==
  LET t == SubTopic[sub[p]]
  IN  /\ At(p, "off.count")
      /\ subscribed' = IF EnableMetrics THEN [subscribed EXCEPT ![t] = @ - 1] ELSE subscribed
      /\ Goto(p, "idle")
      /\ UNCHANGED <<busVars, subVars, sub, ev, stage, emitted, procVars, mqVars>>

OffCount(p) ==
  LET t == SubTopic[sub[p]]
  IN  /\ At(p, "off.count")
      /\ subscribed' = IF EnableMetrics /\ subscribed[t] > 0
                       THEN [subscribed EXCEPT ![t] = @ - 1] ELSE subscribed
      /\ Goto(p, "idle")
      /\ UNCHANGED <<busVars, subVars, sub, ev, stage, emitted, procVars, mqVars>>

CloseBegin(p) ==
  /\ MayCall(p, "Close")
  /\ closer' = p
  /\ openAtClose' = {s \in Subs : phase[s] = "open"}
  /\ Goto(p, "close.collect")
  /\ UNCHANGED <<mq, poolClosed, subscribers, closing, subVars, sub, ev, stage,
                 metricVars, procVars, mqVars>>

CloseCollect(p) ==
  /\ At(p, "close.collect")
  /\ closing' = UNION {Range(subscribers[t]) : t \in Topics}
  /\ Goto(p, "close.next")
  /\ UNCHANGED <<mq, closer, poolClosed, subscribers, openAtClose, subVars, sub, ev,
                 stage, metricVars, procVars, mqVars>>

\* Mutant of CloseNext: Close leaves its loop after the first subscription.
CloseNextMutant(p) ==
  /\ At(p, "close.next")
  /\ \/ \E s \in closing : /\ closing' = {}
                           /\ sub' = [sub EXCEPT ![p] = s]
                           /\ Goto(p, "stop.cas")
     \/ closing = {} /\ Goto(p, "close.adapter") /\ UNCHANGED <<closing, sub>>
  /\ UNCHANGED <<mq, closer, poolClosed, subscribers, openAtClose, subVars, ev, stage,
                 metricVars, procVars, mqVars>>

CloseNext(p) ==
  /\ At(p, "close.next")
  /\ \/ \E s \in closing : /\ closing' = closing \ {s}
                           /\ sub' = [sub EXCEPT ![p] = s]
                           /\ Goto(p, "stop.cas")
     \/ closing = {} /\ Goto(p, "close.adapter") /\ UNCHANGED <<closing, sub>>
  /\ UNCHANGED <<mq, closer, poolClosed, subscribers, openAtClose, subVars, ev, stage,
                 metricVars, procVars, mqVars>>

\* The adapter's error is printed and Close goes on.
CloseAdapter(p) ==
  /\ At(p, "close.adapter")
  /\ CloseConnections
  /\ Goto(p, "close.release")
  /\ UNCHANGED <<busVars, subVars, sub, ev, stage, metricVars, procVars>>

CloseRelease(p) ==
  /\ At(p, "close.release")
  /\ poolClosed' = TRUE
  /\ Goto(p, "idle")
  /\ UNCHANGED <<mq, closer, subscribers, closing, openAtClose, subVars, sub, ev, stage,
                 metricVars, procVars, mqVars>>

------------------------------------------------------------------------------
(* processMessages and handleEvent *)

Settle(s, e, outcome) == task' = [task EXCEPT ![s][e] = outcome]

\* Mutant of ProcReceive: a stopped subscription goes on as before.
ProcReceiveMutant(s) ==
  /\ proc[s] = "receive" /\ msgChan[s] # <<>> /\ ~poolClosed
  /\ msgChan' = [msgChan EXCEPT ![s] = Tail(@)]
  /\ proc' = [proc EXCEPT ![s] = "acquire"]
  /\ held' = [held EXCEPT ![s] = Head(msgChan[s])]
  /\ UNCHANGED <<busVars, subVars, callVars, stage, metricVars, succeeded, task, pump,
                 inHand, chanClosed, stopChan, kafkaVars, rabbitVars>>

\* The loop takes a message.  It ends with it when the subscription is stopped,
\* and drops it when it cannot be decoded or the pool is released.
ProcReceive(s) ==
  LET e == Head(msgChan[s])
  IN  /\ proc[s] = "receive" /\ msgChan[s] # <<>>
      /\ msgChan' = [msgChan EXCEPT ![s] = Tail(@)]
      /\ \/ /\ closed[s]
            /\ proc' = [proc EXCEPT ![s] = "gone"]
            /\ Settle(s, e, "dropped") /\ UNCHANGED held
         \/ /\ ~closed[s] /\ MayFail("decode")
            /\ Settle(s, e, "undecodable") /\ UNCHANGED <<proc, held>>
         \/ /\ ~closed[s] /\ poolClosed
            /\ Settle(s, e, "dropped") /\ UNCHANGED <<proc, held>>
         \/ /\ ~closed[s] /\ ~poolClosed
            /\ proc' = [proc EXCEPT ![s] = "acquire"]
            /\ held' = [held EXCEPT ![s] = e]
            /\ UNCHANGED task
      /\ UNCHANGED <<busVars, subVars, callVars, stage, metricVars, succeeded, pump,
                     inHand, chanClosed, stopChan, kafkaVars, rabbitVars>>

\* Mutant of ProcAcquire: the loop ends when Submit returns an error.
ProcAcquireMutant(s) ==
  /\ proc[s] = "acquire"
  /\ held' = [held EXCEPT ![s] = None]
  /\ \/ Running < PoolSize /\ Settle(s, held[s], "handling")
          /\ proc' = [proc EXCEPT ![s] = "receive"]
     \/ poolClosed /\ Settle(s, held[s], "dropped") /\ proc' = [proc EXCEPT ![s] = "gone"]
  /\ UNCHANGED <<busVars, subVars, callVars, stage, metricVars, succeeded, pump,
                 chanVars, kafkaVars, rabbitVars>>

\* Submit waits for a goroutine of the pool.  Release, or the end of a task after
\* it, may wake it with an error, which drops the message; nobody has to wake a wait
\* that begins after Release, and with one the bus is never at rest.
ProcAcquire(s) ==
  /\ proc[s] = "acquire"
  /\ \/ Running < PoolSize /\ Settle(s, held[s], "handling")
     \/ poolClosed /\ Settle(s, held[s], "dropped")
  /\ proc' = [proc EXCEPT ![s] = "receive"]
  /\ held' = [held EXCEPT ![s] = None]
  /\ UNCHANGED <<busVars, subVars, callVars, stage, metricVars, succeeded, pump,
                 chanVars, kafkaVars, rabbitVars>>

ProcEnds(s) ==
  /\ proc[s] = "receive" /\ msgChan[s] = <<>> /\ chanClosed[s]
  /\ proc' = [proc EXCEPT ![s] = "gone"]
  /\ UNCHANGED <<busVars, subVars, callVars, stage, metricVars, procVars, pump, chanVars,
                 kafkaVars, rabbitVars>>

\* Mutant of HandlerReturns: the message is acknowledged whatever the result.
HandlerReturnsMutant(s, e, ok) ==
  /\ task[s][e] = "handling"
  /\ succeeded' = IF ok THEN succeeded \cup {<<s, e>>} ELSE succeeded
  /\ Settle(s, e, IF SubConfig(s).AutoCommit THEN "acking" ELSE "handled")
  /\ UNCHANGED <<busVars, subVars, callVars, stage, metricVars, held, mqVars>>

\* The handler runs once.  Its success is acknowledged if AutoCommit says so; an
\* error, or a panic that the pool recovers, ends the task.
HandlerReturns(s, e, ok) ==
  /\ task[s][e] = "handling"
  /\ succeeded' = IF ok THEN succeeded \cup {<<s, e>>} ELSE succeeded
  /\ Settle(s, e, IF ~ok THEN "failed"
                  ELSE IF SubConfig(s).AutoCommit THEN "acking" ELSE "handled")
  /\ UNCHANGED <<busVars, subVars, callVars, stage, metricVars, held, mqVars>>

\* The acknowledgement's error is printed, and the task ends.
HandlerAcks(s, e) ==
  /\ task[s][e] = "acking"
  /\ \E ok \in BOOLEAN : /\ Ack(s, e, ok)
                         /\ Settle(s, e, IF ok THEN "handled" ELSE "unacknowledged")
  /\ UNCHANGED <<busVars, subVars, callVars, stage, metricVars, held, succeeded>>

------------------------------------------------------------------------------
(* The specification *)

CallBegin(p) ==
  \/ \E e \in Events : EmitBegin(p, e)
  \/ \E s \in Subs : OnBegin(p, s) \/ OffBegin(p, s)
  \/ CloseBegin(p)

CallStep(p) ==
  \/ EmitPublish(p) \/ EmitCount(p)
  \/ OnSubscribe(p) \/ OnAdd(p) \/ OnCount(p)
  \/ StopCas(p) \/ StopClose(p) \/ OffRemove(p) \/ OffCount(p)
  \/ CloseCollect(p) \/ CloseNext(p) \/ CloseAdapter(p) \/ CloseRelease(p)

ProcStep(s) == ProcReceive(s) \/ ProcAcquire(s) \/ ProcEnds(s)

HandlerStep(s, e) == HandlerAcks(s, e) \/ \E ok \in BOOLEAN : HandlerReturns(s, e, ok)

KafkaPump(s) == Kafka /\ (KafkaCheck(s) \/ KafkaFetch(s) \/ KafkaFetchFails(s) \/ KafkaSend(s))
RabbitPump(s) == Rabbit /\ (RabbitTake(s) \/ RabbitStop(s) \/ RabbitDisconnected(s) \/ RabbitSend(s))
RabbitPush(s) == Rabbit /\ RabbitDeliver(s)

PumpStep(s) ==
  /\ KafkaPump(s) \/ RabbitPump(s)
  /\ UNCHANGED <<busVars, subVars, callVars, stage, metricVars, procVars>>

PushStep(s) ==
  /\ RabbitPush(s)
  /\ UNCHANGED <<busVars, subVars, callVars, stage, metricVars, procVars>>

\* Nothing is under way: no call, no task, and goroutines wait for messages that
\* are not there, or for room on a channel that nobody reads.
KafkaAtRest(s) ==
  /\ pump[s] = "fetch" => Reader(s).open /\ Reader(s).pos = Len(log[Reader(s).topic])
  /\ pump[s] = "send" => ~Room(s, ChannelBuffer)
RabbitAtRest(s) ==
  /\ pump[s] = "select" => conn /\ ~stopChan[s] /\ delivery[s] = None
  /\ pump[s] = "send" => ~Room(s, 0)
  /\ channel[s] = "open" /\ unacked[s] = None => queue[KeyOf(s)] = <<>>
AtRest ==
  /\ \A p \in Clients : At(p, "idle")
  /\ Running = 0
  /\ \A s \in Subs :
       /\ proc[s] # "acquire" /\ pump[s] # "check"
       /\ proc[s] = "receive" => msgChan[s] = <<>> /\ ~chanClosed[s]
       /\ IF mq = "kafka" THEN KafkaAtRest(s) ELSE RabbitAtRest(s)
Rest == AtRest /\ UNCHANGED vars

Next ==
  \/ \E p \in Clients : CallBegin(p) \/ CallStep(p)
  \/ \E s \in Subs : ProcStep(s) \/ PumpStep(s) \/ PushStep(s)
  \/ \E s \in Subs, e \in Events : HandlerStep(s, e)
  \/ Rest

Spec == Init /\ [][Next]_vars

------------------------------------------------------------------------------
(* Type correctness *)

OffPC == {"off.remove", "off.count"}
StopPC == {"stop.cas", "stop.close"}
Labels == {"idle", "emit.publish", "emit.count", "on.subscribe", "on.add", "on.count",
           "close.collect", "close.next", "close.adapter", "close.release"}
            \cup StopPC \cup OffPC
Outcomes == {"handled", "unacknowledged", "failed", "undecodable", "dropped"}

BusTypes ==
  /\ mq \in Adapters /\ closer \in Clients \cup {None} /\ poolClosed \in BOOLEAN
  /\ subscribers \in [Topics -> Seq(Subs)]
  /\ closing \subseteq Subs /\ openAtClose \subseteq Subs
  /\ phase \in [Subs -> {"fresh", "starting", "added", "open", "failed"}]
  /\ closed \in [Subs -> BOOLEAN] /\ offCalls \in [Subs -> Nat]
  /\ stopChan \in [Subs -> BOOLEAN]
  /\ proc \in [Subs -> {"none", "receive", "acquire", "gone"}]
  /\ pc \in [Clients -> Labels]
  /\ sub \in [Clients -> Subs \cup {None}] /\ ev \in [Clients -> Events \cup {None}]
  /\ stage \in [Events -> {"new", "emitting", "published", "failed"}]
  /\ emitted \in [Topics -> Nat] /\ subscribed \in [Topics -> Nat]
FlowTypes ==
  /\ pump \in [Subs -> {"none", "check", "fetch", "select", "send", "done"}]
  /\ inHand \in [Subs -> Events \cup {None}] /\ msgChan \in [Subs -> Seq(Events)]
  /\ held \in [Subs -> Events \cup {None}] /\ succeeded \subseteq Subs \X Events
  /\ task \in [Subs -> [Events -> {"none", "handling", "acking"} \cup Outcomes]]
  /\ chanClosed \in [Subs -> BOOLEAN]
  /\ \A s \in Subs : (pump[s] = "send" <=> inHand[s] # None)
                       /\ (proc[s] = "acquire" <=> held[s] # None)
KafkaTypes ==
  /\ log \in [Topics -> Seq(Events)] /\ committed \in [Groups \X Topics -> Nat]
  /\ readers \in [Keys -> ReaderType \cup {None}]
  /\ producerClosed \in BOOLEAN
RabbitTypes ==
  /\ queue \in [Keys -> Seq(Events)]
  /\ bound \in [Keys -> SUBSET Topics] /\ routed \in [Keys -> SUBSET Events]
  /\ channel \in [Subs -> {"none", "open", "closed"}] /\ conn \in BOOLEAN
  /\ unacked \in [Subs -> Events \cup {None}] /\ delivery \in [Subs -> Events \cup {None}]

\* Every variable has the type of what it models, and a goroutine that works on
\* a message holds one.
TypeOK == BusTypes /\ FlowTypes /\ KafkaTypes /\ RabbitTypes

------------------------------------------------------------------------------
(* Safety *)

\* The places inside the process where subscription s has message e.
Places(s, e) ==
  {i \in DOMAIN msgChan[s] : msgChan[s][i] = e}
    \cup {x \in {"hand"} : inHand[s] = e} \cup {x \in {"held"} : held[s] = e}
    \cup {x \in {"task"} : task[s][e] # "none"}

Fetched(k) ==
  IF readers[k] = None THEN {}
  ELSE LET r == readers[k] IN {log[r.topic][i] : i \in (r.first + 1)..r.pos}

\* A message that a Kafka reader has handed out is in exactly one place of one of
\* the subscriptions that share the reader, and one it has not is in none: the
\* pumps, processMessages and the tasks neither lose nor double a message.
FetchedIsOnce ==
  mq = "kafka" => \A k \in Keys, e \in Events :
    Cardinality(UNION {{s} \X Places(s, e) : s \in {c \in Subs : KeyOf(c) = k}})
      = IF e \in Fetched(k) THEN 1 ELSE 0

\* The position a group has committed stands behind a message that a handler of
\* the group succeeded on; of the messages before it nothing can be said.
CommitWasHandled ==
  \A g \in Groups, t \in Topics : LET n == committed[g, t] IN
    n > 0 => \E s \in Subs : SubGroup[s] = g /\ n <= Len(log[t]) /\ <<s, log[t][n]>> \in succeeded

\* RabbitMQ loses nothing: a message put into a queue is in it, or in the hands of
\* a consumer whose end would return it, or some handler succeeded on it.
HandledOrRedelivered ==
  \A k \in Keys : \A e \in routed[k] :
    \/ e \in Range(queue[k])
    \/ \E s \in Subs : KeyOf(s) = k /\ (unacked[s] = e \/ <<s, e>> \in succeeded)

\* Of all the calls that stop a subscription one calls closeFunc, once: a second
\* close of stopChan would panic.
StopExclusive ==
  \A p \in Clients : At(p, "stop.close") =>
    /\ closed[sub[p]] /\ ~stopChan[sub[p]]
    /\ \A q \in Clients : At(q, "stop.close") /\ sub[q] = sub[p] => q = p

Registered(s) == s \in Range(subscribers[SubTopic[s]])

\* An active subscription whose On has returned is registered, and a registered
\* one that is not active is being taken off by a call, or the bus is closed.
RegistryTracksActive ==
  \A s \in Subs :
    /\ phase[s] = "open" /\ ~closed[s] => Registered(s)
    /\ Registered(s) /\ closed[s] =>
         Closed \/ \E p \in Clients : sub[p] = s /\ pc[p] \in StopPC \cup OffPC

\* When Close has released the pool, each subscription whose On had returned
\* before it is signalled to stop, or an Off that overlaps Close is about to.
CloseStopsOpen ==
  poolClosed => \A s \in openAtClose :
    stopChan[s] \/ \E p \in Clients : At(p, "stop.close") /\ sub[p] = s

\* Between calls the subscribed metric is the number of registered subscriptions,
\* unless one of the topic was given to Off twice.
SubscribedAgrees ==
  EnableMetrics /\ (\A p \in Clients : At(p, "idle")) =>
    \A t \in Topics :
      (\A s \in Subs : SubTopic[s] = t => offCalls[s] <= 1) =>
        subscribed[t] = Len(subscribers[t])

------------------------------------------------------------------------------
(* What has happened when the bus comes to rest.  Each step uses up a part of  *)
(* a call or moves a message forward, so that it always does.                  *)

\* At rest no active subscription sits on a message: what a pump or a channel
\* still holds belongs to a stopped one, and is handed to no handler any more.
RestHoldsNothing ==
  AtRest => \A s \in Subs :
    inHand[s] # None \/ msgChan[s] # <<>> => closed[s] /\ proc[s] = "gone"

\* At rest, while an active subscription keeps reading, each message published
\* since its Kafka reader began is settled at one of the subscriptions that share
\* the reader, or stuck in one that was stopped.
RestSettlesLog ==
  mq = "kafka" /\ AtRest => \A s \in Subs :
    phase[s] = "open" /\ ~closed[s] /\ pump[s] # "done" /\ Reader(s).open =>
      \A i \in (Reader(s).first + 1)..Len(log[Reader(s).topic]) :
        LET e == log[Reader(s).topic][i] IN
        \E c \in Subs : KeyOf(c) = KeyOf(s) /\
          (task[c][e] \in Outcomes \/ (closed[c] /\ e \in {inHand[c]} \cup Range(msgChan[c])))

\* At rest a RabbitMQ consumer leaves messages in its queue only because of one
\* that it was given and never acknowledged: one failure holds up all the rest.
RestStallsOnFailure ==
  mq = "rabbit" /\ AtRest => \A s \in Subs :
    channel[s] = "open" /\ queue[KeyOf(s)] # <<>> =>
      unacked[s] # None /\
        (task[s][unacked[s]] \in Outcomes \ {"handled"}
           \/ ~SubConfig(s).AutoCommit)

\* At rest, once Close has closed the connections, no processMessages and no pump
\* of a subscription it owed a stop is left, but a Kafka pump stuck on a channel
\* that was full when its reader left.
RestAfterClose ==
  AtRest /\ poolClosed /\ (\A k \in Keys : ~ReaderOpen(k)) => \A s \in openAtClose :
    /\ proc[s] = "gone"
    /\ pump[s] = "done" \/ (mq = "kafka" /\ Len(msgChan[s]) = ChannelBuffer)

------------------------------------------------------------------------------
(* What the bus implements *)

BusState(s) ==
  IF proc[s] = "none" THEN "fresh" ELSE IF ~closed[s] THEN "open"
  ELSE IF held[s] # None THEN "stopping" ELSE "stopped"
BusFate(s, e) ==
  CASE task[s][e] = "none" -> "none"
    [] task[s][e] = "handling" -> "running"
    [] OTHER -> "over"

Bus == INSTANCE EventBus WITH
         StopWaits <- FALSE,
         emitted <- {e \in Events : stage[e] # "new"},
         state <- [s \in Subs |-> BusState(s)],
         fate <- [s \in Subs |-> [e \in Events |-> BusFate(s, e)]]

\* While no two names of readers clash, and the exchange routes by equal keys, the
\* distributed bus is an event bus whose Off does not wait: after it at most the one
\* message in hand is still handled.
ImplementsEventBus == Bus!Spec

------------------------------------------------------------------------------
(* Statements of the documentation that the code does not keep *)

\* A subscription is given only the events of its topic.
TopicIsolation ==
  \A s \in Subs, e \in Events : task[s][e] # "none" => SubTopic[s] = EventTopic[e]

==============================================================================
