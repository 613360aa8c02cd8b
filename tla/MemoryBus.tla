------------------------------ MODULE MemoryBus ------------------------------
(***************************************************************************)
(* The in-memory event bus: memoryEventBus (memory.go), its subscriptions  *)
(* and subscriber manager (memory_subscription.go), its history and        *)
(* metrics (memory_components.go), running on a pool of goroutines.        *)
(*                                                                         *)
(* A caller is a client goroutine or a worker inside a handler that calls  *)
(* the bus again.  Each caller has a program counter that names the next   *)
(* atomic step of the call it is in: one step per mutex section, atomic    *)
(* operation, channel operation or pool operation.  A call that is refused *)
(* at once (bus closed, invalid arguments, losing Close's swap) changes    *)
(* nothing and is not a step.                                              *)
(***************************************************************************)
EXTENDS Integers, Sequences, FiniteSets, Functions, History

CONSTANTS
  Clients,          \* goroutines outside the bus that call it
  Subs,             \* subscriptions, one per On call
  Events,           \* events, one per Emit call
  Topics,
  SubTopic,         \* the topic each On call passes
  EventTopic,       \* the topic each event carries
  Concurrency,      \* SubscribeConfig.Concurrency
  BufferSize,       \* SubscribeConfig.BufferSize of each On call
  MaxRetries,       \* RetryPolicy.MaxRetries of each On call
  PoolSize,         \* PoolConfig.Size
  EnableHistory, MaxHistorySize, EnableMetrics,   \* MemoryConfig
  ClientCalls,      \* the calls clients make
  HandlerCalls,     \* the calls handlers make from inside the bus
  HandlersPanic,    \* whether handlers may panic
  MaxOffCalls,      \* bound: Off calls on one subscription
  None

Calls == {"Emit", "On", "Off", "Close"}
\* <<s, i>> is the i-th processEvents goroutine of subscription s.
Workers == Subs \X (1..Concurrency)
Callers == Clients \cup Workers

ASSUME BusAssumption ==
  /\ IsFiniteSet(Subs) /\ IsFiniteSet(Events)
  /\ SubTopic \in [Subs -> Topics] /\ EventTopic \in [Events -> Topics]
  /\ Concurrency \in Nat
  /\ BufferSize \in [Subs -> Nat] /\ MaxRetries \in [Subs -> Int]
  /\ PoolSize \in Nat \ {0} /\ MaxHistorySize \in Nat \ {0}
  /\ EnableHistory \in BOOLEAN /\ EnableMetrics \in BOOLEAN
  /\ HandlersPanic \in BOOLEAN /\ MaxOffCalls \in Nat
  /\ ClientCalls \subseteq Calls /\ HandlerCalls \subseteq Calls
  /\ Clients \cap Workers = {}
  /\ None \notin Subs \cup Events \cup Callers

VARIABLES
  \* the bus
  closer,       \* the caller whose Close won the swap; closed == closer # None
  poolClosed,   \* pool.Release has run
  wait,         \* what the pool has each caller do that needs a goroutine
  subscribers,  \* subscriberManager: the registered subscriptions by topic
  closing,      \* Close's list of subscriptions it has yet to stop
  \* the subscriptions
  phase,        \* how far On has come with this subscription
  active, stopCh, chClosed, eventCh, wg,
  launched,     \* loop counter of start
  offCalls,     \* Off calls made so far
  \* the callers: program counter and the call's subscription or event
  pc, sub, ev,
  \* the workers: program counter, event in hand, retry counter
  wpc, wev, attempt,
  \* the Emit call and the delivery task of each event
  stage, todo, target, hits,
  \* history and metrics
  history, emitted, delivered, subscribed,
  \* auxiliary: what became of each event at each subscription, and the
  \* subscriptions whose On had returned when Close began
  fate, openAtClose

busVars == <<closer, poolClosed, wait, subscribers, closing, openAtClose>>
subVars == <<phase, active, stopCh, chClosed, wg, launched, offCalls>>
callVars == <<pc, sub, ev>>
workVars == <<wpc, wev, attempt>>
taskVars == <<stage, todo, target, hits>>
obsVars == <<history, emitted, delivered, subscribed>>
vars == <<busVars, subVars, eventCh, callVars, workVars, taskVars, obsVars, fate>>

Init ==
  /\ closer = None /\ poolClosed = FALSE
  /\ wait = [p \in Callers |-> "no"]
  /\ subscribers = [t \in Topics |-> <<>>]
  /\ closing = {} /\ openAtClose = {}
  /\ phase = [s \in Subs |-> "fresh"]
  /\ active = [s \in Subs |-> FALSE]
  /\ stopCh = [s \in Subs |-> FALSE]
  /\ chClosed = [s \in Subs |-> FALSE]
  /\ eventCh = [s \in Subs |-> <<>>]
  /\ wg = [s \in Subs |-> 0]
  /\ launched = [s \in Subs |-> 0]
  /\ offCalls = [s \in Subs |-> 0]
  /\ pc = [p \in Callers |-> "idle"]
  /\ sub = [p \in Callers |-> None]
  /\ ev = [p \in Callers |-> None]
  /\ wpc = [w \in Workers |-> "unstarted"]
  /\ wev = [w \in Workers |-> None]
  /\ attempt = [w \in Workers |-> 0]
  /\ stage = [e \in Events |-> "new"]
  /\ todo = [e \in Events |-> <<>>]
  /\ target = [e \in Events |-> None]
  /\ hits = [e \in Events |-> 0]
  /\ history = <<>>
  /\ emitted = [t \in Topics |-> 0]
  /\ delivered = [t \in Topics |-> 0]
  /\ subscribed = [t \in Topics |-> 0]
  /\ fate = [s \in Subs |-> [e \in Events |-> "none"]]

------------------------------------------------------------------------------
(* Helpers *)

Closed == closer # None
Goto(p, label) == pc' = [pc EXCEPT ![p] = label]
At(p, label) == pc[p] = label

\* p may begin a call: it is in none, and a worker calls only from its handler.
MayCall(p, call) ==
  /\ At(p, "idle") /\ ~Closed
  /\ \/ p \in Clients /\ call \in ClientCalls
     \/ p \in Workers /\ call \in HandlerCalls /\ wpc[p] = "handle"

LivePC == {"select", "handle", "backoff"}
Live(s) == {w \in Workers : w[1] = s /\ wpc[w] \in LivePC}

\* Goroutines of the pool that are busy: workers and delivery tasks.
Running == Cardinality({w \in Workers : wpc[w] \in LivePC})
             + Cardinality({e \in Events : stage[e] = "delivering"})

\* What Submit does after its check of the closed flag: it takes a goroutine, or
\* sleeps until it is woken, and a caller woken on a released pool gets an error.
Granted(p) == Running < PoolSize /\ (wait[p] = "no" \/ (wait[p] = "woken" /\ ~poolClosed))
Refused(p) == wait[p] = "woken" /\ poolClosed
Served(p) == wait' = [wait EXCEPT ![p] = "no"]

Asleep == {p \in Callers : wait[p] = "asleep"}
Wake(woken) == wait' = [p \in Callers |-> IF p \in woken THEN "woken" ELSE wait[p]]

\* A goroutine that is done with its task wakes one sleeper, and on a released pool
\* at least one: its broadcast is not repeated for those that come after it, and a
\* task that panics makes none.
Freed ==
  \E woken \in SUBSET Asleep :
    /\ Asleep # {} => woken # {}
    /\ ~poolClosed => Cardinality(woken) <= 1
    /\ Wake(woken)

\* Mutant of Without: the slice bound keeps the entry it should cut out.
WithoutMutant(subs, s) ==
  IF \E i \in DOMAIN subs : subs[i] = s
  THEN LET i == CHOOSE i \in DOMAIN subs : subs[i] = s
       IN  SubSeq(subs, 1, i) \o SubSeq(subs, i + 1, Len(subs))
  ELSE subs

\* subscriberManager.remove: the entry with the subscription's id is cut out.
Without(subs, s) ==
  IF \E i \in DOMAIN subs : subs[i] = s
  THEN LET i == CHOOSE i \in DOMAIN subs : subs[i] = s
       IN  SubSeq(subs, 1, i - 1) \o SubSeq(subs, i + 1, Len(subs))
  ELSE subs

Settle(s, e, f) == fate' = [fate EXCEPT ![s][e] = f]

------------------------------------------------------------------------------
(* Emit *)

EmitBegin(p, e) ==
  /\ MayCall(p, "Emit") /\ stage[e] = "new"
  /\ stage' = [stage EXCEPT ![e] = "emitting"]
  /\ ev' = [ev EXCEPT ![p] = e]
  /\ Goto(p, "emit.record")
  /\ UNCHANGED <<busVars, subVars, eventCh, sub, workVars, todo, target, hits,
                 obsVars, fate>>

EmitRecord(p) ==
  /\ At(p, "emit.record")
  /\ history' = IF EnableHistory THEN HistoryAdd(history, MaxHistorySize, ev[p])
                                 ELSE history
  /\ Goto(p, "emit.count")
  /\ UNCHANGED <<busVars, subVars, eventCh, sub, ev, workVars, taskVars,
                 emitted, delivered, subscribed, fate>>

EmitCount(p) ==
  /\ At(p, "emit.count")
  /\ emitted' = IF EnableMetrics THEN [emitted EXCEPT ![EventTopic[ev[p]]] = @ + 1]
                                 ELSE emitted
  /\ Goto(p, "emit.lookup")
  /\ UNCHANGED <<busVars, subVars, eventCh, sub, ev, workVars, taskVars,
                 history, delivered, subscribed, fate>>

\* Mutant of EmitLookup: every subscriber is taken for one of the event's topic.
EmitLookupMutant(p) ==
  LET e == ev[p]
      subs == CHOOSE q \in {subscribers[t] : t \in Topics} : q # <<>>
                \/ \A t \in Topics : subscribers[t] = <<>>
  IN  /\ At(p, "emit.lookup")
      /\ todo' = [todo EXCEPT ![e] = subs]
      /\ stage' = IF subs = <<>> THEN [stage EXCEPT ![e] = "done"] ELSE stage
      /\ Goto(p, IF subs = <<>> THEN "idle" ELSE "emit.submit")
      /\ UNCHANGED <<busVars, subVars, eventCh, sub, ev, workVars, target, hits,
                     obsVars, fate>>

\* getSubscribers copies the topic's list; without subscribers Emit returns.
EmitLookup(p) ==
  LET e == ev[p]
      subs == subscribers[EventTopic[e]]
  IN  /\ At(p, "emit.lookup")
      /\ todo' = [todo EXCEPT ![e] = subs]
      /\ stage' = IF subs = <<>> THEN [stage EXCEPT ![e] = "done"] ELSE stage
      /\ Goto(p, IF subs = <<>> THEN "idle" ELSE "emit.submit")
      /\ UNCHANGED <<busVars, subVars, eventCh, sub, ev, workVars, target, hits,
                     obsVars, fate>>

\* pool.Submit first looks whether the pool is released ...
EmitSubmit(p) ==
  /\ At(p, "emit.submit")
  /\ IF poolClosed
     THEN stage' = [stage EXCEPT ![ev[p]] = "rejected"] /\ Goto(p, "idle")
     ELSE UNCHANGED stage /\ Goto(p, "emit.acquire")
  /\ UNCHANGED <<busVars, subVars, eventCh, sub, ev, workVars, todo, target, hits,
                 obsVars, fate>>

\* ... and then takes a goroutine, for which it may have to wait.
EmitAcquire(p) ==
  /\ At(p, "emit.acquire")
  /\ \/ Granted(p) /\ stage' = [stage EXCEPT ![ev[p]] = "delivering"]
     \/ Refused(p) /\ stage' = [stage EXCEPT ![ev[p]] = "rejected"]
  /\ Served(p)
  /\ Goto(p, "idle")
  /\ UNCHANGED <<closer, poolClosed, subscribers, closing, openAtClose, subVars,
                 eventCh, sub, ev, workVars, todo, target, hits, obsVars, fate>>

\* The caller falls asleep in Submit: the pool is full, or it has been released
\* since the check and the idle goroutines that Release ends still count.
PoolSleep(p) ==
  /\ pc[p] \in {"emit.acquire", "on.acquire"}
  /\ \/ wait[p] # "asleep" /\ ~poolClosed /\ Running >= PoolSize
     \/ wait[p] = "no" /\ poolClosed
  /\ wait' = [wait EXCEPT ![p] = "asleep"]
  /\ UNCHANGED <<closer, poolClosed, subscribers, closing, openAtClose, subVars,
                 eventCh, callVars, workVars, taskVars, obsVars, fate>>

\* An idle goroutine that Release ends wakes a caller.
PoolWakes(p) ==
  /\ poolClosed /\ wait[p] = "asleep"
  /\ Wake({p})
  /\ UNCHANGED <<closer, poolClosed, subscribers, closing, openAtClose, subVars,
                 eventCh, callVars, workVars, taskVars, obsVars, fate>>

EmitNext(p) == EmitRecord(p) \/ EmitCount(p) \/ EmitLookup(p)
                 \/ EmitSubmit(p) \/ EmitAcquire(p)

------------------------------------------------------------------------------
(* On *)

\* newMemorySubscription; start's loop is next.
OnBegin(p, s) ==
  /\ MayCall(p, "On") /\ phase[s] = "fresh"
  /\ phase' = [phase EXCEPT ![s] = "starting"]
  /\ active' = [active EXCEPT ![s] = TRUE]
  /\ sub' = [sub EXCEPT ![p] = s]
  /\ Goto(p, "on.submit")
  /\ UNCHANGED <<busVars, stopCh, chClosed, wg, launched, offCalls, eventCh, ev,
                 workVars, taskVars, obsVars, fate>>

\* Mutant of OnSubmit: the loop of start runs once too often.
OnSubmitMutant(p) ==
  LET s == sub[p]
  IN  /\ At(p, "on.submit")
      /\ \/ launched[s] > Concurrency /\ Goto(p, "on.add") /\ UNCHANGED <<wg, launched>>
         \/ /\ launched[s] <= Concurrency
            /\ wg' = [wg EXCEPT ![s] = @ + 1]
            /\ Goto(p, "on.acquire")
            /\ UNCHANGED launched
      /\ UNCHANGED <<busVars, phase, active, stopCh, chClosed, offCalls, eventCh,
                     sub, ev, workVars, taskVars, obsVars, fate>>

\* One turn of start's loop up to Submit's check of the pool: wg.Add(1), undone
\* by wg.Done() at once when the pool is released.
OnSubmit(p) ==
  LET s == sub[p]
  IN  /\ At(p, "on.submit")
      /\ \/ launched[s] = Concurrency /\ Goto(p, "on.add") /\ UNCHANGED <<wg, launched>>
         \/ /\ launched[s] < Concurrency /\ ~poolClosed
            /\ wg' = [wg EXCEPT ![s] = @ + 1]
            /\ Goto(p, "on.acquire")
            /\ UNCHANGED launched
         \/ /\ launched[s] < Concurrency /\ poolClosed
            /\ launched' = [launched EXCEPT ![s] = @ + 1]
            /\ UNCHANGED <<wg, pc>>
      /\ UNCHANGED <<busVars, phase, active, stopCh, chClosed, offCalls, eventCh,
                     sub, ev, workVars, taskVars, obsVars, fate>>

\* Mutant of OnAcquire: the error path forgets wg.Done().
OnAcquireMutant(p) ==
  LET s == sub[p]
      n == launched[s] + 1
  IN  /\ At(p, "on.acquire")
      /\ \/ Granted(p) /\ wpc' = [wpc EXCEPT ![<<s, n>>] = "select"]
         \/ Refused(p) /\ UNCHANGED wpc
      /\ Served(p)
      /\ launched' = [launched EXCEPT ![s] = n]
      /\ Goto(p, "on.submit")
      /\ UNCHANGED <<closer, poolClosed, subscribers, closing, openAtClose, phase,
                     active, stopCh, chClosed, offCalls, eventCh, wg, sub, ev, wev,
                     attempt, taskVars, obsVars, fate>>

\* The pool starts processEvents, or Submit fails and the loop goes on without
\* that worker.
OnAcquire(p) ==
  LET s == sub[p]
      n == launched[s] + 1
  IN  /\ At(p, "on.acquire")
      /\ \/ /\ Granted(p)
            /\ wpc' = [wpc EXCEPT ![<<s, n>>] = "select"]
            /\ UNCHANGED wg
         \/ /\ Refused(p)
            /\ wg' = [wg EXCEPT ![s] = @ - 1]
            /\ UNCHANGED wpc
      /\ Served(p)
      /\ launched' = [launched EXCEPT ![s] = n]
      /\ Goto(p, "on.submit")
      /\ UNCHANGED <<closer, poolClosed, subscribers, closing, openAtClose, phase,
                     active, stopCh, chClosed, offCalls, eventCh, sub, ev, wev,
                     attempt, taskVars, obsVars, fate>>

\* Mutant of OnAdd: the subscription is registered twice.
OnAddMutant(p) ==
  LET s == sub[p]
  IN  /\ At(p, "on.add")
      /\ subscribers' = [subscribers EXCEPT ![SubTopic[s]] = Append(Append(@, s), s)]
      /\ phase' = [phase EXCEPT ![s] = "added"]
      /\ Goto(p, "on.count")
      /\ UNCHANGED <<closer, poolClosed, wait, closing, openAtClose, active,
                     stopCh, chClosed, wg, launched, offCalls, eventCh, sub, ev, workVars,
                     taskVars, obsVars, fate>>

OnAdd(p) ==
  LET s == sub[p]
  IN  /\ At(p, "on.add")
      /\ subscribers' = [subscribers EXCEPT ![SubTopic[s]] = Append(@, s)]
      /\ phase' = [phase EXCEPT ![s] = "added"]
      /\ Goto(p, "on.count")
      /\ UNCHANGED <<closer, poolClosed, wait, closing, openAtClose, active,
                     stopCh, chClosed, wg, launched, offCalls, eventCh, sub, ev, workVars,
                     taskVars, obsVars, fate>>

\* Count the subscription and return its handle.
OnCount(p) ==
  LET s == sub[p]
  IN  /\ At(p, "on.count")
      /\ subscribed' = IF EnableMetrics THEN [subscribed EXCEPT ![SubTopic[s]] = @ + 1]
                                        ELSE subscribed
      /\ phase' = [phase EXCEPT ![s] = "open"]
      /\ Goto(p, "idle")
      /\ UNCHANGED <<busVars, active, stopCh, chClosed, wg, launched, offCalls,
                     eventCh, sub, ev, workVars, taskVars, history, emitted,
                     delivered, fate>>

OnNext(p) == OnSubmit(p) \/ OnAcquire(p) \/ OnAdd(p) \/ OnCount(p)

------------------------------------------------------------------------------
(* Off, Close, and the stop of a subscription that both call *)

\* Any caller may hold a handle that On has returned, and use it more than once.
OffBegin(p, s) ==
  /\ MayCall(p, "Off") /\ phase[s] = "open" /\ offCalls[s] < MaxOffCalls
  /\ offCalls' = [offCalls EXCEPT ![s] = @ + 1]
  /\ sub' = [sub EXCEPT ![p] = s]
  /\ Goto(p, "stop.cas")
  /\ UNCHANGED <<busVars, phase, active, stopCh, chClosed, wg, launched, eventCh,
                 ev, workVars, taskVars, obsVars, fate>>

AfterStop(p) == IF p = closer THEN "close.next" ELSE "off.remove"

\* Mutant of StopCas: a store in place of the compare-and-swap.
StopCasMutant(p) ==
  LET s == sub[p]
  IN  /\ At(p, "stop.cas")
      /\ active' = [active EXCEPT ![s] = FALSE]
      /\ Goto(p, "stop.signal")
      /\ UNCHANGED <<busVars, phase, stopCh, chClosed, wg, launched, offCalls,
                     eventCh, sub, ev, workVars, taskVars, obsVars, fate>>

\* The loser of the swap returns from stop without waiting for the winner.
StopCas(p) ==
  LET s == sub[p]
  IN  /\ At(p, "stop.cas")
      /\ active' = [active EXCEPT ![s] = FALSE]
      /\ Goto(p, IF active[s] THEN "stop.signal" ELSE AfterStop(p))
      /\ UNCHANGED <<busVars, phase, stopCh, chClosed, wg, launched, offCalls,
                     eventCh, sub, ev, workVars, taskVars, obsVars, fate>>

StopSignal(p) ==
  /\ At(p, "stop.signal")
  /\ stopCh' = [stopCh EXCEPT ![sub[p]] = TRUE]
  /\ Goto(p, "stop.wait")
  /\ UNCHANGED <<busVars, phase, active, chClosed, wg, launched, offCalls, eventCh,
                 sub, ev, workVars, taskVars, obsVars, fate>>

\* Mutant of StopWait: eventCh is closed without waiting for the workers.
StopWaitMutant(p) ==
  /\ At(p, "stop.wait")
  /\ chClosed' = [chClosed EXCEPT ![sub[p]] = TRUE]
  /\ Goto(p, AfterStop(p))
  /\ UNCHANGED <<busVars, phase, active, stopCh, wg, launched, offCalls, eventCh,
                 sub, ev, workVars, taskVars, obsVars, fate>>

\* wg.Wait returns and eventCh is closed; what is still buffered stays there.
StopWait(p) ==
  /\ At(p, "stop.wait") /\ wg[sub[p]] = 0
  /\ chClosed' = [chClosed EXCEPT ![sub[p]] = TRUE]
  /\ Goto(p, AfterStop(p))
  /\ UNCHANGED <<busVars, phase, active, stopCh, wg, launched, offCalls, eventCh,
                 sub, ev, workVars, taskVars, obsVars, fate>>

OffRemove(p) ==
  LET s == sub[p]
  IN  /\ At(p, "off.remove")
      /\ subscribers' = [subscribers EXCEPT ![SubTopic[s]] = Without(@, s)]
      /\ Goto(p, "off.count")
      /\ UNCHANGED <<closer, poolClosed, wait, closing, openAtClose, subVars,
                     eventCh, sub, ev, workVars, taskVars, obsVars, fate>>

\* Mutant of OffCount: the last subscription of a topic is not counted off.
OffCountMutant(p) ==
  LET t == SubTopic[sub[p]]
  IN  /\ At(p, "off.count")
      /\ subscribed' = IF EnableMetrics /\ subscribed[t] > 1
                       THEN [subscribed EXCEPT ![t] = @ - 1] ELSE subscribed
      /\ Goto(p, "idle")
      /\ UNCHANGED <<busVars, subVars, eventCh, sub, ev, workVars, taskVars,
                     history, emitted, delivered, fate>>

OffCount(p) ==
  LET t == SubTopic[sub[p]]
  IN  /\ At(p, "off.count")
      /\ subscribed' = IF EnableMetrics /\ subscribed[t] > 0
                       THEN [subscribed EXCEPT ![t] = @ - 1] ELSE subscribed
      /\ Goto(p, "idle")
      /\ UNCHANGED <<busVars, subVars, eventCh, sub, ev, workVars, taskVars,
                     history, emitted, delivered, fate>>

CloseBegin(p) ==
  /\ MayCall(p, "Close")
  /\ closer' = p
  /\ openAtClose' = {s \in Subs : phase[s] = "open"}
  /\ Goto(p, "close.collect")
  /\ UNCHANGED <<poolClosed, wait, subscribers, closing, subVars, eventCh, sub,
                 ev, workVars, taskVars, obsVars, fate>>

\* getAllSubscribers; the map gives the topics in any order.
CloseCollect(p) ==
  /\ At(p, "close.collect")
  /\ closing' = UNION {Range(subscribers[t]) : t \in Topics}
  /\ Goto(p, "close.next")
  /\ UNCHANGED <<closer, poolClosed, wait, subscribers, openAtClose, subVars,
                 eventCh, sub, ev, workVars, taskVars, obsVars, fate>>

\* Mutant of CloseNext: the loop ends after the first subscription.
CloseNextMutant(p) ==
  /\ At(p, "close.next")
  /\ \/ /\ closing = {} /\ Goto(p, "close.release") /\ UNCHANGED <<closing, sub>>
     \/ \E s \in closing :
          /\ closing' = {}
          /\ sub' = [sub EXCEPT ![p] = s]
          /\ Goto(p, "stop.cas")
  /\ UNCHANGED <<closer, poolClosed, wait, subscribers, openAtClose, subVars,
                 eventCh, ev, workVars, taskVars, obsVars, fate>>

CloseNext(p) ==
  /\ At(p, "close.next")
  /\ \/ /\ closing = {} /\ Goto(p, "close.release") /\ UNCHANGED <<closing, sub>>
     \/ \E s \in closing :
          /\ closing' = closing \ {s}
          /\ sub' = [sub EXCEPT ![p] = s]
          /\ Goto(p, "stop.cas")
  /\ UNCHANGED <<closer, poolClosed, wait, subscribers, openAtClose, subVars,
                 eventCh, ev, workVars, taskVars, obsVars, fate>>

\* Mutant of CloseRelease: the pool is not released.
CloseReleaseMutant(p) ==
  /\ At(p, "close.release")
  /\ Goto(p, "idle")
  /\ UNCHANGED <<busVars, subVars, eventCh, sub, ev, workVars, taskVars, obsVars,
                 fate>>

\* Release wakes, once, all callers that are asleep by then.
CloseRelease(p) ==
  /\ At(p, "close.release")
  /\ poolClosed' = TRUE
  /\ Wake(Asleep)
  /\ Goto(p, "idle")
  /\ UNCHANGED <<closer, subscribers, closing, openAtClose, subVars, eventCh, sub,
                 ev, workVars, taskVars, obsVars, fate>>

StopNext(p) == StopCas(p) \/ StopSignal(p) \/ StopWait(p)
OffNext(p) == OffRemove(p) \/ OffCount(p)
CloseNextStep(p) == CloseCollect(p) \/ CloseNext(p) \/ CloseRelease(p)

------------------------------------------------------------------------------
(* The delivery task of an event: deliverEvent, one subscription at a time *)

\* Mutant of DeliverCheck: an inactive subscription is not skipped.
DeliverCheckMutant(e) ==
  /\ stage[e] = "delivering" /\ target[e] = None /\ todo[e] # <<>>
  /\ LET s == Head(todo[e])
     IN  IF active[s]
         THEN /\ target' = [target EXCEPT ![e] = s]
              /\ todo' = [todo EXCEPT ![e] = Tail(@)]
              /\ UNCHANGED fate
         ELSE Settle(s, e, "refused") /\ UNCHANGED <<target, todo>>
  /\ UNCHANGED <<busVars, subVars, eventCh, callVars, workVars, stage, hits, obsVars>>

\* deliver's IsActive check of the next subscription.
DeliverCheck(e) ==
  /\ stage[e] = "delivering" /\ target[e] = None /\ todo[e] # <<>>
  /\ LET s == Head(todo[e])
     IN  IF active[s] THEN target' = [target EXCEPT ![e] = s] /\ UNCHANGED fate
                      ELSE Settle(s, e, "refused") /\ UNCHANGED target
  /\ todo' = [todo EXCEPT ![e] = Tail(@)]
  /\ UNCHANGED <<busVars, subVars, eventCh, callVars, workVars, stage, hits, obsVars>>

Delivered(e) ==
  /\ target' = [target EXCEPT ![e] = None]
  /\ hits' = [hits EXCEPT ![e] = @ + 1]
  /\ UNCHANGED <<busVars, subVars, callVars, stage, todo, obsVars>>

\* deliver's select.  A ready send may be chosen even when stopCh is closed.
DeliverSend(e) ==
  LET s == target[e]
  IN  /\ s # None /\ ~chClosed[s] /\ Len(eventCh[s]) < BufferSize[s]
      /\ eventCh' = [eventCh EXCEPT ![s] = Append(@, e)]
      /\ Settle(s, e, "queued")
      /\ Delivered(e)
      /\ UNCHANGED workVars

\* A worker takes the event it received: handleEvent's loop begins.  With a
\* negative MaxRetries the loop has no turn and the event is dropped.
Take(w, e) ==
  /\ IF MaxRetries[w[1]] >= 0
     THEN /\ wpc' = [wpc EXCEPT ![w] = "handle"]
          /\ wev' = [wev EXCEPT ![w] = e]
          /\ attempt' = [attempt EXCEPT ![w] = 0]
          /\ Settle(w[1], e, "handling")
     ELSE Settle(w[1], e, "failed") /\ UNCHANGED workVars

\* Without a buffer the send meets a worker parked in its select, or nobody.
DeliverHandoff(e, w) ==
  LET s == target[e]
  IN  /\ s = w[1] /\ BufferSize[s] = 0 /\ ~stopCh[s] /\ wpc[w] = "select"
      /\ Take(w, e)
      /\ Delivered(e)
      /\ UNCHANGED eventCh

\* Mutant of DeliverRefuse: a dropped event is counted as delivered.
DeliverRefuseMutant(e) ==
  LET s == target[e]
  IN  /\ s # None /\ (stopCh[s] \/ Len(eventCh[s]) >= BufferSize[s])
      /\ target' = [target EXCEPT ![e] = None]
      /\ hits' = [hits EXCEPT ![e] = @ + 1]
      /\ Settle(s, e, "refused")
      /\ UNCHANGED <<busVars, subVars, eventCh, callVars, workVars, stage, todo,
                     obsVars>>

\* The stopped or the full case.
DeliverRefuse(e) ==
  LET s == target[e]
  IN  /\ s # None /\ (stopCh[s] \/ Len(eventCh[s]) >= BufferSize[s])
      /\ target' = [target EXCEPT ![e] = None]
      /\ Settle(s, e, "refused")
      /\ UNCHANGED <<busVars, subVars, eventCh, callVars, workVars, stage, todo,
                     hits, obsVars>>

\* The send case is chosen on a channel that stop has closed since the check:
\* the task panics, the pool recovers, and the rest of the list is not served.
DeliverPanic(e) ==
  /\ target[e] # None /\ chClosed[target[e]]
  /\ target' = [target EXCEPT ![e] = None]
  /\ stage' = [stage EXCEPT ![e] = "aborted"]
  /\ Freed
  /\ UNCHANGED <<closer, poolClosed, subscribers, closing, openAtClose, subVars,
                 eventCh, callVars, workVars, todo, hits, obsVars, fate>>

DeliverDone(e) ==
  /\ stage[e] = "delivering" /\ target[e] = None /\ todo[e] = <<>>
  /\ delivered' = IF EnableMetrics
                  THEN [delivered EXCEPT ![EventTopic[e]] = @ + hits[e]] ELSE delivered
  /\ stage' = [stage EXCEPT ![e] = "done"]
  /\ Freed
  /\ UNCHANGED <<closer, poolClosed, subscribers, closing, openAtClose, subVars,
                 eventCh, callVars, workVars, todo, target, hits, history, emitted,
                 subscribed, fate>>

DeliverNext(e) ==
  \/ DeliverCheck(e) \/ DeliverSend(e) \/ DeliverRefuse(e) \/ DeliverPanic(e)
  \/ DeliverDone(e) \/ \E w \in Workers : DeliverHandoff(e, w)

------------------------------------------------------------------------------
(* The workers: processEvents and handleEvent *)

\* Mutant of WorkerReceive: the event stays in the channel.
WorkerReceiveMutant(w) ==
  LET s == w[1]
  IN  /\ wpc[w] = "select" /\ eventCh[s] # <<>>
      /\ Take(w, Head(eventCh[s]))
      /\ UNCHANGED <<busVars, subVars, eventCh, callVars, taskVars, obsVars>>

WorkerReceive(w) ==
  LET s == w[1]
  IN  /\ wpc[w] = "select" /\ eventCh[s] # <<>>
      /\ eventCh' = [eventCh EXCEPT ![s] = Tail(@)]
      /\ Take(w, Head(eventCh[s]))
      /\ UNCHANGED <<busVars, subVars, callVars, taskVars, obsVars>>

\* Mutant of Exit: wg.Done is not deferred.
ExitMutant(w) ==
  /\ wpc' = [wpc EXCEPT ![w] = "exited"]
  /\ wev' = [wev EXCEPT ![w] = None]
  /\ Freed
  /\ UNCHANGED <<closer, poolClosed, subscribers, closing, openAtClose, phase, active,
                 stopCh, chClosed, launched, offCalls, wg, eventCh, callVars, attempt,
                 taskVars, obsVars>>

Exit(w) ==
  /\ wpc' = [wpc EXCEPT ![w] = "exited"]
  /\ wg' = [wg EXCEPT ![w[1]] = @ - 1]
  /\ wev' = [wev EXCEPT ![w] = None]
  /\ Freed
  /\ UNCHANGED <<closer, poolClosed, subscribers, closing, openAtClose, phase, active,
                 stopCh, chClosed, launched, offCalls, eventCh, callVars, attempt,
                 taskVars, obsVars>>

\* Mutant of WorkerQuit: the select has no stopCh case.
WorkerQuitMutant(w) ==
  /\ wpc[w] = "select" /\ chClosed[w[1]] /\ eventCh[w[1]] = <<>>
  /\ Exit(w)
  /\ UNCHANGED fate

\* stopCh is closed, or eventCh is closed and drained.
WorkerQuit(w) ==
  /\ wpc[w] = "select" /\ (stopCh[w[1]] \/ (chClosed[w[1]] /\ eventCh[w[1]] = <<>>))
  /\ Exit(w)
  /\ UNCHANGED fate

\* handleEvent is over; back to processEvents' select.
Finish(w, f) ==
  /\ wpc' = [wpc EXCEPT ![w] = "select"]
  /\ wev' = [wev EXCEPT ![w] = None]
  /\ Settle(w[1], wev[w], f)
  /\ UNCHANGED attempt

InHandler(w) == wpc[w] = "handle" /\ At(w, "idle")

HandlerSucceeds(w) ==
  /\ InHandler(w)
  /\ Finish(w, "handled")
  /\ UNCHANGED <<busVars, subVars, eventCh, callVars, taskVars, obsVars>>

\* Mutant of HandlerFails: the retry counter does not advance.
HandlerFailsMutant(w) ==
  /\ InHandler(w)
  /\ IF attempt[w] < MaxRetries[w[1]]
     THEN wpc' = [wpc EXCEPT ![w] = "backoff"] /\ UNCHANGED <<wev, attempt, fate>>
     ELSE Finish(w, "failed")
  /\ UNCHANGED <<busVars, subVars, eventCh, callVars, taskVars, obsVars>>

HandlerFails(w) ==
  /\ InHandler(w)
  /\ IF attempt[w] < MaxRetries[w[1]]
     THEN /\ wpc' = [wpc EXCEPT ![w] = "backoff"]
          /\ attempt' = [attempt EXCEPT ![w] = @ + 1]
          /\ UNCHANGED <<wev, fate>>
     ELSE Finish(w, "failed")
  /\ UNCHANGED <<busVars, subVars, eventCh, callVars, taskVars, obsVars>>

\* The deferred wg.Done runs, the pool recovers, the worker is not replaced.
HandlerPanics(w) ==
  /\ HandlersPanic /\ InHandler(w)
  /\ Settle(w[1], wev[w], "panicked")
  /\ Exit(w)

\* Mutant of BackoffElapses: the retried event goes back into the channel as well.
BackoffElapsesMutant(w) ==
  LET s == w[1]
  IN  /\ wpc[w] = "backoff"
      /\ wpc' = [wpc EXCEPT ![w] = "handle"]
      /\ eventCh' = IF Len(eventCh[s]) < BufferSize[s]
                    THEN [eventCh EXCEPT ![s] = Append(@, wev[w])] ELSE eventCh
      /\ UNCHANGED <<busVars, subVars, callVars, wev, attempt, taskVars, obsVars, fate>>

BackoffElapses(w) ==
  /\ wpc[w] = "backoff"
  /\ wpc' = [wpc EXCEPT ![w] = "handle"]
  /\ UNCHANGED <<busVars, subVars, eventCh, callVars, wev, attempt, taskVars,
                 obsVars, fate>>

BackoffStopped(w) ==
  /\ wpc[w] = "backoff" /\ stopCh[w[1]]
  /\ Finish(w, "abandoned")
  /\ UNCHANGED <<busVars, subVars, eventCh, callVars, taskVars, obsVars>>

------------------------------------------------------------------------------
(* The specification *)

CallBegin(p) ==
  \/ \E e \in Events : EmitBegin(p, e)
  \/ \E s \in Subs : OnBegin(p, s) \/ OffBegin(p, s)
  \/ CloseBegin(p)

CallStep(p) == EmitNext(p) \/ OnNext(p) \/ StopNext(p) \/ OffNext(p) \/ CloseNextStep(p)
                 \/ PoolSleep(p)

LoopStep(w) == WorkerReceive(w) \/ WorkerQuit(w) \/ BackoffElapses(w) \/ BackoffStopped(w)
HandlerStep(w) == HandlerSucceeds(w) \/ HandlerFails(w)

\* Nothing is under way: no call, no delivery, no event queued or in hand.
AtRest ==
  /\ \A p \in Callers : At(p, "idle")
  /\ \A e \in Events : stage[e] \notin {"emitting", "delivering"}
  /\ \A w \in Workers : \/ wpc[w] \in {"unstarted", "exited"}
                        \/ wpc[w] = "select" /\ ~stopCh[w[1]] /\ eventCh[w[1]] = <<>>
Rest == AtRest /\ UNCHANGED vars

Next ==
  \/ \E p \in Callers : CallBegin(p) \/ CallStep(p) \/ PoolWakes(p)
  \/ \E e \in Events : DeliverNext(e)
  \/ \E w \in Workers : LoopStep(w) \/ HandlerStep(w) \/ HandlerPanics(w)
  \/ Rest

Spec == Init /\ [][Next]_vars

\* Goroutines are scheduled, timers fire and handlers return; nobody has to call.
\* A caller asleep in the pool has no step of its own, and nobody has to wake it.
Fairness ==
  /\ \A p \in Callers : WF_vars(CallStep(p))
  /\ \A e \in Events : WF_vars(DeliverNext(e))
  /\ \A w \in Workers : WF_vars(LoopStep(w)) /\ WF_vars(HandlerStep(w))
FairSpec == Spec /\ Fairness

------------------------------------------------------------------------------
(* Type correctness *)

EmitPC == {"emit.record", "emit.count", "emit.lookup", "emit.submit", "emit.acquire"}
StartPC == {"on.submit", "on.acquire", "on.add"}
OnPC == StartPC \cup {"on.count"}
StopPC == {"stop.cas", "stop.signal", "stop.wait"}
OffPC == {"off.remove", "off.count"}
ClosePC == {"close.collect", "close.next", "close.release"}
Accepted == {"queued", "handling", "handled", "failed", "abandoned", "panicked"}
Terminal == {"refused", "handled", "failed", "abandoned", "panicked"}

BusTypes ==
  /\ closer \in Callers \cup {None} /\ poolClosed \in BOOLEAN
  /\ wait \in [Callers -> {"no", "asleep", "woken"}]
  /\ subscribers \in [Topics -> Seq(Subs)]
  /\ closing \subseteq Subs /\ openAtClose \subseteq Subs
SubTypes ==
  /\ phase \in [Subs -> {"fresh", "starting", "added", "open"}]
  /\ active \in [Subs -> BOOLEAN] /\ stopCh \in [Subs -> BOOLEAN]
  /\ chClosed \in [Subs -> BOOLEAN] /\ eventCh \in [Subs -> Seq(Events)]
  /\ wg \in [Subs -> Int] /\ launched \in [Subs -> 0..Concurrency]
  /\ offCalls \in [Subs -> 0..MaxOffCalls]
CallTypes ==
  /\ pc \in [Callers -> {"idle"} \cup EmitPC \cup OnPC \cup StopPC \cup OffPC \cup ClosePC]
  /\ sub \in [Callers -> Subs \cup {None}] /\ ev \in [Callers -> Events \cup {None}]
  /\ \A p \in Callers : /\ pc[p] \in EmitPC => ev[p] \in Events
                        /\ pc[p] \in OnPC \cup StopPC \cup OffPC => sub[p] \in Subs
WorkTypes ==
  /\ wpc \in [Workers -> LivePC \cup {"unstarted", "exited"}]
  /\ wev \in [Workers -> Events \cup {None}] /\ attempt \in [Workers -> Nat]
  /\ \A w \in Workers : wpc[w] \in {"handle", "backoff"} => wev[w] \in Events
TaskTypes ==
  /\ stage \in [Events -> {"new", "emitting", "delivering", "done", "rejected", "aborted"}]
  /\ todo \in [Events -> Seq(Subs)] /\ target \in [Events -> Subs \cup {None}]
  /\ hits \in [Events -> Nat]
ObsTypes ==
  /\ history \in Seq(Events) /\ emitted \in [Topics -> Nat]
  /\ delivered \in [Topics -> Nat] /\ subscribed \in [Topics -> Nat]
  /\ fate \in [Subs -> [Events -> {"none"} \cup Accepted \cup Terminal]]

\* Every variable has the type its declaration in the code gives it, a call that
\* works on a subscription or an event holds one, and start is handing a worker
\* to the pool only while it has one left to launch.
TypeOK ==
  /\ BusTypes /\ SubTypes /\ CallTypes /\ WorkTypes /\ TaskTypes /\ ObsTypes
  /\ \A p \in Callers : At(p, "on.acquire") => launched[sub[p]] < Concurrency

------------------------------------------------------------------------------
(* Safety *)

Stopping(p, s) == sub[p] = s /\ pc[p] \in {"stop.signal", "stop.wait"}
Registered(s) == s \in Range(subscribers[SubTopic[s]])

\* Of all the Off and Close calls that reach a subscription one stops it: only
\* one is ever between the swap and the close of eventCh, and neither stopCh nor
\* eventCh can be closed a second time, which would panic the caller.
StopExclusive ==
  \A s \in Subs, p \in Callers : Stopping(p, s) =>
    /\ ~active[s] /\ ~chClosed[s]
    /\ pc[p] = "stop.signal" => ~stopCh[s]
    /\ \A q \in Callers : Stopping(q, s) => q = p

\* Once stop has closed eventCh the subscription is quiet for good: it is
\* inactive and signalled, none of its workers runs, and start launches no more.
Quiesced ==
  \A s \in Subs : chClosed[s] =>
    /\ ~active[s] /\ stopCh[s]
    /\ Live(s) = {}
    /\ launched[s] = Concurrency

\* The WaitGroup of a subscription counts its running workers and the one that
\* start is handing to the pool, whichever way workers and submissions end.
WorkerAccounting ==
  \A s \in Subs :
    wg[s] = Cardinality(Live(s))
              + Cardinality({p \in Callers : At(p, "on.acquire") /\ sub[p] = s})

\* The subscriber manager and the subscriptions agree: one whose On returned and
\* that is active is registered, and a registered one that is not active is being
\* taken off by a call, or the bus is closed.
RegistryTracksActive ==
  \A s \in Subs :
    /\ phase[s] = "open" /\ active[s] => Registered(s)
    /\ Registered(s) /\ ~active[s] =>
         Closed \/ \E p \in Callers : sub[p] = s /\ pc[p] \in StopPC \cup OffPC

\* When Close has released the pool, every subscription whose On had returned
\* before Close began is stopped, or an Off that overlaps Close is stopping it.
CloseStopsOpen ==
  poolClosed => \A s \in openAtClose :
    chClosed[s] \/ \E p \in Callers : Stopping(p, s)

\* Between calls the subscribed metric of a topic is the number of subscriptions
\* registered under it, unless a subscription of the topic was given to Off twice.
SubscribedAgrees ==
  EnableMetrics /\ (\A p \in Callers : At(p, "idle")) =>
    \A t \in Topics :
      (\A s \in Subs : SubTopic[s] = t => offCalls[s] <= 1) =>
        subscribed[t] = Len(subscribers[t])

\* An event accepted by a subscription and not settled is in exactly one place:
\* once in its buffer, or in the hands of one worker; any other event is in none.
FateConsistent ==
  \A s \in Subs, e \in Events :
    Cardinality({i \in DOMAIN eventCh[s] : eventCh[s][i] = e})
      + Cardinality({w \in Workers : w[1] = s /\ wev[w] = e})
        = IF fate[s][e] \in {"queued", "handling"} THEN 1 ELSE 0

\* What became of an event at a subscription is final: it is never delivered to
\* the subscription, and its handler never run for it, again.
FateFinal ==
  [][\A s \in Subs, e \in Events :
       fate[s][e] \in Terminal => fate'[s][e] = fate[s][e]]_vars

\* An event reaches only subscriptions of its own topic.
TopicIsolation ==
  \A s \in Subs, e \in Events : fate[s][e] # "none" => SubTopic[s] = EventTopic[e]

\* When an event reaches a subscription it is already counted as emitted, and in
\* the history unless newer ones have pushed it out.
RecordedBeforeDelivered ==
  \A e \in Events : (\E s \in Subs : fate[s][e] # "none") =>
    /\ EnableHistory /\ Len(history) < MaxHistorySize => e \in Range(history)
    /\ EnableMetrics => emitted[EventTopic[e]] > 0

\* The delivered metric counts, for the deliveries that ran to their end, the
\* subscriptions that accepted the event, whatever happened to it afterwards.
DeliveredAgrees ==
  EnableMetrics => \A t \in Topics :
    delivered[t] = Cardinality({d \in Subs \X Events :
                      EventTopic[d[2]] = t /\ stage[d[2]] = "done" /\ fate[d[1]][d[2]] \in Accepted})

------------------------------------------------------------------------------
(* The inductive invariant behind StopExclusive, Quiesced, WorkerAccounting *)

Published == {"added", "open"}

\* Only the On call that creates a subscription starts its workers, it is done
\* with that before others can reach the subscription, and a worker not launched
\* yet has not run.
StartInv ==
  /\ \A p \in Callers :
       /\ pc[p] \in StartPC => phase[sub[p]] = "starting"
       /\ At(p, "on.add") => launched[sub[p]] = Concurrency
       /\ pc[p] \in StopPC \cup {"on.count"} => phase[sub[p]] \in Published
  /\ \A p, q \in Callers :
       pc[p] \in StartPC /\ pc[q] \in StartPC /\ sub[p] = sub[q] => p = q
  /\ \A s \in Subs : phase[s] \in Published => launched[s] = Concurrency
  /\ \A w \in Workers : w[2] > launched[w[1]] => wpc[w] = "unstarted"

\* What the manager lists, and Close has listed, is fully started.
PublishInv ==
  /\ \A t \in Topics : \A s \in Range(subscribers[t]) : phase[s] \in Published
  /\ \A s \in closing : phase[s] \in Published

\* The order of the three steps of stop, as its flags show it.
FlagInv ==
  \A s \in Subs :
    /\ stopCh[s] => ~active[s] /\ phase[s] \in Published
    /\ chClosed[s] => stopCh[s] /\ wg[s] = 0
    /\ \A p \in Callers : sub[p] = s /\ At(p, "stop.wait") => stopCh[s]

\* Together with the properties themselves these facts are inductive.
StopInv == TypeOK /\ StartInv /\ PublishInv /\ FlagInv /\ StopExclusive /\ WorkerAccounting

------------------------------------------------------------------------------
(* The inductive invariant behind FateFinal, TopicIsolation, ImplementsEventBus *)

Hand == {"handle", "backoff"}
Early == {"new", "emitting"}

\* A worker with an event in hand is handling it for its subscription, no other
\* worker of the subscription is, and nothing is handled by nobody.
HandInv ==
  /\ \A w \in Workers : IF wpc[w] \in Hand THEN fate[w[1]][wev[w]] = "handling"
                                           ELSE wev[w] = None
  /\ \A w, v \in Workers :
       wpc[w] \in Hand /\ wpc[v] \in Hand /\ w[1] = v[1] /\ wev[w] = wev[v] => w = v
  /\ \A s \in Subs, e \in Events : fate[s][e] = "handling" =>
       \E w \in Workers : w[1] = s /\ wpc[w] \in Hand /\ wev[w] = e

\* A buffer holds the events that were accepted and not taken, each once.
QueueInv ==
  \A s \in Subs : /\ IsInjective(eventCh[s])
                  /\ \A e \in Events : e \in Range(eventCh[s]) <=> fate[s][e] = "queued"

\* The manager lists a subscription under its own topic, and once.
ListInv ==
  \A t \in Topics : /\ IsInjective(subscribers[t])
                    /\ \A s \in Range(subscribers[t]) : SubTopic[s] = t

\* Event e belongs to the fully started subscription s.
Routed(s, e) == SubTopic[s] = EventTopic[e] /\ phase[s] \in Published

\* An event goes where it belongs; a delivery serves each subscription of its list
\* once, and has not reached those that are still on the list.
RouteInv ==
  \A e \in Events :
    /\ \A s \in Subs : fate[s][e] # "none" => Routed(s, e) /\ stage[e] \notin Early
    /\ IsInjective(todo[e])
    /\ \A s \in Range(todo[e]) : Routed(s, e) /\ fate[s][e] = "none"
    /\ target[e] # None => /\ Routed(target[e], e) /\ fate[target[e]][e] = "none"
                           /\ target[e] \notin Range(todo[e])
                           /\ stage[e] = "delivering"

\* An event is emitted by one call, and a subscription is born inactive.
EmitInv ==
  /\ \A p \in Callers : pc[p] \in EmitPC => stage[ev[p]] = "emitting"
  /\ \A p, q \in Callers : pc[p] \in EmitPC /\ pc[q] \in EmitPC /\ ev[p] = ev[q] => p = q
  /\ \A s \in Subs : phase[s] = "fresh" => ~active[s]

\* Inductive together with StopInv: where every event is, between Emit and its end
\* at each subscription of its topic.
FateInv == HandInv /\ QueueInv /\ ListInv /\ RouteInv /\ EmitInv

------------------------------------------------------------------------------
(* Liveness, under FairSpec *)

\* Every call ends, if the pool has room for all workers and one delivery more
\* and no handler stops a subscription.
CallsReturn == \A p \in Callers : ~At(p, "idle") ~> At(p, "idle")

\* Even when calls are stuck on a full pool, Close ends, and so do they, but for a
\* call that falls asleep in the pool after Release has woken the others.
CloseUnblocks ==
  Closed ~> \A p \in Callers : At(p, "idle") \/ (poolClosed /\ wait[p] = "asleep")

\* An event accepted by a subscription is dealt with, or the subscription is
\* stopped, or a panic has taken its last worker.
AcceptedSettles ==
  \A s \in Subs, e \in Events :
    fate[s][e] \in {"queued", "handling"} ~>
      fate[s][e] \in Terminal \/ ~active[s] \/ Live(s) = {}

\* Every Emit call and every delivery task comes to an end.
DeliveryEnds ==
  \A e \in Events : stage[e] \in {"emitting", "delivering"}
                      ~> stage[e] \in {"done", "rejected", "aborted"}

\* After Close, the workers of every subscription opened before it go away.
CloseDrains == \A s \in Subs : s \in openAtClose ~> Live(s) = {}

------------------------------------------------------------------------------
(* What the bus implements *)

BusState(s) ==
  IF chClosed[s] THEN "stopped" ELSE IF active[s] THEN "open"
  ELSE IF phase[s] = "fresh" THEN "fresh" ELSE "stopping"
BusFate(s, e) ==
  CASE fate[s][e] \in {"none", "queued"} -> "none"
    [] fate[s][e] = "handling" -> "running"
    [] OTHER -> "over"

Bus == INSTANCE EventBus WITH
         StopWaits <- TRUE,
         emitted <- {e \in Events : stage[e] # "new"},
         state <- [s \in Subs |-> BusState(s)],
         fate <- [s \in Subs |-> [e \in Events |-> BusFate(s, e)]]

\* The memory bus is an event bus whose Off waits for the handlers.
ImplementsEventBus == Bus!Spec

------------------------------------------------------------------------------
(* Statements of the documentation that the code does not keep *)

\* A delivery that is over has been offered to every subscription of its list
\* that is still active.
DeliversToAll ==
  \A e \in Events : stage[e] \in {"done", "aborted"} =>
    \A s \in Range(todo[e]) : ~active[s]

\* After Close no subscription is active.
CloseStopsAll == poolClosed => \A s \in Subs : Registered(s) => ~active[s]

==============================================================================
