-------------------------- MODULE DistributedBusProofs --------------------------
(***************************************************************************)
(* The life of a subscription on the distributed bus: one call stops it,   *)
(* the subscriber manager lists it while it is active, Close stops what    *)
(* was open, and the subscribed metric counts the list.  The inductive     *)
(* invariants are LifeInv and, on top of it, MetricInv.                    *)
(***************************************************************************)
EXTENDS DistributedBus, ListProofs

USE DEF At, Goto

\* The types of the constants.
LEMMA Sizes ==
  /\ \A s \in Subs : SubTopic[s] \in Topics /\ SubGroup[s] \in Groups /\ KeyOf(s) \in Keys
  /\ \A e \in Events : EventTopic[e] \in Topics
  /\ None \notin Subs \cup Events \cup Clients
  /\ IsFiniteSet(Subs) /\ MaxOffCalls \in Nat
BY BusAssumption, AdapterAssumption
DEF BusAssumption, AdapterAssumption, Topics, Groups, Keys, KeyOf, Range

\* What is removed from a list without repetition is gone, and nothing else is.
LEMMA WithoutDistinct ==
  ASSUME NEW q \in Seq(Subs), NEW s, IsInjective(q)
  PROVE  /\ Without(q, s) \in Seq(Subs) /\ IsInjective(Without(q, s))
         /\ Range(Without(q, s)) = Range(q) \ {s}
<1>1. CASE \E i \in 1..Len(q) : q[i] = s
  <2> DEFINE I == {i \in 1..Len(q) : q[i] = s}
  <2>1. PICK k \in 1..Len(q) : q[k] = s  BY <1>1
  <2>2. I = {k}  BY <2>1 DEF IsInjective
  <2>3. SelectInSeq(q, LAMBDA v : v = s) = k
    <3>1. SelectInSeq(q, LAMBDA v : v = s) = Min(I)  BY <2>2 DEF SelectInSeq
    <3>2. Min(I) = k  BY <2>2 DEF Min
    <3> QED  BY <3>1, <3>2
  <2>4. Without(q, s) = SubSeq(q, 1, k - 1) \o SubSeq(q, k + 1, Len(q))
    BY <1>1, <2>3 DEF Without, RemoveFirst, RemoveAt
  <2>5. Without(q, s) \in Seq(Subs)  BY <2>4
  <2> QED  BY <2>1, <2>4, <2>5, CutDistinct
<1>2. CASE ~ \E i \in 1..Len(q) : q[i] = s
  BY <1>2 DEF Without, RemoveFirst, Range
<1> QED  BY <1>1, <1>2

------------------------------------------------------------------------------
(* The inductive invariant behind StopExclusive, RegistryTracksActive and      *)
(* CloseStopsOpen                                                              *)

EmitPC == {"emit.publish", "emit.count"}
StartPC == {"on.subscribe", "on.add"}
ClosePC == {"close.collect", "close.next", "close.adapter", "close.release"}
Published == {"added", "open"}
BeingStopped(s) == \E p \in Clients : At(p, "stop.close") /\ sub[p] = s
Leaving(s) == \E p \in Clients : sub[p] = s /\ pc[p] \in StopPC \cup {"off.remove"}

\* A call holds what it works on: On a subscription of its own, that is read from
\* once the adapter has subscribed it, and what is stopped was published by On.
CallInv ==
  /\ \A p \in Clients :
       /\ pc[p] \in StartPC \cup {"on.count"} \cup StopPC \cup OffPC => sub[p] \in Subs
       /\ pc[p] \in EmitPC => ev[p] \in Events
       /\ pc[p] \in StartPC => phase[sub[p]] = "starting"
       /\ At(p, "on.subscribe") => proc[sub[p]] = "none"
       /\ At(p, "on.add") => proc[sub[p]] # "none"
       /\ pc[p] \in StopPC \cup OffPC \cup {"on.count"} => phase[sub[p]] \in Published
       /\ pc[p] \in OffPC => closed[sub[p]]
       /\ At(p, "emit.publish") => stage[ev[p]] = "emitting"
  /\ \A p, q \in Clients :
       /\ pc[p] \in StartPC /\ pc[q] \in StartPC /\ sub[p] = sub[q] => p = q
       /\ At(p, "emit.publish") /\ At(q, "emit.publish") /\ ev[p] = ev[q] => p = q
  /\ \A s \in Subs : /\ phase[s] \in {"fresh", "failed"} => proc[s] = "none"
                     /\ phase[s] \in Published => proc[s] # "none"

\* A subscription is registered under its topic, once, from its On to the stop
\* that begins its end, and whoever wins that stop sees it through.
RegistryInv ==
  /\ \A t \in Topics : /\ IsInjective(subscribers[t])
                       /\ \A s \in Range(subscribers[t]) : SubTopic[s] = t /\ phase[s] \in Published
  /\ \A s \in closing : phase[s] \in Published
  /\ \A s \in Subs :
       /\ stopChan[s] => closed[s]
       /\ closed[s] => phase[s] \in Published /\ (stopChan[s] \/ BeingStopped(s))
       /\ phase[s] \in Published /\ ~closed[s] => Registered(s)
       /\ Registered(s) /\ closed[s] => Closed \/ Leaving(s)

\* A subscription that Close owes a stop is on its list, or about to be, until it
\* is closed.
CloseInv ==
  /\ \A p \in Clients : pc[p] \in ClosePC => p = closer
  /\ poolClosed => Closed /\ At(closer, "idle")
  /\ \A s \in openAtClose : Closed /\ phase[s] = "open"
  /\ Closed => \A s \in openAtClose : ~closed[s] =>
       \/ At(closer, "close.collect")
       \/ pc[closer] \in StopPC \cup {"close.next"} /\ s \in closing
       \/ At(closer, "stop.cas") /\ sub[closer] = s

LifeInv == BusTypes /\ CallInv /\ StopExclusive /\ RegistryInv /\ CloseInv

------------------------------------------------------------------------------
(* The steps *)

\* Labels outside the calls that work on a subscription, and Close.
Outside == {"idle"} \cup EmitPC

\* No subscription, no call on one and no Close is touched; on a closed bus no
\* call begins.
Aside ==
  /\ UNCHANGED <<mq, phase, closed, stopChan, sub, subscribers, closer, poolClosed, closing,
                 openAtClose, offCalls, subscribed>>
  /\ \A p \in Clients : \/ pc'[p] = pc[p]
                        \/ /\ pc[p] \in Outside /\ pc'[p] \in Outside
                           /\ pc[p] = "idle" => ~Closed
  /\ \A s \in Subs : proc'[s] = "none" <=> proc[s] = "none"

\* The steps that are not aside.
LifeStep(p) ==
  \/ \E s \in Subs : OnBegin(p, s) \/ OffBegin(p, s)
  \/ OnSubscribe(p) \/ OnAdd(p) \/ OnCount(p)
  \/ StopCas(p) \/ StopClose(p) \/ OffRemove(p) \/ OffCount(p)
  \/ CloseBegin(p) \/ CloseCollect(p) \/ CloseNext(p) \/ CloseAdapter(p) \/ CloseRelease(p)

EmitStep(p) == (\E e \in Events : EmitBegin(p, e)) \/ EmitPublish(p) \/ EmitCount(p)

\* What goes on between the adapter and the handlers changes no variable of the
\* bus but a program counter, which never goes back to its beginning.
Flow ==
  /\ UNCHANGED <<busVars, subVars, callVars, stage, metricVars, stopChan>>
  /\ proc' \in [Subs -> {"none", "receive", "acquire", "gone"}]
  /\ \A s \in Subs : proc'[s] = "none" <=> proc[s] = "none"

\* Every step but those of calls is one of the flow.
LEMMA KindOfStep ==
  ASSUME BusTypes, Next
  PROVE  Flow \/ \E p \in Clients : EmitStep(p) \/ LifeStep(p)
<1>0. proc \in [Subs -> {"none", "receive", "acquire", "gone"}]  BY DEF BusTypes
<1>1. ASSUME NEW s \in Subs, ProcStep(s) PROVE Flow
  BY <1>0, <1>1 DEF ProcStep, ProcReceive, ProcAcquire, ProcEnds, Flow, chanVars
<1>2. ASSUME NEW s \in Subs, PumpStep(s) PROVE Flow
  <2>1. UNCHANGED <<stopChan, proc>>
    BY <1>2 DEF PumpStep, KafkaPump, RabbitPump, KafkaCheck, KafkaFetch, KafkaFetchFails, KafkaSend,
                RabbitTake, RabbitStop, RabbitDisconnected, RabbitSend, PumpSend, PumpHolds,
                PumpReturns, chanVars
  <2> QED  BY <1>0, <1>2, <2>1 DEF PumpStep, Flow
<1>3. ASSUME NEW s \in Subs, PushStep(s) PROVE Flow
  BY <1>0, <1>3 DEF PushStep, RabbitPush, RabbitDeliver, Flow, chanVars
<1>4. ASSUME NEW s \in Subs, NEW e \in Events, HandlerStep(s, e) PROVE Flow
  BY <1>0, <1>4 DEF HandlerStep, HandlerReturns, HandlerAcks, Ack, Flow, mqVars, chanVars
<1>5. ASSUME Rest PROVE Flow
  BY <1>0, <1>5 DEF Rest, vars, mqVars, chanVars, Flow
<1> QED
  BY <1>1, <1>2, <1>3, <1>4, <1>5 DEF Next, CallBegin, CallStep, EmitStep, LifeStep

\* Emit and the flow are aside.
LEMMA AsideSteps ==
  ASSUME BusTypes, CallInv, Flow \/ \E p \in Clients : EmitStep(p)
  PROVE  Aside
<1>0. pc \in [Clients -> Labels]  BY DEF BusTypes
<1>1. CASE Flow
  BY <1>1 DEF Flow, Aside, busVars, subVars, callVars, metricVars
<1>2. ASSUME NEW p \in Clients, EmitStep(p) PROVE Aside
  <2>1. /\ \E l \in Outside : Goto(p, l)
        /\ pc[p] \in Outside /\ (pc[p] = "idle" => ~Closed)
    BY <1>2 DEF EmitStep, EmitBegin, EmitPublish, EmitCount, MayCall, Outside, EmitPC
  <2>2. UNCHANGED <<busVars, subVars, sub, subscribed, stopChan, proc>>
    BY <1>2 DEF EmitStep, EmitBegin, EmitPublish, EmitCount, Publish, metricVars, mqVars, chanVars
  <2> QED  BY <1>0, <2>1, <2>2 DEF Aside, busVars, subVars
<1> QED  BY <1>1, <1>2

\* Every step keeps the types of the bus.
LEMMA BusTypesStep ==
  ASSUME BusTypes, CallInv, RegistryInv, Next
  PROVE  BusTypes'
<1> USE Sizes DEF BusTypes
<1>1. CASE Flow
  BY <1>1 DEF Flow, busVars, subVars, callVars, metricVars
<1>2. ASSUME NEW p \in Clients, EmitStep(p) PROVE BusTypes'
  <2>1. ASSUME NEW e \in Events, EmitBegin(p, e) PROVE BusTypes'
    BY <2>1 DEF EmitBegin, Labels, busVars, subVars, metricVars, mqVars, chanVars
  <2>2. CASE EmitPublish(p)
    <3>1. UNCHANGED <<stopChan, proc>>
      BY <2>2 DEF EmitPublish, Publish, chanVars
    <3> QED  BY <2>2, <3>1 DEF EmitPublish, Labels, busVars, subVars, metricVars
  <2>3. CASE EmitCount(p)
    <3>1. ev[p] \in Events  BY <2>3 DEF EmitCount, CallInv, EmitPC
    <3> QED  BY <2>3, <3>1 DEF EmitCount, Labels, busVars, subVars, mqVars, chanVars
  <2> QED  BY <1>2, <2>1, <2>2, <2>3 DEF EmitStep
<1>3. ASSUME NEW p \in Clients, LifeStep(p) PROVE BusTypes'
  <2> USE DEF Labels, StopPC, OffPC, busVars, subVars, metricVars, procVars, mqVars, chanVars
  <2>0. pc[p] \in StartPC \cup {"on.count"} \cup StopPC \cup OffPC => sub[p] \in Subs
    BY DEF CallInv
  <2>1. ASSUME NEW s \in Subs, OnBegin(p, s) PROVE BusTypes'
    BY <2>1 DEF OnBegin
  <2>2. ASSUME NEW s \in Subs, OffBegin(p, s) PROVE BusTypes'
    BY <2>2 DEF OffBegin
  <2>3. CASE OnSubscribe(p)
    <3>1. sub[p] \in Subs  BY <2>0, <2>3 DEF OnSubscribe, StartPC
    <3> QED  BY <2>3, <3>1 DEF OnSubscribe
  <2>4. CASE OnAdd(p)
    <3>1. sub[p] \in Subs  BY <2>0, <2>4 DEF OnAdd, StartPC
    <3> QED  BY <2>4, <3>1 DEF OnAdd
  <2>5. CASE OnCount(p)
    <3>1. sub[p] \in Subs  BY <2>0, <2>5 DEF OnCount
    <3> QED  BY <2>5, <3>1 DEF OnCount
  <2>6. CASE StopCas(p)  BY <2>6 DEF StopCas, AfterStop
  <2>7. CASE StopClose(p)  BY <2>7 DEF StopClose, AfterStop
  <2>8. CASE OffRemove(p)
    <3>1. sub[p] \in Subs  BY <2>0, <2>8 DEF OffRemove
    <3>2. \A t \in Topics : Without(subscribers[t], sub[p]) \in Seq(Subs)
      BY WithoutDistinct DEF RegistryInv
    <3> QED  BY <2>8, <3>1, <3>2 DEF OffRemove
  <2>9. CASE OffCount(p)
    <3>1. sub[p] \in Subs  BY <2>0, <2>9 DEF OffCount
    <3> QED  BY <2>9, <3>1 DEF OffCount
  <2>10. CASE CloseBegin(p)  BY <2>10 DEF CloseBegin
  <2>11. CASE CloseCollect(p)
    <3>1. UNION {Range(subscribers[t]) : t \in Topics} \subseteq Subs  BY DEF Range
    <3> QED  BY <2>11, <3>1 DEF CloseCollect
  <2>12. CASE CloseNext(p)
    <3>1. closing' \subseteq Subs /\ sub' \in [Clients -> Subs \cup {None}]
      BY <2>12 DEF CloseNext
    <3>2. \E l \in {"stop.cas", "close.adapter"} : pc' = [pc EXCEPT ![p] = l]
      BY <2>12 DEF CloseNext
    <3>3. pc' \in [Clients -> Labels]  BY <3>2
    <3>4. UNCHANGED <<mq, closer, poolClosed, subscribers, openAtClose, subVars, ev, stage,
                      metricVars, stopChan, proc>>
      BY <2>12 DEF CloseNext
    <3> QED  BY <3>1, <3>3, <3>4
  <2>13. CASE CloseAdapter(p)
    <3>1. UNCHANGED <<stopChan, proc>>  BY <2>13 DEF CloseAdapter, CloseConnections
    <3> QED  BY <2>13, <3>1 DEF CloseAdapter
  <2>14. CASE CloseRelease(p)  BY <2>14 DEF CloseRelease
  <2> QED
    BY <1>3, <2>1, <2>2, <2>3, <2>4, <2>5, <2>6, <2>7, <2>8, <2>9, <2>10, <2>11, <2>12, <2>13, <2>14
    DEF LifeStep
<1> QED  BY <1>1, <1>2, <1>3, KindOfStep

\* A step that is aside leaves every call on a subscription where it is.
LEMMA AsideKeeps ==
  ASSUME BusTypes, Aside
  PROVE  /\ \A p \in Clients, l \in Labels \ Outside : pc'[p] = l <=> pc[p] = l
         /\ \A s \in Subs : BeingStopped(s)' <=> BeingStopped(s)
         /\ \A s \in Subs : Leaving(s)' <=> Leaving(s)
         /\ \A s \in Subs : Registered(s)' <=> Registered(s)
<1>1. \A p \in Clients, l \in Labels \ Outside : pc'[p] = l <=> pc[p] = l
  BY DEF Aside
<1>2. StopPC \cup {"off.remove", "stop.close"} \subseteq Labels \ Outside
  BY DEF StopPC, OffPC, Labels, Outside, EmitPC
<1>3. UNCHANGED <<sub, subscribers>>  BY DEF Aside
<1>4. \A s \in Subs : BeingStopped(s)' <=> BeingStopped(s)
  BY <1>1, <1>2, <1>3 DEF BeingStopped
<1>5. \A s \in Subs : Leaving(s)' <=> Leaving(s)
  BY <1>1, <1>2, <1>3 DEF Leaving
<1>6. \A s \in Subs : Registered(s)' <=> Registered(s)
  BY <1>3 DEF Registered
<1> QED  BY <1>1, <1>4, <1>5, <1>6

\* What CallInv says of one caller's call on a subscription, and of every
\* subscription.
OnSub == StartPC \cup {"on.count"} \cup StopPC \cup OffPC
CallOf(p) ==
  pc[p] \in OnSub =>
    /\ sub[p] \in Subs
    /\ pc[p] \in StartPC => phase[sub[p]] = "starting"
    /\ pc[p] = "on.subscribe" => proc[sub[p]] = "none"
    /\ pc[p] = "on.add" => proc[sub[p]] # "none"
    /\ pc[p] \in StopPC \cup OffPC \cup {"on.count"} => phase[sub[p]] \in Published
    /\ pc[p] \in OffPC => closed[sub[p]]
LoopOf(s) == /\ phase[s] \in {"fresh", "failed"} => proc[s] = "none"
             /\ phase[s] \in Published => proc[s] # "none"
CallsOnSubs ==
  /\ \A p \in Clients : CallOf(p)
  /\ \A p, q \in Clients : pc[p] \in StartPC /\ pc[q] \in StartPC /\ sub[p] = sub[q] => p = q
  /\ \A s \in Subs : LoopOf(s)

\* What it says of the calls of Emit.
CallsOfEmit ==
  /\ \A p \in Clients : /\ pc[p] \in EmitPC => ev[p] \in Events
                        /\ pc[p] = "emit.publish" => stage[ev[p]] = "emitting"
  /\ \A p, q \in Clients :
       pc[p] = "emit.publish" /\ pc[q] = "emit.publish" /\ ev[p] = ev[q] => p = q

\* CallInv in two parts, of which the steps of Emit touch only one.
LEMMA CallParts == CallInv <=> CallsOnSubs /\ CallsOfEmit
<1>1. \A p \in Clients :
        CallOf(p) <=> /\ pc[p] \in StartPC \cup {"on.count"} \cup StopPC \cup OffPC => sub[p] \in Subs
                      /\ pc[p] \in StartPC => phase[sub[p]] = "starting"
                      /\ pc[p] = "on.subscribe" => proc[sub[p]] = "none"
                      /\ pc[p] = "on.add" => proc[sub[p]] # "none"
                      /\ pc[p] \in StopPC \cup OffPC \cup {"on.count"} => phase[sub[p]] \in Published
                      /\ pc[p] \in OffPC => closed[sub[p]]
  BY DEF CallOf, OnSub, StartPC
<1> QED  BY <1>1 DEF CallInv, CallsOnSubs, CallsOfEmit, LoopOf

\* The variables that calls work with, and their types.
LEMMA CallTypes ==
  ASSUME BusTypes
  PROVE  /\ pc \in [Clients -> Labels] /\ sub \in [Clients -> Subs \cup {None}]
         /\ ev \in [Clients -> Events \cup {None}]
         /\ phase \in [Subs -> {"fresh", "starting", "added", "open", "failed"}]
         /\ closed \in [Subs -> BOOLEAN] /\ stopChan \in [Subs -> BOOLEAN]
         /\ proc \in [Subs -> {"none", "receive", "acquire", "gone"}]
         /\ stage \in [Events -> {"new", "emitting", "published", "failed"}]
         /\ subscribers \in [Topics -> Seq(Subs)] /\ closing \subseteq Subs /\ openAtClose \subseteq Subs
         /\ closer \in Clients \cup {None} /\ poolClosed \in BOOLEAN
         /\ None \notin Subs \cup Events \cup Clients
         /\ \A s \in Subs : SubTopic[s] \in Topics
BY Sizes DEF BusTypes

\* One caller moves, and what the calls of others work on is left alone.
LEMMA OneCallMoves ==
  ASSUME BusTypes, CallsOnSubs,
         NEW p \in Clients, NEW l, pc'[p] = l,
         \A q \in Clients \ {p} : pc'[q] = pc[q] /\ sub'[q] = sub[q],
         \A q \in Clients \ {p} : pc[q] \in OnSub =>
           /\ \/ phase'[sub[q]] = phase[sub[q]]
              \/ phase[sub[q]] \in Published /\ phase'[sub[q]] \in Published
           /\ proc'[sub[q]] = "none" <=> proc[sub[q]] = "none"
           /\ closed[sub[q]] => closed'[sub[q]],
         CallOf(p)',
         l \in StartPC => \A q \in Clients \ {p} : pc[q] \in StartPC => sub[q] # sub'[p],
         \A s \in Subs : LoopOf(s)'
  PROVE  CallsOnSubs'
<1>1. StartPC \cap (StopPC \cup OffPC \cup {"on.count"}) = {}
      /\ "starting" \notin Published /\ StartPC \subseteq OnSub
      /\ StopPC \cup OffPC \cup {"on.count", "on.subscribe", "on.add"} \subseteq OnSub
  BY DEF StartPC, StopPC, OffPC, Published, OnSub
<1>2. ASSUME NEW q \in Clients \ {p} PROVE CallOf(q)'
  <2>1. pc'[q] = pc[q] /\ sub'[q] = sub[q] /\ CallOf(q)  BY DEF CallsOnSubs
  <2>2. SUFFICES ASSUME pc[q] \in OnSub PROVE CallOf(q)'
    BY <2>1 DEF CallOf
  <2>3. /\ \/ phase'[sub[q]] = phase[sub[q]]
           \/ phase[sub[q]] \in Published /\ phase'[sub[q]] \in Published
        /\ proc'[sub[q]] = "none" <=> proc[sub[q]] = "none"
        /\ closed[sub[q]] => closed'[sub[q]]
    BY <2>2
  <2>4. pc[q] \in StartPC => phase'[sub[q]] = phase[sub[q]]
    BY <1>1, <2>1, <2>2, <2>3 DEF CallOf
  <2>5. pc[q] \in StopPC \cup OffPC \cup {"on.count"} => phase'[sub[q]] \in Published
    BY <1>1, <2>1, <2>2, <2>3 DEF CallOf
  <2> QED  BY <2>1, <2>2, <2>3, <2>4, <2>5 DEF CallOf
<1>3. ASSUME NEW a \in Clients, NEW b \in Clients, pc'[a] \in StartPC, pc'[b] \in StartPC,
             sub'[a] = sub'[b]
      PROVE  a = b
  BY <1>3 DEF CallsOnSubs
<1> QED  BY <1>2, <1>3 DEF CallsOnSubs

\* A step that is aside keeps them.
LEMMA AsideCalls ==
  ASSUME BusTypes, CallsOnSubs, Aside
  PROVE  CallsOnSubs'
<1>1. \A p \in Clients, l \in Labels \ Outside : pc'[p] = l <=> pc[p] = l
  BY AsideKeeps
<1>2. OnSub \subseteq Labels \ Outside /\ StartPC \subseteq OnSub
  BY DEF OnSub, StartPC, StopPC, OffPC, Labels, Outside, EmitPC
<1>3. UNCHANGED <<sub, phase, closed>> /\ \A s \in Subs : proc'[s] = "none" <=> proc[s] = "none"
  BY DEF Aside
<1>4. \A p \in Clients : (pc'[p] \in OnSub => pc'[p] = pc[p])
  BY <1>1, <1>2
<1>5. ASSUME NEW p \in Clients PROVE CallOf(p)'
  <2>1. CallOf(p)  BY DEF CallsOnSubs
  <2> QED  BY <1>3, <1>4, <2>1 DEF CallOf
<1>6. ASSUME NEW p \in Clients, NEW q \in Clients, pc'[p] \in StartPC, pc'[q] \in StartPC, sub'[p] = sub'[q]
      PROVE  p = q
  <2>1. pc[p] \in StartPC /\ pc[q] \in StartPC  BY <1>2, <1>4, <1>6
  <2> QED  BY <1>3, <1>6, <2>1 DEF CallsOnSubs
<1>7. \A s \in Subs : LoopOf(s)'  BY <1>3 DEF LoopOf, CallsOnSubs
<1> QED  BY <1>5, <1>6, <1>7 DEF CallsOnSubs

\* Every step of a call on a subscription, and of Close, keeps them.
LEMMA LifeCalls ==
  ASSUME BusTypes, CallsOnSubs, \A s \in closing : phase[s] \in Published,
         NEW p \in Clients, LifeStep(p), pc[p] = "stop.close" => closed[sub[p]]
  PROVE  CallsOnSubs'
<1>0. /\ pc \in [Clients -> Labels] /\ sub \in [Clients -> Subs \cup {None}]
      /\ phase \in [Subs -> {"fresh", "starting", "added", "open", "failed"}]
      /\ closed \in [Subs -> BOOLEAN] /\ closing \subseteq Subs
      /\ proc \in [Subs -> {"none", "receive", "acquire", "gone"}]
  BY CallTypes
<1>a. /\ CallOf(p) /\ \A s \in Subs : LoopOf(s)
      /\ \A q \in Clients \ {p} : CallOf(q)
      /\ \A q \in Clients \ {p} : pc[q] \in StartPC /\ pc[p] \in StartPC => sub[q] # sub[p]
  BY DEF CallsOnSubs
<1>b. /\ "idle" \notin OnSub
      /\ {"close.collect", "close.next", "close.adapter", "close.release"} \cap OnSub = {}
      /\ StartPC \cap (StopPC \cup OffPC \cup {"on.count"}) = {} /\ StopPC \cap OffPC = {}
      /\ {"on.subscribe", "on.add"} = StartPC /\ {"stop.cas", "stop.close"} = StopPC
      /\ {"off.remove", "off.count"} = OffPC /\ Published = {"added", "open"}
      /\ StartPC \cup StopPC \cup OffPC \cup {"on.count"} = OnSub
  BY DEF OnSub, StartPC, StopPC, OffPC, Published
\* Only the caller's own label and, to one that is published, its subscription.
<1>c. ASSUME NEW l, pc' = [pc EXCEPT ![p] = l], \A q \in Clients \ {p} : sub'[q] = sub[q],
             UNCHANGED <<phase, proc>>, \A s \in Subs : closed[s] => closed'[s],
             l \in OnSub => /\ l \in StopPC \cup OffPC
                            /\ sub'[p] \in Subs /\ phase[sub'[p]] \in Published
                            /\ l \in OffPC => closed'[sub'[p]]
      PROVE  CallsOnSubs'
  <2>1. pc'[p] = l /\ \A q \in Clients \ {p} : pc'[q] = pc[q]  BY <1>0, <1>c
  <2>2. CallOf(p)'  BY <1>b, <1>c, <2>1 DEF CallOf
  <2>3. \A s \in Subs : LoopOf(s)'  BY <1>a, <1>c DEF LoopOf
  <2>4. l \notin StartPC  BY <1>b, <1>c
  <2>5. \A q \in Clients \ {p} : pc[q] \in OnSub => sub[q] \in Subs  BY <1>a DEF CallOf
  <2> QED  BY <1>c, <2>1, <2>2, <2>3, <2>4, <2>5, OneCallMoves
<1>d. \A q \in Clients \ {p} : pc[q] \in OnSub =>
        /\ sub[q] \in Subs /\ phase[sub[q]] \in {"starting"} \cup Published
        /\ pc[q] \in StartPC => phase[sub[q]] = "starting"
        /\ pc[q] \notin StartPC => phase[sub[q]] \in Published
  BY <1>a, <1>b DEF CallOf
<1>e. pc[p] = "stop.close" => closed[sub[p]]  OBVIOUS
<1>1. ASSUME NEW s \in Subs, OnBegin(p, s) PROVE CallsOnSubs'
  <2>1. /\ pc' = [pc EXCEPT ![p] = "on.subscribe"] /\ sub' = [sub EXCEPT ![p] = s]
        /\ phase[s] = "fresh" /\ phase' = [phase EXCEPT ![s] = "starting"] /\ UNCHANGED <<proc, closed>>
    BY <1>1 DEF OnBegin, mqVars
  <2>2. pc'[p] = "on.subscribe" /\ sub'[p] = s /\ \A q \in Clients \ {p} : pc'[q] = pc[q] /\ sub'[q] = sub[q]
    BY <1>0, <2>1
  <2>3. phase'[s] = "starting" /\ \A x \in Subs \ {s} : phase'[x] = phase[x]  BY <1>0, <2>1
  <2>4. \A q \in Clients \ {p} : pc[q] \in OnSub => sub[q] \in Subs \ {s}
    BY <1>b, <1>d, <2>1
  <2>5. CallOf(p)'  BY <1>a, <1>b, <2>1, <2>2, <2>3 DEF CallOf, LoopOf
  <2>6. \A x \in Subs : LoopOf(x)'  BY <1>a, <1>b, <2>1, <2>3 DEF LoopOf
  <2>7. \A q \in Clients \ {p} : pc[q] \in StartPC => sub[q] # s  BY <1>b, <2>4
  <2> QED  BY <2>1, <2>2, <2>3, <2>4, <2>5, <2>6, <2>7, OneCallMoves
<1>2. ASSUME NEW s \in Subs, OffBegin(p, s) PROVE CallsOnSubs'
  <2>1. /\ pc' = [pc EXCEPT ![p] = "stop.cas"] /\ sub' = [sub EXCEPT ![p] = s]
        /\ phase[s] = "open" /\ UNCHANGED <<phase, proc, closed>>
    BY <1>2 DEF OffBegin, mqVars
  <2>2. sub'[p] = s /\ \A q \in Clients \ {p} : sub'[q] = sub[q]  BY <1>0, <2>1
  <2>3. "stop.cas" \in StopPC \ OffPC /\ phase[sub'[p]] \in Published  BY <1>b, <2>1, <2>2
  <2> QED  BY <1>c, <2>1, <2>2, <2>3
<1>3. CASE OnSubscribe(p)
  <2> DEFINE s == sub[p]
  <2>0. pc[p] = "on.subscribe" /\ s \in Subs /\ phase[s] = "starting" /\ proc[s] = "none"
    BY <1>3, <1>a, <1>b DEF OnSubscribe, CallOf
  <2>1. \A q \in Clients \ {p} : pc[q] \in OnSub => sub[q] \in Subs \ {s}
    BY <1>a, <1>b, <1>d, <2>0
  <2>2. CASE /\ pc' = [pc EXCEPT ![p] = "on.add"] /\ proc' = [proc EXCEPT ![s] = "receive"]
             /\ UNCHANGED <<phase, sub, closed>>
    <3>1. pc'[p] = "on.add" /\ \A q \in Clients \ {p} : pc'[q] = pc[q]  BY <1>0, <2>2
    <3>2. proc'[s] = "receive" /\ \A x \in Subs \ {s} : proc'[x] = proc[x]  BY <1>0, <2>0, <2>2
    <3>3. CallOf(p)'  BY <1>b, <2>0, <2>2, <3>1, <3>2 DEF CallOf
    <3>4. \A x \in Subs : LoopOf(x)'  BY <1>a, <1>b, <2>0, <2>2, <3>2 DEF LoopOf
    <3>5. \A q \in Clients \ {p} : pc[q] \in StartPC => sub[q] # s  BY <1>b, <2>1
    <3> QED  BY <2>1, <2>2, <3>1, <3>2, <3>3, <3>4, <3>5, OneCallMoves
  <2>3. CASE /\ pc' = [pc EXCEPT ![p] = "idle"] /\ phase' = [phase EXCEPT ![s] = "failed"]
             /\ UNCHANGED <<proc, sub, closed>>
    <3>1. pc'[p] = "idle" /\ \A q \in Clients \ {p} : pc'[q] = pc[q]  BY <1>0, <2>3
    <3>2. phase'[s] = "failed" /\ \A x \in Subs \ {s} : phase'[x] = phase[x]  BY <1>0, <2>0, <2>3
    <3>3. CallOf(p)'  BY <1>b, <3>1 DEF CallOf
    <3>4. \A x \in Subs : LoopOf(x)'  BY <1>a, <1>b, <2>0, <2>3, <3>2 DEF LoopOf
    <3>5. "idle" \notin StartPC  BY <1>b
    <3> QED  BY <2>1, <2>3, <3>1, <3>2, <3>3, <3>4, <3>5, OneCallMoves
  <2> QED  BY <1>3, <2>2, <2>3 DEF OnSubscribe, subVars, procVars
<1>4. CASE OnAdd(p)
  <2> DEFINE s == sub[p]
  <2>0. pc[p] = "on.add" /\ s \in Subs /\ phase[s] = "starting" /\ proc[s] # "none"
    BY <1>4, <1>a, <1>b DEF OnAdd, CallOf
  <2>1. \A q \in Clients \ {p} : pc[q] \in OnSub => sub[q] \in Subs \ {s}
    BY <1>a, <1>b, <1>d, <2>0
  <2>2. /\ pc' = [pc EXCEPT ![p] = "on.count"] /\ phase' = [phase EXCEPT ![s] = "added"]
        /\ UNCHANGED <<proc, sub, closed>>
    BY <1>4 DEF OnAdd, mqVars
  <2>3. pc'[p] = "on.count" /\ \A q \in Clients \ {p} : pc'[q] = pc[q]  BY <1>0, <2>2
  <2>4. phase'[s] = "added" /\ \A x \in Subs \ {s} : phase'[x] = phase[x]  BY <1>0, <2>0, <2>2
  <2>5. CallOf(p)'  BY <1>b, <2>0, <2>2, <2>3, <2>4 DEF CallOf
  <2>6. \A x \in Subs : LoopOf(x)'  BY <1>a, <1>b, <2>0, <2>2, <2>4 DEF LoopOf
  <2>7. "on.count" \notin StartPC  BY <1>b
  <2> QED  BY <2>1, <2>2, <2>3, <2>4, <2>5, <2>6, <2>7, OneCallMoves
<1>5. CASE OnCount(p)
  <2> DEFINE s == sub[p]
  <2>0. pc[p] = "on.count" /\ s \in Subs /\ phase[s] \in Published
    BY <1>5, <1>a, <1>b DEF OnCount, CallOf
  <2>2. /\ pc' = [pc EXCEPT ![p] = "idle"] /\ phase' = [phase EXCEPT ![s] = "open"]
        /\ UNCHANGED <<proc, sub, closed>>
    BY <1>5 DEF OnCount, mqVars
  <2>3. pc'[p] = "idle" /\ \A q \in Clients \ {p} : pc'[q] = pc[q]  BY <1>0, <2>2
  <2>4. phase'[s] = "open" /\ \A x \in Subs \ {s} : phase'[x] = phase[x]  BY <1>0, <2>0, <2>2
  <2>5. CallOf(p)'  BY <1>b, <2>3 DEF CallOf
  <2>6. \A x \in Subs : LoopOf(x)'  BY <1>a, <1>b, <2>0, <2>2, <2>4 DEF LoopOf
  <2>7. "idle" \notin StartPC /\ "open" \in Published  BY <1>b
  <2>8. \A q \in Clients \ {p} : pc[q] \in OnSub => phase'[sub[q]] = phase[sub[q]]
            \/ (phase[sub[q]] \in Published /\ phase'[sub[q]] \in Published)
    BY <1>d, <2>0, <2>4, <2>7
  <2> QED  BY <2>2, <2>3, <2>5, <2>6, <2>7, <2>8, OneCallMoves
<1>6. CASE StopCas(p)
  <2>0. pc[p] = "stop.cas" /\ sub[p] \in Subs /\ phase[sub[p]] \in Published
    BY <1>6, <1>a, <1>b DEF StopCas, CallOf
  <2>1. PICK l \in {"close.next", "off.remove", "stop.close"} :
          /\ pc' = [pc EXCEPT ![p] = l] /\ closed' = [closed EXCEPT ![sub[p]] = TRUE]
          /\ UNCHANGED <<phase, proc, sub>>
    BY <1>6 DEF StopCas, AfterStop, mqVars
  <2>2. closed'[sub[p]] /\ \A s \in Subs : closed[s] => closed'[s]  BY <1>0, <2>0, <2>1
  <2> QED  BY <1>b, <1>c, <2>0, <2>1, <2>2
<1>7. CASE StopClose(p)
  <2>0. pc[p] = "stop.close" /\ sub[p] \in Subs /\ phase[sub[p]] \in Published
    BY <1>7, <1>a, <1>b DEF StopClose, CallOf
  <2>1. PICK l \in {"close.next", "off.remove"} :
          /\ pc' = [pc EXCEPT ![p] = l]
          /\ UNCHANGED <<phase, proc, sub, closed>>
    BY <1>7 DEF StopClose, AfterStop, subVars
  <2> QED  BY <1>b, <1>c, <1>e, <2>0, <2>1
<1>8. CASE OffRemove(p)
  <2>0. pc[p] = "off.remove" /\ sub[p] \in Subs /\ phase[sub[p]] \in Published /\ closed[sub[p]]
    BY <1>8, <1>a, <1>b DEF OffRemove, CallOf
  <2>1. pc' = [pc EXCEPT ![p] = "off.count"] /\ UNCHANGED <<phase, proc, sub, closed>>
    BY <1>8 DEF OffRemove, subVars, mqVars
  <2> QED  BY <1>b, <1>c, <2>0, <2>1
<1>9. CASE OffCount(p) \/ CloseRelease(p)
  <2>1. pc' = [pc EXCEPT ![p] = "idle"] /\ UNCHANGED <<phase, proc, sub, closed>>
    BY <1>9 DEF OffCount, CloseRelease, subVars, mqVars
  <2> QED  BY <1>b, <1>c, <2>1
<1>10. CASE CloseBegin(p) \/ CloseCollect(p) \/ CloseAdapter(p)
  <2>1. PICK l \in {"close.collect", "close.next", "close.release"} :
          pc' = [pc EXCEPT ![p] = l] /\ UNCHANGED <<phase, proc, sub, closed>>
    BY <1>10 DEF CloseBegin, CloseCollect, CloseAdapter, CloseConnections, subVars, mqVars
  <2> QED  BY <1>b, <1>c, <2>1
<1>11. CASE CloseNext(p)
  <2>1. UNCHANGED <<phase, proc, closed>>  BY <1>11 DEF CloseNext, subVars, mqVars
  <2>2. CASE \E s \in closing : pc' = [pc EXCEPT ![p] = "stop.cas"] /\ sub' = [sub EXCEPT ![p] = s]
    <3>1. PICK s \in closing : pc' = [pc EXCEPT ![p] = "stop.cas"] /\ sub' = [sub EXCEPT ![p] = s]
      BY <2>2
    <3>2. sub'[p] = s /\ s \in Subs /\ phase[s] \in Published /\ \A q \in Clients \ {p} : sub'[q] = sub[q]
      BY <1>0, <3>1
    <3> QED  BY <1>b, <1>c, <2>1, <3>1, <3>2
  <2>3. CASE pc' = [pc EXCEPT ![p] = "close.adapter"] /\ UNCHANGED sub
    BY <1>b, <1>c, <2>1, <2>3
  <2> QED  BY <1>11, <2>2, <2>3 DEF CloseNext
<1> QED  BY <1>1, <1>2, <1>3, <1>4, <1>5, <1>6, <1>7, <1>8, <1>9, <1>10, <1>11 DEF LifeStep

\* Emit keeps what is said of its calls, and no other step touches it.
LEMMA EmitCalls ==
  ASSUME BusTypes, CallsOfEmit, NEW p \in Clients, EmitStep(p)
  PROVE  CallsOfEmit'
<1>0. /\ pc \in [Clients -> Labels] /\ ev \in [Clients -> Events \cup {None}]
      /\ stage \in [Events -> {"new", "emitting", "published", "failed"}]
      /\ EmitPC = {"emit.publish", "emit.count"}
  BY CallTypes DEF EmitPC
<1>1. ASSUME NEW e \in Events, EmitBegin(p, e) PROVE CallsOfEmit'
  <2>1. /\ pc' = [pc EXCEPT ![p] = "emit.publish"] /\ ev' = [ev EXCEPT ![p] = e]
        /\ stage[e] = "new" /\ stage' = [stage EXCEPT ![e] = "emitting"]
    BY <1>1 DEF EmitBegin
  <2>2. /\ pc'[p] = "emit.publish" /\ ev'[p] = e /\ stage'[e] = "emitting"
        /\ \A q \in Clients \ {p} : pc'[q] = pc[q] /\ ev'[q] = ev[q]
        /\ \A x \in Events \ {e} : stage'[x] = stage[x]
    BY <1>0, <2>1
  <2>3. \A q \in Clients \ {p} : pc[q] = "emit.publish" => ev[q] \in Events \ {e}
    BY <1>0, <2>1 DEF CallsOfEmit
  <2> QED  BY <1>0, <2>2, <2>3 DEF CallsOfEmit
<1>2. CASE EmitPublish(p)
  <2>1. PICK l \in {"emit.count", "idle"}, x \in {"published", "failed"} :
          /\ pc' = [pc EXCEPT ![p] = l]
          /\ pc[p] = "emit.publish"
          /\ UNCHANGED ev
          /\ stage' = [stage EXCEPT ![ev[p]] = x]
    BY <1>2 DEF EmitPublish
  <2>2. ev[p] \in Events /\ pc'[p] = l /\ \A q \in Clients \ {p} : pc'[q] = pc[q]
    BY <1>0, <2>1 DEF CallsOfEmit
  <2>3. \A y \in Events \ {ev[p]} : stage'[y] = stage[y]  BY <1>0, <2>1, <2>2
  <2>4. \A q \in Clients \ {p} : pc[q] = "emit.publish" => ev[q] \in Events \ {ev[p]}
    BY <1>0, <2>1 DEF CallsOfEmit
  <2> QED  BY <1>0, <2>1, <2>2, <2>3, <2>4 DEF CallsOfEmit
<1>3. CASE EmitCount(p)
  <2>1. pc' = [pc EXCEPT ![p] = "idle"] /\ UNCHANGED <<ev, stage>>  BY <1>3 DEF EmitCount
  <2>2. pc'[p] = "idle" /\ \A q \in Clients \ {p} : pc'[q] = pc[q]  BY <1>0, <2>1
  <2> QED  BY <1>0, <2>1, <2>2 DEF CallsOfEmit
<1> QED  BY <1>1, <1>2, <1>3 DEF EmitStep

\* The calls other than Emit leave the Emit calls alone.
LEMMA LifeNotEmit ==
  ASSUME BusTypes, CallsOfEmit, NEW p \in Clients, LifeStep(p)
  PROVE  CallsOfEmit'
<1>1. PICK l \in Labels \ EmitPC : pc' = [pc EXCEPT ![p] = l]
  BY DEF LifeStep, OnBegin, OffBegin, OnSubscribe, OnAdd, OnCount, StopCas, StopClose, OffRemove,
         OffCount, CloseBegin, CloseCollect, CloseNext, CloseAdapter, CloseRelease, AfterStop,
         Labels, EmitPC, StopPC, OffPC
<1>2. UNCHANGED <<ev, stage>>
  BY DEF LifeStep, OnBegin, OffBegin, OnSubscribe, OnAdd, OnCount, StopCas, StopClose, OffRemove,
         OffCount, CloseBegin, CloseCollect, CloseNext, CloseAdapter, CloseRelease
<1>3. pc'[p] \notin EmitPC /\ \A q \in Clients \ {p} : pc'[q] = pc[q]
  BY <1>1, CallTypes
<1>4. "emit.publish" \in EmitPC  BY DEF EmitPC
<1> QED  BY <1>2, <1>3, <1>4 DEF CallsOfEmit

\* Every step keeps CallInv.
LEMMA CallStepKeeps ==
  ASSUME BusTypes, CallInv, StopExclusive, RegistryInv, Next
  PROVE  CallInv'
<1>1. CallsOnSubs /\ CallsOfEmit  BY CallParts
<1>2. CallsOnSubs' /\ CallsOfEmit' => CallInv'  BY CallParts, PTL
<1>3. CASE Flow
  <2>1. UNCHANGED <<pc, ev, stage>>  BY <1>3 DEF Flow, callVars
  <2>2. CallsOfEmit'  BY <1>1, <2>1 DEF CallsOfEmit
  <2> QED  BY <1>1, <1>2, <1>3, <2>2, AsideSteps, AsideCalls
<1>4. ASSUME NEW p \in Clients, EmitStep(p) PROVE CallInv'
  BY <1>1, <1>2, <1>4, EmitCalls, AsideSteps, AsideCalls
<1>5. ASSUME NEW p \in Clients, LifeStep(p) PROVE CallInv'
  <2>1. pc[p] = "stop.close" => closed[sub[p]]  BY DEF StopExclusive
  <2>2. \A s \in closing : phase[s] \in Published  BY DEF RegistryInv
  <2> QED  BY <1>1, <1>2, <1>5, <2>1, <2>2, LifeCalls, LifeNotEmit
<1> QED  BY <1>3, <1>4, <1>5, KindOfStep

------------------------------------------------------------------------------
(* The stop of a subscription *)

\* What a step of one caller does to what is being stopped and taken off.
LEMMA OneCaller ==
  ASSUME BusTypes, NEW p \in Clients, NEW l, pc' = [pc EXCEPT ![p] = l],
         \A q \in Clients \ {p} : sub'[q] = sub[q]
  PROVE  /\ pc'[p] = l /\ \A q \in Clients \ {p} : pc'[q] = pc[q]
         /\ \A s \in Subs :
              /\ BeingStopped(s) => BeingStopped(s)' \/ (pc[p] = "stop.close" /\ sub[p] = s)
              /\ Leaving(s) => Leaving(s)' \/ (pc[p] \in StopPC \cup {"off.remove"} /\ sub[p] = s)
              /\ sub'[p] = s /\ l = "stop.close" => BeingStopped(s)'
              /\ sub'[p] = s /\ l \in StopPC \cup {"off.remove"} => Leaving(s)'
<1>1. pc'[p] = l /\ \A q \in Clients \ {p} : pc'[q] = pc[q]  BY CallTypes
<1> QED  BY <1>1 DEF BeingStopped, Leaving

\* The four things a step of a call or of Close can do to a subscription's end.
\* Only the stop moves a caller to closeFunc, and what it stops was active.
LEMMA KindOfLife ==
  ASSUME BusTypes, CallInv, NEW p \in Clients, LifeStep(p)
  PROVE  \/ /\ pc[p] = "stop.cas" /\ sub[p] \in Subs
            /\ closed' = [closed EXCEPT ![sub[p]] = TRUE]
            /\ UNCHANGED <<sub, stopChan>>
            /\ \/ ~closed[sub[p]] /\ pc' = [pc EXCEPT ![p] = "stop.close"]
               \/ closed[sub[p]] /\ pc' = [pc EXCEPT ![p] = AfterStop(p)]
         \/ /\ pc[p] = "stop.close" /\ sub[p] \in Subs
            /\ stopChan' = [stopChan EXCEPT ![sub[p]] = TRUE]
            /\ pc' = [pc EXCEPT ![p] = AfterStop(p)]
            /\ UNCHANGED <<sub, closed>>
         \/ /\ pc[p] \notin StopPC
            /\ \E l \in Labels \ {"stop.close"} : pc' = [pc EXCEPT ![p] = l]
            /\ \A q \in Clients \ {p} : sub'[q] = sub[q]
            /\ UNCHANGED <<closed, stopChan>>
<1> USE DEF StopPC, OffPC, Labels, subVars, mqVars, chanVars, MayCall
<1>a. pc \in [Clients -> Labels] /\ sub \in [Clients -> Subs \cup {None}]  BY CallTypes
<1>b. \A s \in Subs : \A f \in [Clients -> Subs \cup {None}] :
        sub' = [sub EXCEPT ![p] = s] => \A q \in Clients \ {p} : sub'[q] = sub[q]
  BY <1>a
<1>c. pc[p] \in StopPC => sub[p] \in Subs  BY DEF CallInv
<1>1. ASSUME NEW s \in Subs, OnBegin(p, s) \/ OffBegin(p, s) PROVE
        /\ pc[p] \notin StopPC
        /\ \E l \in Labels \ {"stop.close"} : pc' = [pc EXCEPT ![p] = l]
        /\ \A q \in Clients \ {p} : sub'[q] = sub[q]
        /\ UNCHANGED <<closed, stopChan>>
  BY <1>1, <1>a DEF OnBegin, OffBegin
<1>2. CASE OnSubscribe(p)
  <2>1. UNCHANGED stopChan  BY <1>2 DEF OnSubscribe
  <2> QED  BY <1>2, <2>1 DEF OnSubscribe
<1>3. CASE OnAdd(p) \/ OnCount(p) \/ OffRemove(p) \/ OffCount(p)
  BY <1>3 DEF OnAdd, OnCount, OffRemove, OffCount
<1>4. CASE StopCas(p)
  BY <1>4, <1>c DEF StopCas
<1>5. CASE StopClose(p)
  BY <1>5, <1>c DEF StopClose
<1>6. CASE CloseBegin(p) \/ CloseCollect(p) \/ CloseRelease(p)
  BY <1>6 DEF CloseBegin, CloseCollect, CloseRelease
<1>7. CASE CloseNext(p)
  <2>1. UNCHANGED <<closed, stopChan>> /\ pc[p] \notin StopPC  BY <1>7 DEF CloseNext
  <2>2. \E l \in Labels \ {"stop.close"} : pc' = [pc EXCEPT ![p] = l]  BY <1>7 DEF CloseNext
  <2>3. \A q \in Clients \ {p} : sub'[q] = sub[q]  BY <1>7, <1>a DEF CloseNext
  <2> QED  BY <2>1, <2>2, <2>3
<1>8. CASE CloseAdapter(p)
  <2>1. UNCHANGED stopChan  BY <1>8 DEF CloseAdapter, CloseConnections
  <2> QED  BY <1>8, <2>1 DEF CloseAdapter
<1> QED  BY <1>1, <1>2, <1>3, <1>4, <1>5, <1>6, <1>7, <1>8 DEF LifeStep

\* Every step keeps StopExclusive.
LEMMA StopStep ==
  ASSUME BusTypes, CallInv, StopExclusive, RegistryInv, Next
  PROVE  StopExclusive'
<1>0. /\ closed \in [Subs -> BOOLEAN] /\ stopChan \in [Subs -> BOOLEAN]
      /\ \A q \in Clients : pc[q] = "stop.close" => sub[q] \in Subs
  BY CallTypes DEF CallInv, StopPC
<1>a. StopExclusive <=> \A q \in Clients : pc[q] = "stop.close" =>
        /\ closed[sub[q]] /\ ~stopChan[sub[q]]
        /\ \A r \in Clients : pc[r] = "stop.close" /\ sub[r] = sub[q] => r = q
  BY DEF StopExclusive
<1>b. \A s \in Subs : stopChan[s] => closed[s]  BY DEF RegistryInv
<1>1. CASE Aside
  <2>1. "stop.close" \in Labels \ Outside  BY DEF Labels, StopPC, Outside, EmitPC
  <2>2. \A q \in Clients : pc'[q] = "stop.close" => pc[q] = "stop.close"
    BY <1>1, <2>1, AsideKeeps
  <2>3. UNCHANGED <<sub, closed, stopChan>>  BY <1>1 DEF Aside
  <2> QED  BY <2>2, <2>3 DEF StopExclusive
<1>2. ASSUME NEW p \in Clients, LifeStep(p) PROVE StopExclusive'
  <2> DEFINE s == sub[p]
  <2>1. CASE /\ pc[p] = "stop.cas" /\ s \in Subs
             /\ closed' = [closed EXCEPT ![s] = TRUE] /\ UNCHANGED <<sub, stopChan>>
             /\ ~closed[s] /\ pc' = [pc EXCEPT ![p] = "stop.close"]
    <3>1. pc'[p] = "stop.close" /\ \A q \in Clients \ {p} : pc'[q] = pc[q]
      BY <2>1, OneCaller
    <3>2. closed'[s] /\ \A x \in Subs \ {s} : closed'[x] = closed[x]  BY <1>0, <2>1
    <3>3. \A q \in Clients \ {p} : pc[q] = "stop.close" => sub[q] \in Subs \ {s}
      BY <1>0, <1>a, <2>1
    <3>4. ~stopChan[s]  BY <1>b, <2>1
    <3> QED  BY <1>a, <2>1, <3>1, <3>2, <3>3, <3>4 DEF StopExclusive
  <2>2. CASE /\ s \in Subs /\ stopChan' = [stopChan EXCEPT ![s] = TRUE]
             /\ pc[p] = "stop.close" /\ pc' = [pc EXCEPT ![p] = AfterStop(p)]
             /\ UNCHANGED <<sub, closed>>
    <3>1. pc'[p] # "stop.close" /\ \A q \in Clients \ {p} : pc'[q] = pc[q]
      BY <2>2, CallTypes DEF AfterStop
    <3>2. \A x \in Subs \ {s} : stopChan'[x] = stopChan[x]  BY <1>0, <2>2
    <3>3. \A q \in Clients \ {p} : pc[q] = "stop.close" => sub[q] \in Subs \ {s}
      BY <1>0, <1>a, <2>2
    <3> QED  BY <1>a, <2>2, <3>1, <3>2, <3>3 DEF StopExclusive
  <2>3. ASSUME NEW l, l # "stop.close", pc' = [pc EXCEPT ![p] = l],
               \A q \in Clients \ {p} : sub'[q] = sub[q], UNCHANGED stopChan,
               \A x \in Subs : closed[x] => closed'[x]
        PROVE  StopExclusive'
    <3>1. pc'[p] # "stop.close" /\ \A q \in Clients \ {p} : pc'[q] = pc[q]
      BY <2>3, CallTypes
    <3> QED  BY <1>0, <1>a, <2>3, <3>1 DEF StopExclusive
  <2>4. CASE /\ s \in Subs /\ closed' = [closed EXCEPT ![s] = TRUE] /\ UNCHANGED <<sub, stopChan>>
             /\ pc' = [pc EXCEPT ![p] = AfterStop(p)]
    <3>1. AfterStop(p) # "stop.close"  BY DEF AfterStop
    <3>2. \A x \in Subs : closed[x] => closed'[x]  BY <1>0, <2>4
    <3> QED  BY <2>3, <2>4, <3>1, <3>2
  <2>5. CASE /\ \E l \in Labels \ {"stop.close"} : pc' = [pc EXCEPT ![p] = l]
             /\ \A q \in Clients \ {p} : sub'[q] = sub[q]
             /\ UNCHANGED <<closed, stopChan>>
    BY <2>3, <2>5
  <2> QED  BY <1>2, <2>1, <2>2, <2>4, <2>5, KindOfLife
<1> QED  BY <1>1, <1>2, KindOfStep, AsideSteps

------------------------------------------------------------------------------
(* The subscriber manager *)

Pub(s) == phase[s] \in Published

\* A step that leaves the lists and the closed flags alone.
LEMMA ListsKept ==
  ASSUME RegistryInv, UNCHANGED <<subscribers, closed>>, Closed => Closed',
         \A s \in closing' : Pub(s)',
         \A s \in Subs : /\ Pub(s)' <=> Pub(s)
                         /\ stopChan[s] => stopChan'[s]
                         /\ stopChan'[s] => closed[s]
                         /\ BeingStopped(s) => BeingStopped(s)' \/ stopChan'[s]
                         /\ Leaving(s) => Leaving(s)' \/ Closed',
         \A t \in Topics : Range(subscribers[t]) \subseteq Subs
  PROVE  RegistryInv'
<1>1. \A s \in Subs : Registered(s)' <=> Registered(s)  BY DEF Registered
<1>2. \A t \in Topics : /\ IsInjective(subscribers'[t])
                        /\ \A s \in Range(subscribers'[t]) : SubTopic[s] = t /\ Pub(s)'
  BY DEF RegistryInv, Pub
<1>3. \A s \in Subs :
       /\ stopChan'[s] => closed'[s]
       /\ closed'[s] => Pub(s)' /\ (stopChan'[s] \/ BeingStopped(s)')
       /\ Pub(s)' /\ ~closed'[s] => Registered(s)'
       /\ Registered(s)' /\ closed'[s] => Closed' \/ Leaving(s)'
  BY <1>1 DEF RegistryInv, Pub
<1> QED  BY <1>2, <1>3 DEF RegistryInv, Pub

\* How far On has come changes only in On, and is published only by OnAdd.
LEMMA PubKept ==
  ASSUME BusTypes, CallInv, NEW p \in Clients, LifeStep(p), ~OnAdd(p)
  PROVE  \A s \in Subs : Pub(s)' <=> Pub(s)
<1> USE CallTypes DEF Pub, Published
<1>1. ASSUME NEW s \in Subs, OnBegin(p, s) PROVE \A x \in Subs : Pub(x)' <=> Pub(x)
  BY <1>1 DEF OnBegin
<1>2. CASE OnSubscribe(p)
  <2>1. phase[sub[p]] = "starting" /\ sub[p] \in Subs
    BY <1>2 DEF OnSubscribe, CallInv, StartPC
  <2> QED  BY <1>2, <2>1 DEF OnSubscribe
<1>3. CASE OnCount(p)
  <2>1. phase[sub[p]] \in Published /\ sub[p] \in Subs
    BY <1>3 DEF OnCount, CallInv
  <2> QED  BY <1>3, <2>1 DEF OnCount
<1>4. CASE UNCHANGED phase
  BY <1>4
<1> QED
  BY <1>1, <1>2, <1>3, <1>4
  DEF LifeStep, OffBegin, StopCas, StopClose, OffRemove, OffCount, CloseBegin, CloseCollect, CloseNext,
      CloseAdapter, CloseRelease, subVars

\* The lists, Close's list and the swap of Close.
LEMMA ListsOfLife ==
  ASSUME BusTypes, RegistryInv, NEW p \in Clients, LifeStep(p)
  PROVE  /\ OnAdd(p) \/ OffRemove(p) \/ UNCHANGED subscribers
         /\ Closed => Closed'
         /\ \A s \in closing' : s \in Subs /\ phase[s] \in Published
<1>0. None \notin Clients /\ \A t \in Topics : Range(subscribers[t]) \subseteq Subs
  BY CallTypes DEF Range
<1>1. OnAdd(p) \/ OffRemove(p) \/ UNCHANGED subscribers
  BY DEF LifeStep, OnBegin, OnSubscribe, OnCount, OffBegin, StopCas, StopClose, OffCount, CloseBegin,
         CloseCollect, CloseNext, CloseAdapter, CloseRelease, busVars
<1>2. CloseBegin(p) \/ UNCHANGED closer
  BY DEF LifeStep, OnBegin, OnSubscribe, OnAdd, OnCount, OffBegin, StopCas, StopClose, OffRemove, OffCount,
         CloseCollect, CloseNext, CloseAdapter, CloseRelease, busVars
<1>3. Closed => Closed'  BY <1>0, <1>2 DEF Closed, CloseBegin
<1>4. CloseCollect(p) \/ CloseNext(p) \/ UNCHANGED closing
  BY DEF LifeStep, OnBegin, OnSubscribe, OnAdd, OnCount, OffBegin, StopCas, StopClose, OffRemove, OffCount,
         CloseBegin, CloseAdapter, CloseRelease, busVars
<1>5. \A s \in closing : s \in Subs /\ phase[s] \in Published  BY CallTypes DEF RegistryInv
<1>6. CASE CloseCollect(p)
  <2>1. \A t \in Topics : \A s \in Range(subscribers[t]) : s \in Subs /\ phase[s] \in Published
    BY <1>0 DEF RegistryInv
  <2> QED  BY <1>1, <1>3, <1>6, <2>1 DEF CloseCollect
<1>7. CASE CloseNext(p)
  <2>1. closing' \subseteq closing  BY <1>7 DEF CloseNext
  <2> QED  BY <1>1, <1>3, <1>5, <2>1
<1> QED  BY <1>1, <1>3, <1>4, <1>5, <1>6, <1>7

\* Every step keeps RegistryInv.
LEMMA RegistryStep ==
  ASSUME BusTypes, CallInv, StopExclusive, RegistryInv, CloseInv, Next
  PROVE  RegistryInv'
<1>0. /\ closed \in [Subs -> BOOLEAN] /\ stopChan \in [Subs -> BOOLEAN]
      /\ phase \in [Subs -> {"fresh", "starting", "added", "open", "failed"}]
      /\ subscribers \in [Topics -> Seq(Subs)] /\ closing \subseteq Subs
      /\ \A s \in Subs : SubTopic[s] \in Topics
      /\ \A t \in Topics : Range(subscribers[t]) \subseteq Subs
      /\ None \notin Clients
  BY CallTypes DEF Range
<1>a. \A s \in Subs : /\ stopChan[s] => closed[s]
                      /\ closed[s] => Pub(s) /\ (stopChan[s] \/ BeingStopped(s))
                      /\ Pub(s) /\ ~closed[s] => Registered(s)
                      /\ Registered(s) /\ closed[s] => Closed \/ Leaving(s)
  BY DEF RegistryInv, Pub
<1>b. /\ \A t \in Topics : /\ IsInjective(subscribers[t])
                           /\ \A s \in Range(subscribers[t]) : SubTopic[s] = t /\ Pub(s)
      /\ \A s \in closing : s \in Subs /\ Pub(s)
  BY <1>0 DEF RegistryInv, Pub
<1>1. CASE Aside
  <2>1. \A s \in Subs : (BeingStopped(s)' <=> BeingStopped(s)) /\ (Leaving(s)' <=> Leaving(s))
    BY <1>1, AsideKeeps
  <2>2. UNCHANGED <<phase, closed, stopChan, subscribers, closer, closing>>  BY <1>1 DEF Aside
  <2>3. \A s \in closing' : Pub(s)'  BY <1>b, <2>2 DEF Pub
  <2>4. \A s \in Subs : Pub(s)' <=> Pub(s)  BY <2>2 DEF Pub
  <2>5. Closed => Closed'  BY <2>2 DEF Closed
  <2> QED  BY <1>0, <1>a, <2>1, <2>2, <2>3, <2>4, <2>5, ListsKept
<1>2. ASSUME NEW p \in Clients, LifeStep(p) PROVE RegistryInv'
  <2>a. AfterStop(p) = "off.remove" \/ Closed'
    <3>1. p = closer => Closed  BY <1>0 DEF Closed
    <3>2. Closed => Closed'  BY <1>2, ListsOfLife
    <3> QED  BY <3>1, <3>2 DEF AfterStop
  <2>b. /\ Closed => Closed'
        /\ \A s \in closing' : s \in Subs /\ Pub(s)
        /\ OnAdd(p) \/ OffRemove(p) \/ UNCHANGED subscribers
    BY <1>2, ListsOfLife DEF Pub
  <2>1. CASE OnAdd(p)
    <3>0. PICK c \in Subs : c = sub[p]  BY <2>1 DEF OnAdd, CallInv, StartPC
    <3> DEFINE q == subscribers[SubTopic[c]]
    <3>1. /\ pc[p] = "on.add" /\ c \in Subs /\ phase[c] = "starting"
          /\ pc' = [pc EXCEPT ![p] = "on.count"] /\ phase' = [phase EXCEPT ![c] = "added"]
          /\ subscribers' = [subscribers EXCEPT ![SubTopic[c]] = Append(q, c)]
          /\ UNCHANGED <<closed, sub, stopChan, closer, closing>>
      BY <2>1, <3>0 DEF OnAdd, CallInv, StartPC, mqVars, chanVars
    <3>2. \A s \in Subs : (BeingStopped(s) => BeingStopped(s)') /\ (Leaving(s) => Leaving(s)')
      BY <3>0, <3>1, OneCaller DEF StopPC
    <3>3. q \in Seq(Subs) /\ IsInjective(q) /\ c \notin Range(q)
      BY <1>0, <1>b, <3>1 DEF Pub, Published
    <3>4. IsInjective(Append(q, c)) /\ Range(Append(q, c)) = Range(q) \cup {c}
      BY <3>1, <3>3, AppendDistinct
    <3> HIDE DEF q
    <3>5. /\ subscribers'[SubTopic[c]] = Append(q, c)
          /\ \A t \in Topics \ {SubTopic[c]} : subscribers'[t] = subscribers[t]
      BY <1>0, <3>1
    <3>6. Pub(c)' /\ ~Pub(c) /\ \A s \in Subs \ {c} : Pub(s)' <=> Pub(s)
      BY <1>0, <3>1 DEF Pub, Published
    <3>7. ASSUME NEW t \in Topics
          PROVE  /\ IsInjective(subscribers'[t])
                 /\ \A s \in Range(subscribers'[t]) : SubTopic[s] = t /\ Pub(s)'
      <4>1. CASE t = SubTopic[c]
        <5>1. \A s \in Range(q) : s \in Subs /\ SubTopic[s] = t /\ Pub(s)
          BY <1>0, <1>b, <4>1 DEF q
        <5>2. \A s \in Range(q) \cup {c} : SubTopic[s] = t /\ Pub(s)'
          BY <3>6, <4>1, <5>1
        <5> QED  BY <3>4, <3>5, <4>1, <5>2
      <4>2. CASE t # SubTopic[c]  BY <1>0, <1>b, <3>1, <3>5, <3>6, <4>2
      <4> QED  BY <4>1, <4>2
    <3>8. Registered(c)' /\ \A s \in Subs \ {c} : Registered(s)' <=> Registered(s)
      BY <1>0, <3>1, <3>4, <3>5 DEF Registered, q
    <3>9. ~closed[c]  BY <1>a, <3>1, <3>6
    <3>10. \A s \in Subs :
             /\ stopChan'[s] => closed'[s]
             /\ closed'[s] => Pub(s)' /\ (stopChan'[s] \/ BeingStopped(s)')
             /\ Pub(s)' /\ ~closed'[s] => Registered(s)'
             /\ Registered(s)' /\ closed'[s] => Closed' \/ Leaving(s)'
      BY <1>a, <2>b, <3>1, <3>2, <3>6, <3>8, <3>9
    <3>11. \A s \in closing' : Pub(s)'  BY <2>b, <3>6
    <3> QED  BY <3>7, <3>10, <3>11 DEF RegistryInv, Pub
  <2>2. CASE OffRemove(p)
    <3>0. PICK c \in Subs : c = sub[p]  BY <2>2 DEF OffRemove, CallInv, OffPC
    <3> DEFINE q == subscribers[SubTopic[c]]
    <3>1. /\ pc[p] = "off.remove" /\ c \in Subs /\ closed[c]
          /\ pc' = [pc EXCEPT ![p] = "off.count"]
          /\ subscribers' = [subscribers EXCEPT ![SubTopic[c]] = Without(q, c)]
          /\ UNCHANGED <<phase, closed, sub, stopChan, closer, closing>>
      BY <2>2, <3>0 DEF OffRemove, CallInv, OffPC, subVars, mqVars, chanVars
    <3>2. \A s \in Subs : /\ BeingStopped(s) => BeingStopped(s)'
                          /\ s # c => (Leaving(s) => Leaving(s)')
      BY <3>0, <3>1, OneCaller
    <3>3. q \in Seq(Subs) /\ IsInjective(q)
      BY <1>0, <1>b, <3>1
    <3>4. IsInjective(Without(q, c)) /\ Range(Without(q, c)) = Range(q) \ {c}
      BY <3>3, WithoutDistinct
    <3> HIDE DEF q
    <3>5. /\ subscribers'[SubTopic[c]] = Without(q, c)
          /\ \A t \in Topics \ {SubTopic[c]} : subscribers'[t] = subscribers[t]
      BY <1>0, <3>1
    <3>6. \A s \in Subs : Pub(s)' <=> Pub(s)  BY <3>1 DEF Pub
    <3>7. ASSUME NEW t \in Topics
          PROVE  /\ IsInjective(subscribers'[t])
                 /\ \A s \in Range(subscribers'[t]) : SubTopic[s] = t /\ Pub(s)'
      <4>1. CASE t = SubTopic[c]  BY <1>0, <1>b, <3>4, <3>5, <3>6, <4>1 DEF q
      <4>2. CASE t # SubTopic[c]  BY <1>0, <1>b, <3>1, <3>5, <3>6, <4>2
      <4> QED  BY <4>1, <4>2
    <3>8. ~Registered(c)' /\ \A s \in Subs \ {c} : Registered(s)' <=> Registered(s)
      BY <1>0, <3>1, <3>4, <3>5 DEF Registered, q
    <3>10. \A s \in Subs :
             /\ stopChan'[s] => closed'[s]
             /\ closed'[s] => Pub(s)' /\ (stopChan'[s] \/ BeingStopped(s)')
             /\ Pub(s)' /\ ~closed'[s] => Registered(s)'
             /\ Registered(s)' /\ closed'[s] => Closed' \/ Leaving(s)'
      BY <1>a, <2>b, <3>1, <3>2, <3>6, <3>8
    <3>11. \A s \in closing' : Pub(s)'  BY <2>b, <3>6
    <3> QED  BY <3>7, <3>10, <3>11 DEF RegistryInv, Pub
  <2> SUFFICES ASSUME ~OnAdd(p), ~OffRemove(p) PROVE RegistryInv'
    BY <2>1, <2>2
  <2>c. UNCHANGED subscribers /\ \A s \in Subs : Pub(s)' <=> Pub(s)
    BY <1>2, <2>b, PubKept
  <2>d. \A s \in closing' : Pub(s)'  BY <2>b, <2>c
  <2> DEFINE c == sub[p]
  <2>3. CASE /\ pc[p] = "stop.cas" /\ c \in Subs
             /\ closed' = [closed EXCEPT ![c] = TRUE] /\ UNCHANGED <<sub, stopChan>>
             /\ ~closed[c] /\ pc' = [pc EXCEPT ![p] = "stop.close"]
    <3>1. /\ \A s \in Subs : (BeingStopped(s) => BeingStopped(s)') /\ (Leaving(s) => Leaving(s)')
          /\ BeingStopped(c)' /\ Leaving(c)'
      BY <2>3, OneCaller DEF StopPC
    <3>2. closed'[c] /\ \A s \in Subs \ {c} : closed'[s] = closed[s]  BY <1>0, <2>3
    <3>3. \A s \in Subs : Registered(s)' <=> Registered(s)  BY <2>c DEF Registered
    <3>4. Pub(c)  BY <2>3 DEF CallInv, StopPC, Pub
    <3>5. \A s \in Subs :
             /\ stopChan'[s] => closed'[s]
             /\ closed'[s] => Pub(s)' /\ (stopChan'[s] \/ BeingStopped(s)')
             /\ Pub(s)' /\ ~closed'[s] => Registered(s)'
             /\ Registered(s)' /\ closed'[s] => Closed' \/ Leaving(s)'
      BY <1>a, <2>3, <2>b, <2>c, <3>1, <3>2, <3>3, <3>4
    <3>6. \A t \in Topics : /\ IsInjective(subscribers'[t])
                            /\ \A s \in Range(subscribers'[t]) : SubTopic[s] = t /\ Pub(s)'
      BY <1>0, <1>b, <2>c
    <3> QED  BY <2>d, <3>5, <3>6 DEF RegistryInv, Pub
  <2>4. CASE /\ pc[p] = "stop.cas" /\ c \in Subs
             /\ closed' = [closed EXCEPT ![c] = TRUE] /\ UNCHANGED <<sub, stopChan>>
             /\ closed[c] /\ pc' = [pc EXCEPT ![p] = AfterStop(p)]
    <3>1. UNCHANGED closed  BY <1>0, <2>4
    <3>2. \A s \in Subs : (BeingStopped(s) => BeingStopped(s)') /\ (Leaving(s) => Leaving(s)' \/ Closed')
      BY <2>a, <2>4, OneCaller
    <3> QED  BY <1>0, <1>a, <2>4, <2>b, <2>c, <2>d, <3>1, <3>2, ListsKept
  <2>5. CASE /\ pc[p] = "stop.close" /\ c \in Subs /\ stopChan' = [stopChan EXCEPT ![c] = TRUE]
             /\ pc' = [pc EXCEPT ![p] = AfterStop(p)]
             /\ UNCHANGED <<sub, closed>>
    <3>1. stopChan'[c] /\ \A s \in Subs \ {c} : stopChan'[s] = stopChan[s]  BY <1>0, <2>5
    <3>2. closed[c]  BY <2>5 DEF StopExclusive
    <3>3. \A s \in Subs : /\ BeingStopped(s) => BeingStopped(s)' \/ stopChan'[s]
                          /\ Leaving(s) => Leaving(s)' \/ Closed'
      <4>1. \A s \in Subs : /\ BeingStopped(s) => BeingStopped(s)' \/ c = s
                            /\ Leaving(s) => Leaving(s)' \/ c = s
                            /\ c = s /\ AfterStop(p) = "off.remove" => Leaving(s)'
        BY <2>5, OneCaller
      <4> QED  BY <2>a, <3>1, <4>1
    <3> QED  BY <1>0, <1>a, <2>5, <2>b, <2>c, <2>d, <3>1, <3>2, <3>3, ListsKept
  <2>6. CASE /\ pc[p] \notin StopPC
             /\ \E l \in Labels \ {"stop.close"} : pc' = [pc EXCEPT ![p] = l]
             /\ \A q \in Clients \ {p} : sub'[q] = sub[q]
             /\ UNCHANGED <<closed, stopChan>>
    <3>1. pc[p] # "off.remove"
      BY <1>2 DEF LifeStep, OnBegin, OffBegin, OnSubscribe, OnAdd, OnCount, StopCas, StopClose, OffRemove,
             OffCount, CloseBegin, CloseCollect, CloseNext, CloseAdapter, CloseRelease, MayCall
    <3>2. \A s \in Subs : (BeingStopped(s) => BeingStopped(s)') /\ (Leaving(s) => Leaving(s)')
      BY <2>6, <3>1, OneCaller DEF StopPC
    <3> QED  BY <1>0, <1>a, <2>6, <2>b, <2>c, <2>d, <3>2, ListsKept
  <2> QED  BY <1>2, <2>3, <2>4, <2>5, <2>6, KindOfLife
<1> QED  BY <1>1, <1>2, KindOfStep, AsideSteps

------------------------------------------------------------------------------
(* Close *)

\* What is open stays open, and no flag is taken back.
LEMMA OpenKept ==
  ASSUME BusTypes, CallInv, NEW p \in Clients, LifeStep(p)
  PROVE  \A s \in Subs : /\ phase[s] = "open" => phase'[s] = "open"
                         /\ closed[s] => closed'[s]
<1> USE CallTypes
<1>1. \A s \in Subs : closed[s] => closed'[s]
  BY KindOfLife
<1>2. ASSUME NEW s \in Subs, OnBegin(p, s) PROVE \A x \in Subs : phase[x] = "open" => phase'[x] = "open"
  BY <1>2 DEF OnBegin
<1>3. CASE OnSubscribe(p) \/ OnAdd(p)
  <2>1. phase[sub[p]] = "starting" /\ sub[p] \in Subs
    BY <1>3 DEF OnSubscribe, OnAdd, CallInv, StartPC
  <2> QED  BY <1>1, <1>3, <2>1 DEF OnSubscribe, OnAdd
<1>4. CASE OnCount(p)
  BY <1>1, <1>4 DEF OnCount
<1>5. CASE UNCHANGED phase
  BY <1>1, <1>5
<1> QED
  BY <1>1, <1>2, <1>3, <1>4, <1>5
  DEF LifeStep, OffBegin, StopCas, StopClose, OffRemove, OffCount, CloseBegin, CloseCollect, CloseNext,
      CloseAdapter, CloseRelease, subVars

\* Every step keeps CloseInv.
LEMMA CloseStep ==
  ASSUME BusTypes, CallInv, RegistryInv, CloseInv, Next
  PROVE  CloseInv'
<1>0. /\ pc \in [Clients -> Labels] /\ sub \in [Clients -> Subs \cup {None}]
      /\ closed \in [Subs -> BOOLEAN] /\ openAtClose \subseteq Subs
      /\ closer \in Clients \cup {None} /\ None \notin Clients
      /\ subscribers \in [Topics -> Seq(Subs)] /\ \A s \in Subs : SubTopic[s] \in Topics
  BY CallTypes
<1>a. Closed <=> closer \in Clients  BY <1>0 DEF Closed
<1>b. /\ \A q \in Clients : pc[q] \in ClosePC => q = closer
      /\ poolClosed => Closed /\ pc[closer] = "idle"
      /\ \A s \in openAtClose : Closed /\ phase[s] = "open"
      /\ Closed => \A s \in openAtClose : ~closed[s] =>
           \/ pc[closer] = "close.collect"
           \/ pc[closer] \in StopPC \cup {"close.next"} /\ s \in closing
           \/ pc[closer] = "stop.cas" /\ sub[closer] = s
  BY DEF CloseInv
<1> DEFINE Away == {"idle", "emit.publish", "emit.count", "on.subscribe", "on.add", "on.count",
                    "off.remove", "off.count"}
<1>c. /\ Labels = Away \cup StopPC \cup ClosePC /\ Away \cap (StopPC \cup ClosePC) = {}
      /\ StopPC = {"stop.cas", "stop.close"} /\ StopPC \cap ClosePC = {}
      /\ ClosePC = {"close.collect", "close.next", "close.adapter", "close.release"}
  BY DEF Labels, StopPC, OffPC, ClosePC
<1>1. CASE Aside
  <2>1. \A q \in Clients, l \in StopPC \cup ClosePC : pc'[q] = l <=> pc[q] = l
    <3>1. StopPC \cup ClosePC \subseteq Labels \ Outside
      BY DEF Labels, StopPC, ClosePC, Outside, EmitPC
    <3> QED  BY <1>1, <3>1, AsideKeeps
  <2>2. UNCHANGED <<phase, closed, sub, closer, poolClosed, closing, openAtClose>>
    BY <1>1 DEF Aside
  <2>3. poolClosed => pc'[closer] = "idle"
    BY <1>1, <1>a, <1>b DEF Aside
  <2>4. Closed => \A s \in openAtClose : ~closed[s] =>
           \/ pc'[closer] = "close.collect"
           \/ pc'[closer] \in StopPC \cup {"close.next"} /\ s \in closing
           \/ pc'[closer] = "stop.cas" /\ sub[closer] = s
    BY <1>a, <1>b, <1>c, <2>1
  <2>5. \A q \in Clients : pc'[q] \in ClosePC => q = closer
    BY <1>b, <2>1
  <2> QED  BY <1>b, <2>2, <2>3, <2>4, <2>5 DEF CloseInv, Closed
<1>2. ASSUME NEW p \in Clients, LifeStep(p) PROVE CloseInv'
  <2>0. \A s \in Subs : /\ phase[s] = "open" => phase'[s] = "open"
                        /\ closed[s] => closed'[s]
    BY <1>2, OpenKept
  \* A step that is not one of Close's own.
  <2>a. ASSUME NEW l \in Labels \ ClosePC, pc' = [pc EXCEPT ![p] = l],
               UNCHANGED <<closer, poolClosed, closing, openAtClose>>,
               p = closer => pc[p] \in Away \ {"idle"},
               \A q \in Clients \ {p} : sub'[q] = sub[q]
        PROVE  CloseInv'
    <3>1. pc'[p] = l /\ \A q \in Clients \ {p} : pc'[q] = pc[q]  BY <1>0, <2>a
    <3>2. p = closer => ~poolClosed /\ \A s \in openAtClose : closed[s]
      BY <1>a, <1>b, <1>c, <2>a
    <3>3. \A q \in Clients : pc'[q] \in ClosePC => q = closer  BY <1>b, <2>a, <3>1
    <3>4. poolClosed => Closed /\ pc'[closer] = "idle"  BY <1>a, <1>b, <3>1, <3>2
    <3>5. Closed => \A s \in openAtClose : ~closed'[s] =>
           \/ pc'[closer] = "close.collect"
           \/ pc'[closer] \in StopPC \cup {"close.next"} /\ s \in closing
           \/ pc'[closer] = "stop.cas" /\ sub'[closer] = s
      BY <1>0, <1>a, <1>b, <2>0, <2>a, <3>1, <3>2
    <3> QED  BY <1>0, <1>b, <2>0, <2>a, <3>3, <3>4, <3>5 DEF CloseInv, Closed
  \* A step of Close after which what it owes a stop is on its list.
  <2>b. ASSUME NEW l \in Labels, pc' = [pc EXCEPT ![p] = l], p = closer, l # "idle",
               UNCHANGED <<closer, poolClosed, openAtClose>>, ~poolClosed,
               \A q \in Clients \ {p} : sub'[q] = sub[q],
               \A s \in openAtClose : ~closed'[s] =>
                 \/ l \in StopPC \cup {"close.next"} /\ s \in closing'
                 \/ l = "stop.cas" /\ sub'[p] = s
        PROVE  CloseInv'
    <3>1. pc'[p] = l /\ \A q \in Clients \ {p} : pc'[q] = pc[q]  BY <1>0, <2>b
    <3>2. \A q \in Clients : pc'[q] \in ClosePC => q = closer  BY <1>b, <2>b, <3>1
    <3>3. \A s \in openAtClose : Closed /\ phase'[s] = "open"  BY <1>0, <1>b, <2>0
    <3> QED  BY <2>b, <3>1, <3>2, <3>3 DEF CloseInv, Closed
  <2>1. ASSUME NEW s \in Subs, OnBegin(p, s) \/ OffBegin(p, s) PROVE CloseInv'
    <3>1. p # closer  BY <1>a, <2>1 DEF OnBegin, OffBegin, MayCall
    <3>2. /\ sub' = [sub EXCEPT ![p] = s] /\ UNCHANGED <<closer, poolClosed, closing, openAtClose>>
          /\ \E l \in {"on.subscribe", "stop.cas"} : pc' = [pc EXCEPT ![p] = l]
      BY <2>1 DEF OnBegin, OffBegin, busVars
    <3>3. \A q \in Clients \ {p} : sub'[q] = sub[q]  BY <1>0, <3>2
    <3> QED  BY <1>c, <2>a, <3>1, <3>2, <3>3
  <2>2. CASE OnSubscribe(p) \/ OnAdd(p) \/ OnCount(p) \/ OffRemove(p) \/ OffCount(p)
    <3>1. pc[p] \in Away \ {"idle"}
      BY <2>2 DEF OnSubscribe, OnAdd, OnCount, OffRemove, OffCount
    <3>2. UNCHANGED <<sub, closer, poolClosed, closing, openAtClose>>
      BY <2>2 DEF OnSubscribe, OnAdd, OnCount, OffRemove, OffCount, busVars
    <3>3. \E l \in Away : pc' = [pc EXCEPT ![p] = l]
      BY <2>2 DEF OnSubscribe, OnAdd, OnCount, OffRemove, OffCount
    <3> QED  BY <1>c, <2>a, <3>1, <3>2, <3>3
  <2>3. CASE StopCas(p) \/ StopClose(p)
    <3>1. UNCHANGED <<sub, closer, poolClosed, closing, openAtClose>> /\ pc[p] \in StopPC
      BY <2>3 DEF StopCas, StopClose, busVars, StopPC
    <3>2. CASE p # closer
      <4>1. \E l \in {"off.remove", "stop.close"} : pc' = [pc EXCEPT ![p] = l]
        BY <2>3, <3>2 DEF StopCas, StopClose, AfterStop
      <4> QED  BY <1>c, <2>a, <3>1, <3>2, <4>1
    <3>3. CASE p = closer
      <4>1. PICK l \in {"close.next", "stop.close"} : pc' = [pc EXCEPT ![p] = l]
        BY <2>3, <3>3 DEF StopCas, StopClose, AfterStop
      <4>2. ~poolClosed  BY <1>b, <1>c, <3>1, <3>3
      <4>3. ASSUME NEW s \in openAtClose, ~closed'[s] PROVE s \in closing'
        <5>1. s \in Subs /\ ~closed[s]  BY <1>0, <2>0, <4>3
        <5>2. s \in closing \/ (pc[p] = "stop.cas" /\ sub[p] = s)
          BY <1>a, <1>b, <1>c, <3>1, <3>3, <5>1
        <5>3. pc[p] = "stop.cas" => closed' = [closed EXCEPT ![sub[p]] = TRUE]
          BY <2>3 DEF StopCas, StopClose
        <5> QED  BY <1>0, <3>1, <4>3, <5>1, <5>2, <5>3
      <4> QED  BY <1>c, <2>b, <3>1, <3>3, <4>1, <4>2, <4>3
    <3> QED  BY <3>2, <3>3
  <2>4. CASE CloseBegin(p)
    <3>1. /\ ~Closed /\ closer' = p /\ pc' = [pc EXCEPT ![p] = "close.collect"]
          /\ openAtClose' = {s \in Subs : phase[s] = "open"} /\ UNCHANGED <<poolClosed, phase>>
      BY <2>4 DEF CloseBegin, MayCall, subVars
    <3>2. pc'[p] = "close.collect" /\ \A q \in Clients \ {p} : pc'[q] = pc[q]  BY <1>0, <3>1
    <3>3. \A q \in Clients : pc[q] \notin ClosePC  BY <1>a, <1>b, <3>1
    <3>4. ~poolClosed'  BY <1>b, <3>1
    <3> QED  BY <1>0, <3>1, <3>2, <3>3, <3>4 DEF CloseInv, Closed
  <2>5. CASE CloseCollect(p)
    <3>1. /\ pc[p] = "close.collect" /\ pc' = [pc EXCEPT ![p] = "close.next"]
          /\ closing' = UNION {Range(subscribers[t]) : t \in Topics}
          /\ UNCHANGED <<closer, poolClosed, openAtClose, sub, closed>>
      BY <2>5 DEF CloseCollect, subVars
    <3>2. p = closer /\ ~poolClosed  BY <1>b, <1>c, <3>1
    <3>3. ASSUME NEW s \in openAtClose, ~closed'[s] PROVE s \in closing'
      <4>1. s \in Subs /\ phase[s] = "open" /\ ~closed[s]  BY <1>0, <1>b, <3>1, <3>3
      <4>2. s \in Range(subscribers[SubTopic[s]])
        BY <4>1 DEF RegistryInv, Published, Registered
      <4> QED  BY <1>0, <3>1, <4>1, <4>2
    <3> QED  BY <1>c, <2>b, <3>1, <3>2, <3>3
  <2>6. CASE CloseNext(p)
    <3>1. /\ pc[p] = "close.next" /\ UNCHANGED <<closer, poolClosed, openAtClose, closed>>
      BY <2>6 DEF CloseNext, subVars
    <3>2. p = closer /\ ~poolClosed  BY <1>b, <1>c, <3>1
    <3>3. \A s \in openAtClose : ~closed[s] => s \in closing
      BY <1>a, <1>b, <1>c, <3>1, <3>2
    <3>4. CASE \E s \in closing : /\ closing' = closing \ {s} /\ sub' = [sub EXCEPT ![p] = s]
                                  /\ pc' = [pc EXCEPT ![p] = "stop.cas"]
      <4>1. PICK s \in closing : /\ closing' = closing \ {s} /\ sub' = [sub EXCEPT ![p] = s]
                                 /\ pc' = [pc EXCEPT ![p] = "stop.cas"]
        BY <3>4
      <4>2. sub'[p] = s /\ \A q \in Clients \ {p} : sub'[q] = sub[q]  BY <1>0, <4>1
      <4>3. \A x \in openAtClose : ~closed'[x] => x \in closing' \/ sub'[p] = x
        BY <3>1, <3>3, <4>1, <4>2
      <4> QED  BY <1>c, <2>b, <3>1, <3>2, <4>1, <4>2, <4>3
    <3>5. CASE closing = {} /\ pc' = [pc EXCEPT ![p] = "close.adapter"] /\ UNCHANGED <<closing, sub>>
      <4>1. \A x \in openAtClose : closed'[x]  BY <3>1, <3>3, <3>5
      <4> QED  BY <1>c, <2>b, <3>1, <3>2, <3>5, <4>1
    <3> QED  BY <2>6, <3>4, <3>5 DEF CloseNext
  <2>7. CASE CloseAdapter(p)
    <3>1. /\ pc[p] = "close.adapter" /\ pc' = [pc EXCEPT ![p] = "close.release"]
          /\ UNCHANGED <<closer, poolClosed, openAtClose, sub, closed>>
      BY <2>7 DEF CloseAdapter, busVars, subVars
    <3>2. p = closer /\ ~poolClosed  BY <1>b, <1>c, <3>1
    <3>3. \A s \in openAtClose : closed'[s]  BY <1>a, <1>b, <1>c, <3>1, <3>2
    <3> QED  BY <1>c, <2>b, <3>1, <3>2, <3>3
  <2>8. CASE CloseRelease(p)
    <3>1. /\ pc[p] = "close.release" /\ pc' = [pc EXCEPT ![p] = "idle"] /\ poolClosed' = TRUE
          /\ UNCHANGED <<closer, openAtClose, sub, closed>>
      BY <2>8 DEF CloseRelease, subVars
    <3>2. p = closer  BY <1>b, <1>c, <3>1
    <3>3. \A s \in openAtClose : closed'[s]  BY <1>a, <1>b, <1>c, <3>1, <3>2
    <3>4. pc'[p] = "idle" /\ \A q \in Clients \ {p} : pc'[q] = pc[q]  BY <1>0, <3>1
    <3>5. \A q \in Clients : pc'[q] \in ClosePC => q = closer  BY <1>b, <3>2, <3>4
    <3>6. \A s \in openAtClose : phase'[s] = "open"  BY <1>0, <1>b, <2>0
    <3> QED  BY <1>0, <1>a, <3>1, <3>2, <3>3, <3>4, <3>5, <3>6 DEF CloseInv, Closed
  <2> QED  BY <1>2, <2>1, <2>2, <2>3, <2>4, <2>5, <2>6, <2>7, <2>8 DEF LifeStep
<1> QED  BY <1>1, <1>2, KindOfStep, AsideSteps

------------------------------------------------------------------------------
(* Theorems *)

\* A new bus has no call under way and no subscription.
LEMMA LifeInit == ASSUME Init PROVE LifeInv
<1> USE Sizes
<1>1. BusTypes
  <2>1. subscribers \in [Topics -> Seq(Subs)]  BY DEF Init
  <2>2. /\ pc \in [Clients -> Labels] /\ sub \in [Clients -> Subs \cup {None}]
        /\ ev \in [Clients -> Events \cup {None}]
    BY DEF Init, Labels
  <2>3. stopChan \in [Subs -> BOOLEAN] /\ proc \in [Subs -> {"none", "receive", "acquire", "gone"}]
    BY DEF Init, ChannelInit
  <2>4. /\ phase \in [Subs -> {"fresh", "starting", "added", "open", "failed"}]
        /\ closed \in [Subs -> BOOLEAN] /\ offCalls \in [Subs -> Nat]
        /\ stage \in [Events -> {"new", "emitting", "published", "failed"}]
        /\ emitted \in [Topics -> Nat] /\ subscribed \in [Topics -> Nat]
    BY DEF Init
  <2> QED  BY <2>1, <2>2, <2>3, <2>4 DEF Init, BusTypes
<1>2. CallInv
  BY DEF Init, ChannelInit, CallInv, StartPC, StopPC, OffPC, EmitPC, Published
<1>3. StopExclusive
  BY DEF Init, StopExclusive
<1>4. RegistryInv
  BY DEF Init, ChannelInit, RegistryInv, Published, Registered, IsInjective, Range
<1>5. CloseInv
  BY DEF Init, CloseInv, ClosePC, Closed
<1> QED  BY <1>1, <1>2, <1>3, <1>4, <1>5 DEF LifeInv

\* Every step, and every stuttering step, keeps LifeInv.
LEMMA LifeStepKeeps == ASSUME LifeInv, [Next]_vars PROVE LifeInv'
<1>1. CASE Next
  BY <1>1, BusTypesStep, CallStepKeeps, StopStep, RegistryStep, CloseStep DEF LifeInv
<1>2. CASE UNCHANGED vars
  <2>1. Flow
    BY <1>2 DEF Flow, vars, mqVars, chanVars, LifeInv, BusTypes
  <2>2. UNCHANGED <<busVars, subVars, callVars, stage, metricVars, stopChan, proc>>
    BY <1>2 DEF vars, mqVars, chanVars
  <2> QED
    BY <2>2 DEF LifeInv, BusTypes, CallInv, StopExclusive, RegistryInv, CloseInv, BeingStopped, Leaving,
                Registered, Closed, busVars, subVars, callVars, metricVars
<1> QED  BY <1>1, <1>2

\* LifeInv is an inductive invariant of the bus on either adapter: it is what
\* the calls of On, Off and Close keep of the subscriptions (distributed.go).
THEOREM LifeInvariant == Spec => []LifeInv
<1>1. Init => LifeInv  BY LifeInit
<1>2. LifeInv /\ [Next]_vars => LifeInv'  BY LifeStepKeeps
<1> QED  BY <1>1, <1>2, PTL DEF Spec

\* closeFunc is called once for each subscription, whatever calls of Off and
\* Close there are: stopChan is never closed a second time.
THEOREM OneStopper == Spec => []StopExclusive
<1>1. LifeInv => StopExclusive  BY DEF LifeInv
<1> QED  BY <1>1, LifeInvariant, PTL

\* The subscriber manager lists the active subscriptions.
THEOREM RegistryTracks == Spec => []RegistryTracksActive
<1>1. LifeInv => RegistryTracksActive
  BY CallTypes DEF LifeInv, RegistryInv, RegistryTracksActive, Leaving, Published, OffPC
<1> QED  BY <1>1, LifeInvariant, PTL

\* What was open when Close began is told to stop before Close returns.
THEOREM CloseStops == Spec => []CloseStopsOpen
<1>1. ASSUME LifeInv PROVE CloseStopsOpen
  <2> SUFFICES ASSUME poolClosed, NEW s \in openAtClose
               PROVE  stopChan[s] \/ BeingStopped(s)
    BY DEF CloseStopsOpen, BeingStopped
  <2>1. s \in Subs  BY <1>1, CallTypes DEF LifeInv
  <2>2. closed[s]
    BY <1>1 DEF LifeInv, CloseInv, StopPC
  <2> QED  BY <1>1, <2>1, <2>2 DEF LifeInv, RegistryInv
<1> QED  BY <1>1, LifeInvariant, PTL

------------------------------------------------------------------------------
(* The subscribed metric *)

\* An Off call that has not returned; Close's own stops are none.
InOff(p) == pc[p] \in OffPC \/ (pc[p] \in StopPC /\ p # closer)

\* The metric counts a subscription from the end of its On to the end of its Off.
InCount(s) ==
  phase[s] = "open" /\ (Registered(s) \/ \E p \in Clients : At(p, "off.count") /\ sub[p] = s)

\* One On call counts a subscription, after it is listed; the first Off of it finds
\* it on the list, and has it to itself as long as there is no second.
OnceInv ==
  /\ \A s \in Subs :
       /\ phase[s] = "added" => \E p \in Clients : At(p, "on.count") /\ sub[p] = s
       /\ offCalls[s] > 0 => phase[s] = "open"
       /\ phase[s] \in Published /\ offCalls[s] = 0 => Registered(s)
  /\ \A p \in Clients : At(p, "on.count") => phase[sub[p]] = "added"
  /\ \A p, q \in Clients : At(p, "on.count") /\ At(q, "on.count") /\ sub[p] = sub[q] => p = q
  /\ \A p \in Clients : InOff(p) =>
       /\ offCalls[sub[p]] > 0
       /\ offCalls[sub[p]] = 1 =>
            /\ Registered(sub[p]) <=> ~At(p, "off.count")
            /\ \A q \in Clients : InOff(q) /\ sub[q] = sub[p] => q = p

\* The metric of a topic none of whose subscriptions was given to Off twice.
CountInv ==
  EnableMetrics => \A t \in Topics :
    (\A s \in Subs : SubTopic[s] = t => offCalls[s] <= 1) =>
      subscribed[t] = Cardinality({s \in Subs : SubTopic[s] = t /\ InCount(s)})

\* Inductive together with LifeInv.
MetricInv == OnceInv /\ CountInv

\* No subscription joins or leaves a list, the metric, or the calls of Off, and no
\* call comes to the point where it counts one, or goes from it.
CountStill ==
  /\ UNCHANGED <<subscribers, offCalls, subscribed>>
  /\ \A s \in Subs, f \in Published : phase'[s] = f <=> phase[s] = f
  /\ \A p \in Clients :
       /\ InOff(p)' <=> InOff(p)
       /\ \A l \in {"on.count", "off.count"} : pc'[p] = l <=> pc[p] = l
       /\ InOff(p) \/ pc[p] = "on.count" => sub'[p] = sub[p]

\* The steps, by what they do to what the subscribed metric counts.
LEMMA CountKinds ==
  ASSUME BusTypes, CallInv, CloseInv, Next
  PROVE  \/ CountStill
         \/ \E p \in Clients : \/ OnAdd(p) \/ OnCount(p) \/ OffRemove(p) \/ OffCount(p)
                               \/ \E s \in Subs : OffBegin(p, s)
<1>0. /\ pc \in [Clients -> Labels] /\ sub \in [Clients -> Subs \cup {None}]
      /\ phase \in [Subs -> {"fresh", "starting", "added", "open", "failed"}]
      /\ closer \in Clients \cup {None} /\ None \notin Clients
  BY CallTypes, Sizes DEF BusTypes
<1> DEFINE Apart == {"idle"} \cup EmitPC \cup StartPC \cup ClosePC
<1>e. /\ Apart \cap (StopPC \cup OffPC \cup {"on.count"}) = {}
      /\ StopPC \cap {"on.count", "off.count"} = {} /\ {"off.count", "off.remove"} = OffPC
  BY DEF EmitPC, StartPC, ClosePC, StopPC, OffPC
\* A step of one caller that is in no Off call and counts nothing.
<1>a. ASSUME NEW p \in Clients, NEW l \in Apart, Goto(p, l), pc[p] \in Apart,
             \A q \in Clients \ {p} : sub'[q] = sub[q],
             UNCHANGED <<subscribers, offCalls, subscribed>>, closer' = closer \/ closer' = p,
             \A s \in Subs : phase'[s] = phase[s] \/ {phase'[s], phase[s]} \cap Published = {},
             closer = closer' \/ closer = None
      PROVE  CountStill
  <2>1. pc'[p] = l /\ \A q \in Clients \ {p} : pc'[q] = pc[q]  BY <1>0, <1>a
  <2>2. ~InOff(p) /\ ~InOff(p)'  BY <1>a, <1>e, <2>1 DEF InOff
  <2>3. \A q \in Clients \ {p} : InOff(q)' <=> InOff(q)
    BY <1>0, <1>a, <2>1 DEF InOff
  <2>4. pc[p] \notin {"on.count", "off.count"} /\ l \notin {"on.count", "off.count"}
    BY <1>a, <1>e
  <2> QED  BY <1>a, <2>1, <2>2, <2>3, <2>4 DEF CountStill
\* A step of a stop.
<1>c. ASSUME NEW p \in Clients, NEW l, Goto(p, l), pc[p] \in StopPC,
             l \in StopPC \/ l = AfterStop(p),
             UNCHANGED <<subscribers, offCalls, subscribed, phase, sub, closer>>
      PROVE  CountStill
  <2>1. pc'[p] = l /\ \A q \in Clients \ {p} : pc'[q] = pc[q]  BY <1>0, <1>c
  <2>2. l \in StopPC \cup {"off.remove", "close.next"} /\ (l = "off.remove" => p # closer)
        /\ (l = "close.next" => p = closer)
    BY <1>c DEF AfterStop, StopPC
  <2>3. InOff(p)' <=> InOff(p)
    BY <1>c, <2>1, <2>2 DEF InOff, StopPC, OffPC
  <2>4. \A q \in Clients \ {p} : InOff(q)' <=> InOff(q)  BY <1>c, <2>1 DEF InOff
  <2>5. pc[p] \notin {"on.count", "off.count"} /\ l \notin {"on.count", "off.count"}
    BY <1>c, <2>2 DEF StopPC
  <2> QED  BY <1>c, <2>1, <2>3, <2>4, <2>5 DEF CountStill
<1>1. CASE Aside
  <2>1. Outside \cap (StopPC \cup OffPC \cup {"on.count", "off.count"}) = {}
    BY DEF Outside, EmitPC, StopPC, OffPC
  <2>2. \A p \in Clients, l \in StopPC \cup OffPC \cup {"on.count", "off.count"} : pc'[p] = l <=> pc[p] = l
    BY <1>1, <2>1 DEF Aside
  <2>3. \A p \in Clients : InOff(p)' <=> InOff(p)  BY <1>1, <2>2 DEF Aside, InOff
  <2> QED  BY <1>1, <2>2, <2>3 DEF Aside, CountStill
<1>2. ASSUME NEW p \in Clients, NEW s \in Subs, OnBegin(p, s) PROVE CountStill
  <2>1. /\ Goto(p, "on.subscribe") /\ pc[p] = "idle" /\ phase[s] = "fresh"
        /\ phase' = [phase EXCEPT ![s] = "starting"] /\ sub' = [sub EXCEPT ![p] = s]
        /\ UNCHANGED <<subscribers, offCalls, subscribed, closer>>
    BY <1>2 DEF OnBegin, MayCall, busVars, metricVars
  <2>2. \A r \in Subs : phase'[r] = phase[r] \/ {phase'[r], phase[r]} \cap Published = {}
    BY <1>0, <2>1 DEF Published
  <2> QED  BY <1>0, <1>a, <2>1, <2>2 DEF StartPC
<1>3. ASSUME NEW p \in Clients, OnSubscribe(p) PROVE CountStill
  <2>1. /\ \E l \in {"idle", "on.add"} : Goto(p, l)
        /\ pc[p] = "on.subscribe"
        /\ phase' = phase \/ phase' = [phase EXCEPT ![sub[p]] = "failed"]
        /\ UNCHANGED <<subscribers, offCalls, subscribed, closer, sub>>
    BY <1>3 DEF OnSubscribe, busVars, metricVars
  <2>2. sub[p] \in Subs /\ phase[sub[p]] = "starting"
    BY <2>1 DEF CallInv, StartPC
  <2>3. \A r \in Subs : phase'[r] = phase[r] \/ {phase'[r], phase[r]} \cap Published = {}
    BY <1>0, <2>1, <2>2 DEF Published
  <2> QED  BY <1>0, <1>a, <2>1, <2>3 DEF StartPC
<1>4. ASSUME NEW p \in Clients, StopCas(p) \/ StopClose(p) PROVE CountStill
  <2>1. /\ pc[p] \in StopPC /\ \E l : Goto(p, l) /\ (l \in StopPC \/ l = AfterStop(p))
        /\ UNCHANGED <<subscribers, offCalls, subscribed, phase, sub, closer>>
    BY <1>4 DEF StopCas, StopClose, StopPC, busVars, subVars, metricVars
  <2> QED  BY <1>c, <2>1
<1>5. ASSUME NEW p \in Clients, CloseBegin(p) PROVE CountStill
  <2>1. /\ Goto(p, "close.collect") /\ pc[p] = "idle" /\ closer' = p /\ closer = None
        /\ UNCHANGED <<subscribers, offCalls, subscribed, phase, sub>>
    BY <1>5 DEF CloseBegin, MayCall, Closed, subVars, metricVars
  <2> QED  BY <1>a, <2>1 DEF ClosePC
<1>6. ASSUME NEW p \in Clients, CloseCollect(p) \/ CloseAdapter(p) \/ CloseRelease(p) PROVE CountStill
  <2>1. /\ \E l \in {"idle", "close.next", "close.release"} : Goto(p, l)
        /\ pc[p] \in {"close.collect", "close.adapter", "close.release"}
        /\ UNCHANGED <<subscribers, offCalls, subscribed, phase, sub, closer>>
    BY <1>6 DEF CloseCollect, CloseAdapter, CloseRelease, busVars, subVars, metricVars
  <2> QED  BY <1>a, <2>1 DEF ClosePC
<1>7. ASSUME NEW p \in Clients, CloseNext(p) PROVE CountStill
  <2>1. /\ pc[p] = "close.next" /\ UNCHANGED <<subscribers, offCalls, subscribed, phase, closer>>
        /\ \A q \in Clients \ {p} : sub'[q] = sub[q]
        /\ \E l \in {"close.adapter", "stop.cas"} : Goto(p, l)
    BY <1>0, <1>7 DEF CloseNext, subVars, metricVars
  <2>2. p = closer  BY <2>1 DEF CloseInv, ClosePC
  <2>3. ~InOff(p) /\ ~InOff(p)'  BY <1>0, <2>1, <2>2 DEF InOff, OffPC, StopPC
  <2>4. \A q \in Clients \ {p} : pc'[q] = pc[q]  BY <1>0, <2>1
  <2>5. \A q \in Clients \ {p} : InOff(q)' <=> InOff(q)  BY <2>1, <2>4 DEF InOff
  <2>6. pc'[p] \notin {"on.count", "off.count"}  BY <1>0, <2>1
  <2> QED  BY <2>1, <2>3, <2>4, <2>5, <2>6 DEF CountStill
<1> QED
  BY <1>1, <1>2, <1>3, <1>4, <1>5, <1>6, <1>7, KindOfStep, AsideSteps DEF LifeStep

\* What the steps that count do to the lists, the phases and the calls.
LEMMA CountFacts ==
  ASSUME BusTypes, CallInv, RegistryInv, OnceInv, NEW p \in Clients
  PROVE  /\ OnAdd(p) =>
              /\ sub[p] \in Subs /\ pc[p] = "on.add" /\ phase[sub[p]] = "starting"
              /\ pc' = [pc EXCEPT ![p] = "on.count"] /\ phase' = [phase EXCEPT ![sub[p]] = "added"]
              /\ \A s \in Subs : Registered(s)' <=> Registered(s) \/ s = sub[p]
              /\ UNCHANGED <<sub, closer, offCalls, subscribed>>
         /\ OnCount(p) =>
              /\ sub[p] \in Subs /\ pc[p] = "on.count" /\ phase[sub[p]] = "added"
              /\ pc' = [pc EXCEPT ![p] = "idle"] /\ phase' = [phase EXCEPT ![sub[p]] = "open"]
              /\ \A s \in Subs : Registered(s)' <=> Registered(s)
              /\ UNCHANGED <<sub, closer, offCalls>>
         /\ \A s \in Subs : OffBegin(p, s) =>
              /\ pc[p] = "idle" /\ phase[s] = "open" /\ closer = None
              /\ pc' = [pc EXCEPT ![p] = "stop.cas"] /\ sub' = [sub EXCEPT ![p] = s]
              /\ offCalls' = [offCalls EXCEPT ![s] = @ + 1]
              /\ \A r \in Subs : Registered(r)' <=> Registered(r)
              /\ UNCHANGED <<phase, closer, subscribed>>
         /\ OffRemove(p) =>
              /\ sub[p] \in Subs /\ pc[p] = "off.remove" /\ pc' = [pc EXCEPT ![p] = "off.count"]
              /\ \A s \in Subs : Registered(s)' <=> Registered(s) /\ s # sub[p]
              /\ UNCHANGED <<sub, phase, closer, offCalls, subscribed>>
         /\ OffCount(p) =>
              /\ sub[p] \in Subs /\ pc[p] = "off.count" /\ pc' = [pc EXCEPT ![p] = "idle"]
              /\ \A s \in Subs : Registered(s)' <=> Registered(s)
              /\ UNCHANGED <<sub, phase, closer, offCalls>>
<1>0. /\ \A q \in Clients : pc[q] \in StartPC \cup {"on.count"} \cup StopPC \cup OffPC => sub[q] \in Subs
      /\ \A q \in Clients : pc[q] \in StartPC => phase[sub[q]] = "starting"
      /\ subscribers \in [Topics -> Seq(Subs)] /\ \A s \in Subs : SubTopic[s] \in Topics
      /\ \A t \in Topics : IsInjective(subscribers[t])
      /\ \A t \in Topics : \A s \in Range(subscribers[t]) : SubTopic[s] = t /\ phase[s] \in Published
  BY CallTypes DEF CallInv, RegistryInv
<1>1. UNCHANGED subscribers => \A s \in Subs : Registered(s)' <=> Registered(s)
  BY DEF Registered
<1>2. ASSUME OnAdd(p)
      PROVE  /\ sub[p] \in Subs /\ pc[p] = "on.add" /\ phase[sub[p]] = "starting"
             /\ pc' = [pc EXCEPT ![p] = "on.count"] /\ phase' = [phase EXCEPT ![sub[p]] = "added"]
             /\ \A s \in Subs : Registered(s)' <=> Registered(s) \/ s = sub[p]
             /\ UNCHANGED <<sub, closer, offCalls, subscribed>>
  <2> DEFINE r == sub[p]
             q == subscribers[SubTopic[r]]
  <2>1. /\ r \in Subs /\ pc[p] = "on.add" /\ phase[r] = "starting" /\ SubTopic[r] \in Topics
        /\ q \in Seq(Subs) /\ subscribers' = [subscribers EXCEPT ![SubTopic[r]] = Append(q, r)]
    BY <1>0, <1>2 DEF OnAdd, StartPC
  <2>2. r \notin Range(q)  BY <1>0, <2>1 DEF Published
  <2>3. Range(Append(q, r)) = Range(q) \cup {r}  BY <1>0, <2>1, <2>2, AppendDistinct
  <2> HIDE DEF q, r
  <2>4. \A s \in Subs : Registered(s)' <=> Registered(s) \/ s = r
    BY <1>0, <2>1, <2>3 DEF Registered, q
  <2> QED  BY <1>2, <2>1, <2>4 DEF OnAdd, metricVars, r
<1>3. ASSUME OffRemove(p)
      PROVE  /\ sub[p] \in Subs /\ pc[p] = "off.remove" /\ pc' = [pc EXCEPT ![p] = "off.count"]
             /\ \A s \in Subs : Registered(s)' <=> Registered(s) /\ s # sub[p]
             /\ UNCHANGED <<sub, phase, closer, offCalls, subscribed>>
  <2> DEFINE r == sub[p]
             q == subscribers[SubTopic[r]]
  <2>1. /\ r \in Subs /\ SubTopic[r] \in Topics /\ q \in Seq(Subs)
        /\ subscribers' = [subscribers EXCEPT ![SubTopic[r]] = Without(q, r)]
    BY <1>0, <1>3 DEF OffRemove, OffPC
  <2>2. Range(Without(q, r)) = Range(q) \ {r}  BY <1>0, <2>1, WithoutDistinct
  <2> HIDE DEF q, r
  <2>3. \A s \in Subs : Registered(s)' <=> Registered(s) /\ s # r
    BY <1>0, <2>1, <2>2 DEF Registered, q
  <2> QED  BY <1>3, <2>1, <2>3 DEF OffRemove, subVars, metricVars, r
<1>4. OnCount(p) =>
        /\ sub[p] \in Subs /\ pc[p] = "on.count" /\ phase[sub[p]] = "added"
        /\ pc' = [pc EXCEPT ![p] = "idle"] /\ phase' = [phase EXCEPT ![sub[p]] = "open"]
        /\ \A s \in Subs : Registered(s)' <=> Registered(s)
        /\ UNCHANGED <<sub, closer, offCalls>>
  BY <1>0, <1>1 DEF OnCount, busVars, OnceInv
<1>5. \A s \in Subs : OffBegin(p, s) =>
        /\ pc[p] = "idle" /\ phase[s] = "open" /\ closer = None
        /\ pc' = [pc EXCEPT ![p] = "stop.cas"] /\ sub' = [sub EXCEPT ![p] = s]
        /\ offCalls' = [offCalls EXCEPT ![s] = @ + 1]
        /\ \A r \in Subs : Registered(r)' <=> Registered(r)
        /\ UNCHANGED <<phase, closer, subscribed>>
  BY <1>1 DEF OffBegin, MayCall, Closed, busVars, metricVars
<1>6. OffCount(p) =>
        /\ sub[p] \in Subs /\ pc[p] = "off.count" /\ pc' = [pc EXCEPT ![p] = "idle"]
        /\ \A s \in Subs : Registered(s)' <=> Registered(s)
        /\ UNCHANGED <<sub, phase, closer, offCalls>>
  BY <1>0, <1>1 DEF OffCount, OffPC, busVars, subVars
<1> QED  BY <1>2, <1>3, <1>4, <1>5, <1>6

\* Every step keeps OnceInv.
LEMMA OnceStep ==
  ASSUME BusTypes, CallInv, RegistryInv, CloseInv, OnceInv, Next
  PROVE  OnceInv'
<1>0. /\ pc \in [Clients -> Labels] /\ sub \in [Clients -> Subs \cup {None}]
      /\ \A p \in Clients : pc[p] \in {"on.count"} \cup StopPC \cup OffPC => sub[p] \in Subs
      /\ phase \in [Subs -> {"fresh", "starting", "added", "open", "failed"}]
      /\ offCalls \in [Subs -> Nat] /\ closer \in Clients \cup {None} /\ None \notin Clients
  BY CallTypes DEF BusTypes, CallInv
<1>1. \A p \in Clients : pc[p] = "on.count" \/ InOff(p) => sub[p] \in Subs
  BY <1>0 DEF InOff
<1> DEFINE Single(p) ==
      /\ offCalls[sub[p]] > 0
      /\ offCalls[sub[p]] = 1 =>
           /\ Registered(sub[p]) <=> pc[p] # "off.count"
           /\ \A q \in Clients : InOff(q) /\ sub[q] = sub[p] => q = p
\* OnceInv, in the form the steps are proved for.
<1>a. /\ \A s \in Subs : phase[s] = "added" => \E p \in Clients : pc[p] = "on.count" /\ sub[p] = s
      /\ \A s \in Subs : /\ offCalls[s] > 0 => phase[s] = "open"
                         /\ phase[s] \in Published /\ offCalls[s] = 0 => Registered(s)
      /\ \A p \in Clients : pc[p] = "on.count" => phase[sub[p]] = "added"
      /\ \A p, q \in Clients :
           pc[p] = "on.count" /\ pc[q] = "on.count" /\ sub[p] = sub[q] => p = q
      /\ \A p \in Clients : InOff(p) => Single(p)
  BY DEF OnceInv
<1>b. ASSUME \A s \in Subs : phase'[s] = "added" =>
               \E p \in Clients : pc'[p] = "on.count" /\ sub'[p] = s,
             \A s \in Subs : /\ offCalls'[s] > 0 => phase'[s] = "open"
                             /\ phase'[s] \in Published /\ offCalls'[s] = 0 => Registered(s)',
             \A p \in Clients : pc'[p] = "on.count" => phase'[sub'[p]] = "added",
             \A p, q \in Clients :
               pc'[p] = "on.count" /\ pc'[q] = "on.count" /\ sub'[p] = sub'[q] => p = q,
             \A p \in Clients : InOff(p)' => Single(p)'
      PROVE  OnceInv'
  BY <1>b DEF OnceInv
\* Who may be near a subscription that is still in On.
<1>c. \A s \in Subs, q \in Clients : phase[s] # "open" /\ InOff(q) => sub[q] # s
  BY <1>a
<1>2. CASE CountStill
  <2>0. \A s \in Subs : /\ phase'[s] = "added" <=> phase[s] = "added"
                        /\ phase'[s] = "open" <=> phase[s] = "open"
    BY <1>2 DEF CountStill, Published
  <2>1. \A s \in Subs : (Registered(s)' <=> Registered(s)) /\ offCalls'[s] = offCalls[s]
    BY <1>2 DEF CountStill, Registered
  <2>2. \A p \in Clients : /\ InOff(p)' <=> InOff(p)
                           /\ pc'[p] = "on.count" <=> pc[p] = "on.count"
                           /\ pc'[p] = "off.count" <=> pc[p] = "off.count"
                           /\ InOff(p) \/ pc[p] = "on.count" => sub'[p] = sub[p]
    BY <1>2 DEF CountStill
  <2>3. \A s \in Subs : phase'[s] = "added" =>
               \E p \in Clients : pc'[p] = "on.count" /\ sub'[p] = s
    BY <1>a, <2>0, <2>2
  <2>4. \A s \in Subs : /\ offCalls'[s] > 0 => phase'[s] = "open"
                        /\ phase'[s] \in Published /\ offCalls'[s] = 0 => Registered(s)'
    BY <1>a, <2>0, <2>1 DEF Published
  <2>5. \A p \in Clients : pc'[p] = "on.count" => phase'[sub'[p]] = "added"
    BY <1>1, <1>a, <2>0, <2>2
  <2>6. \A p, q \in Clients :
               pc'[p] = "on.count" /\ pc'[q] = "on.count" /\ sub'[p] = sub'[q] => p = q
    BY <1>a, <2>2
  <2>7. \A p \in Clients : InOff(p)' => Single(p)'
    <3> SUFFICES ASSUME NEW p \in Clients, InOff(p)' PROVE Single(p)'
      OBVIOUS
    <3>1. InOff(p) /\ sub'[p] = sub[p] /\ sub[p] \in Subs /\ Single(p)  BY <1>1, <1>a, <2>2
    <3>2. \A q \in Clients : InOff(q)' /\ sub'[q] = sub'[p] => InOff(q) /\ sub[q] = sub[p]
      BY <2>2, <3>1
    <3>3. Registered(sub[p])' <=> Registered(sub[p])  BY <2>1, <3>1
    <3>4. PICK r \in Subs : r = sub[p] /\ r = sub'[p]  BY <3>1
    <3>5. (Registered(sub[p]))' <=> Registered(sub[p])  BY <2>1, <3>4 DEF Registered
    <3> QED  BY <2>1, <2>2, <3>1, <3>2, <3>5
  <2> QED  BY <1>b, <2>3, <2>4, <2>5, <2>6, <2>7
\* A step of one caller p, about its subscription s, that ends in l.
<1> DEFINE Moved(p, l) == /\ pc'[p] = l /\ \A q \in Clients \ {p} : pc'[q] = pc[q] /\ sub'[q] = sub[q]
                          /\ \A q \in Clients \ {p} : InOff(q)' <=> InOff(q)
<1>d. ASSUME NEW p \in Clients, NEW l, pc' = [pc EXCEPT ![p] = l], UNCHANGED closer,
             sub' = sub \/ \E s : sub' = [sub EXCEPT ![p] = s]
      PROVE  Moved(p, l)
  <2>1. pc'[p] = l /\ \A q \in Clients \ {p} : pc'[q] = pc[q] /\ sub'[q] = sub[q]
    BY <1>0, <1>d
  <2> QED  BY <1>d, <2>1 DEF InOff
<1> HIDE DEF Moved
<1>3. ASSUME NEW p \in Clients, OnAdd(p) PROVE OnceInv'
  <2> DEFINE s == sub[p]
  <2>1. /\ s \in Subs /\ pc[p] = "on.add" /\ phase[s] = "starting"
        /\ pc' = [pc EXCEPT ![p] = "on.count"] /\ phase' = [phase EXCEPT ![s] = "added"]
        /\ \A r \in Subs : Registered(r)' <=> Registered(r) \/ r = s
        /\ UNCHANGED <<sub, closer, offCalls>>
    BY <1>3, CountFacts
  <2>2. Moved(p, "on.count")  BY <1>d, <2>1
  <2>3. phase'[s] = "added" /\ \A r \in Subs \ {s} : phase'[r] = phase[r]  BY <1>0, <2>1
  <2>4. ~InOff(p)' /\ ~InOff(p)  BY <2>1, <2>2 DEF InOff, OffPC, StopPC, Moved
  <2>5. \A r \in Subs : phase'[r] = "added" => \E q \in Clients : pc'[q] = "on.count" /\ sub'[q] = r
    <3> SUFFICES ASSUME NEW r \in Subs, phase'[r] = "added"
                 PROVE  \E q \in Clients : pc'[q] = "on.count" /\ sub'[q] = r
      OBVIOUS
    <3>1. CASE r = s  BY <2>1, <2>2, <3>1 DEF Moved
    <3>2. CASE r # s
      <4>1. PICK q \in Clients : pc[q] = "on.count" /\ sub[q] = r  BY <1>a, <2>3, <3>2
      <4>2. q # p  BY <2>1, <4>1
      <4> QED  BY <2>2, <4>1, <4>2 DEF Moved
    <3> QED  BY <3>1, <3>2
  <2>6. offCalls[s] = 0
    <3>1. ~(offCalls[s] > 0) /\ offCalls[s] \in Nat  BY <1>0, <1>a, <2>1
    <3> QED  BY <3>1
  <2>7. \A r \in Subs : /\ offCalls'[r] > 0 => phase'[r] = "open"
                        /\ phase'[r] \in Published /\ offCalls'[r] = 0 => Registered(r)'
    BY <1>a, <2>1, <2>3, <2>6
  <2>8. \A q \in Clients \ {p} : pc[q] = "on.count" => sub[q] # s /\ sub[q] \in Subs
    BY <1>1, <1>a, <2>1
  <2>9. \A q \in Clients : pc'[q] = "on.count" => phase'[sub'[q]] = "added"
    BY <1>a, <2>1, <2>2, <2>3, <2>8 DEF Moved
  <2>10. \A q, u \in Clients : pc'[q] = "on.count" /\ pc'[u] = "on.count" /\ sub'[q] = sub'[u] => q = u
    BY <1>a, <2>1, <2>2, <2>8 DEF Moved
  <2>11. \A q \in Clients : InOff(q)' => Single(q)'
    <3> SUFFICES ASSUME NEW q \in Clients, InOff(q)' PROVE Single(q)'
      OBVIOUS
    <3>1. q # p /\ InOff(q) /\ Single(q) /\ sub[q] \in Subs /\ sub[q] # s /\ pc'[q] = pc[q]
      BY <1>1, <1>a, <1>c, <2>1, <2>2, <2>4 DEF Moved
    <3>2. Registered(sub[q])' <=> Registered(sub[q])  BY <2>1, <3>1
    <3>3. \A u \in Clients : InOff(u)' => InOff(u)  BY <2>2, <2>4 DEF Moved
    <3>4. (Registered(sub[q]))' <=> Registered(sub[q])  BY <2>1, <3>1 DEF Registered
    <3> QED  BY <2>1, <3>1, <3>3, <3>4
  <2> QED  BY <1>b, <2>5, <2>7, <2>9, <2>10, <2>11
<1>4. ASSUME NEW p \in Clients, OnCount(p) PROVE OnceInv'
  <2> DEFINE s == sub[p]
  <2>1. /\ s \in Subs /\ pc[p] = "on.count" /\ phase[s] = "added"
        /\ pc' = [pc EXCEPT ![p] = "idle"] /\ phase' = [phase EXCEPT ![s] = "open"]
        /\ \A r \in Subs : Registered(r)' <=> Registered(r)
        /\ UNCHANGED <<sub, closer, offCalls>>
    BY <1>4, CountFacts
  <2>2. Moved(p, "idle")  BY <1>d, <2>1
  <2>3. phase'[s] = "open" /\ \A r \in Subs \ {s} : phase'[r] = phase[r]  BY <1>0, <2>1
  <2>4. ~InOff(p)' /\ ~InOff(p)  BY <2>1, <2>2 DEF InOff, OffPC, StopPC, Moved
  <2>5. \A r \in Subs : phase'[r] = "added" => \E q \in Clients : pc'[q] = "on.count" /\ sub'[q] = r
    <3> SUFFICES ASSUME NEW r \in Subs, phase'[r] = "added"
                 PROVE  \E q \in Clients : pc'[q] = "on.count" /\ sub'[q] = r
      OBVIOUS
    <3>1. r # s /\ phase[r] = "added"  BY <2>3
    <3>2. PICK q \in Clients : pc[q] = "on.count" /\ sub[q] = r  BY <1>a, <3>1
    <3>3. q # p  BY <3>1, <3>2
    <3> QED  BY <2>2, <3>2, <3>3 DEF Moved
  <2>6. offCalls[s] = 0
    <3>1. ~(offCalls[s] > 0) /\ offCalls[s] \in Nat  BY <1>0, <1>a, <2>1
    <3> QED  BY <3>1
  <2>7. \A r \in Subs : /\ offCalls'[r] > 0 => phase'[r] = "open"
                        /\ phase'[r] \in Published /\ offCalls'[r] = 0 => Registered(r)'
    BY <1>a, <2>1, <2>3, <2>6 DEF Published
  <2>8. \A q \in Clients \ {p} : pc[q] = "on.count" => sub[q] # s /\ sub[q] \in Subs
    BY <1>1, <1>a, <2>1
  <2>9. \A q \in Clients : pc'[q] = "on.count" => phase'[sub'[q]] = "added"
    BY <1>a, <2>1, <2>2, <2>3, <2>8 DEF Moved
  <2>10. \A q, u \in Clients : pc'[q] = "on.count" /\ pc'[u] = "on.count" /\ sub'[q] = sub'[u] => q = u
    BY <1>a, <2>1, <2>2, <2>8 DEF Moved
  <2>11. \A q \in Clients : InOff(q)' => Single(q)'
    <3> SUFFICES ASSUME NEW q \in Clients, InOff(q)' PROVE Single(q)'
      OBVIOUS
    <3>1. q # p /\ InOff(q) /\ Single(q) /\ sub[q] \in Subs /\ pc'[q] = pc[q]
      BY <1>1, <1>a, <2>2, <2>4 DEF Moved
    <3>2. Registered(sub[q])' <=> Registered(sub[q])  BY <2>1, <3>1
    <3>3. \A u \in Clients : InOff(u)' => InOff(u)  BY <2>2, <2>4 DEF Moved
    <3>4. (Registered(sub[q]))' <=> Registered(sub[q])  BY <2>1, <3>1 DEF Registered
    <3> QED  BY <2>1, <3>1, <3>3, <3>4
  <2> QED  BY <1>b, <2>5, <2>7, <2>9, <2>10, <2>11
<1>5. ASSUME NEW p \in Clients, NEW s \in Subs, OffBegin(p, s) PROVE OnceInv'
  <2>1. /\ pc[p] = "idle" /\ phase[s] = "open" /\ closer = None
        /\ pc' = [pc EXCEPT ![p] = "stop.cas"] /\ sub' = [sub EXCEPT ![p] = s]
        /\ offCalls' = [offCalls EXCEPT ![s] = @ + 1]
        /\ \A r \in Subs : Registered(r)' <=> Registered(r)
        /\ UNCHANGED <<phase, closer>>
    BY <1>5, CountFacts
  <2>2. Moved(p, "stop.cas") /\ sub'[p] = s  BY <1>0, <1>d, <2>1
  <2>3. offCalls'[s] = offCalls[s] + 1 /\ \A r \in Subs \ {s} : offCalls'[r] = offCalls[r]
    BY <1>0, <2>1
  <2>4. ~InOff(p)  BY <2>1 DEF InOff, OffPC, StopPC
  <2>5. \A q \in Clients : pc'[q] = "on.count" <=> pc[q] = "on.count" /\ q # p
    BY <2>1, <2>2 DEF Moved
  <2>6. \A q \in Clients : pc[q] = "on.count" => q # p /\ sub'[q] = sub[q]
    BY <2>1, <2>2 DEF Moved
  <2>7. \A r \in Subs : offCalls[r] \in Nat  BY <1>0
  <2>8. \A r \in Subs : /\ offCalls'[r] > 0 => phase'[r] = "open"
                        /\ phase'[r] \in Published /\ offCalls'[r] = 0 => Registered(r)'
    <3> SUFFICES ASSUME NEW r \in Subs
                 PROVE  /\ offCalls'[r] > 0 => phase'[r] = "open"
                        /\ phase'[r] \in Published /\ offCalls'[r] = 0 => Registered(r)'
      OBVIOUS
    <3>1. CASE r = s  BY <2>1, <2>3, <2>7, <3>1
    <3>2. CASE r # s  BY <1>a, <2>1, <2>3, <3>2
    <3> QED  BY <3>1, <3>2
  <2>9. \A r \in Subs : phase'[r] = "added" => \E q \in Clients : pc'[q] = "on.count" /\ sub'[q] = r
    BY <1>a, <2>1, <2>5, <2>6
  <2>10. \A q \in Clients : pc'[q] = "on.count" => phase'[sub'[q]] = "added"
    BY <1>a, <2>1, <2>5, <2>6
  <2>11. \A q, u \in Clients : pc'[q] = "on.count" /\ pc'[u] = "on.count" /\ sub'[q] = sub'[u] => q = u
    BY <1>a, <2>5, <2>6
  <2>12. ASSUME NEW q \in Clients, InOff(q)' PROVE Single(q)'
    <3>1. CASE q = p
      <4>1. sub'[q] = s /\ pc'[q] = "stop.cas" /\ offCalls'[s] > 0  BY <2>2, <2>3, <2>7, <3>1 DEF Moved
      <4>2. CASE offCalls[s] = 0
        <5>1. Registered(s)'  BY <1>a, <2>1, <4>2 DEF Published
        <5>2. \A u \in Clients : InOff(u) => sub[u] # s  BY <1>1, <1>a, <4>2
        <5>3. \A u \in Clients : InOff(u)' /\ sub'[u] = s => u = p  BY <2>2, <5>2 DEF Moved
        <5>4. (Registered(sub[q]))' BY <4>1, <5>1 DEF Registered
        <5> QED  BY <3>1, <4>1, <5>3, <5>4
      <4>3. CASE offCalls[s] # 0
        <5>1. offCalls'[s] # 1  BY <2>3, <2>7, <4>3
        <5> QED  BY <4>1, <5>1
      <4> QED  BY <4>2, <4>3
    <3>2. CASE q # p
      <4>1. InOff(q) /\ sub'[q] = sub[q] /\ pc'[q] = pc[q] /\ sub[q] \in Subs /\ Single(q)
        BY <1>1, <1>a, <2>2, <2>12, <3>2 DEF Moved
      <4>2. CASE sub[q] = s
        <5>1. offCalls'[s] > 0 /\ offCalls'[s] # 1  BY <2>3, <2>7, <4>1, <4>2
        <5> QED  BY <4>1, <4>2, <5>1
      <4>3. CASE sub[q] # s
        <5>1. offCalls'[sub[q]] = offCalls[sub[q]]  BY <2>3, <4>1, <4>3
        <5>2. (Registered(sub[q]))' <=> Registered(sub[q])  BY <2>1, <4>1 DEF Registered
        <5>3. \A u \in Clients : InOff(u)' /\ sub'[u] = sub[q] => InOff(u) /\ sub[u] = sub[q]
          BY <2>2, <4>3 DEF Moved
        <5> QED  BY <4>1, <5>1, <5>2, <5>3
      <4> QED  BY <4>2, <4>3
    <3> QED  BY <3>1, <3>2
  <2> QED  BY <1>b, <2>8, <2>9, <2>10, <2>11, <2>12
<1>6. ASSUME NEW p \in Clients, OffRemove(p) PROVE OnceInv'
  <2> DEFINE s == sub[p]
  <2>1. /\ s \in Subs /\ pc[p] = "off.remove" /\ pc' = [pc EXCEPT ![p] = "off.count"]
        /\ \A r \in Subs : Registered(r)' <=> Registered(r) /\ r # s
        /\ UNCHANGED <<sub, phase, closer, offCalls>>
    BY <1>6, CountFacts
  <2>2. Moved(p, "off.count")  BY <1>d, <2>1
  <2>3. InOff(p)' /\ InOff(p) /\ Single(p)  BY <1>a, <2>1, <2>2 DEF InOff, OffPC, Moved
  <2>4. \A q \in Clients : pc'[q] = "on.count" <=> pc[q] = "on.count"
    BY <2>1, <2>2 DEF Moved
  <2>5. \A r \in Subs : /\ offCalls'[r] > 0 => phase'[r] = "open"
                        /\ phase'[r] \in Published /\ offCalls'[r] = 0 => Registered(r)'
    BY <1>a, <2>1, <2>3
  <2>6. ASSUME NEW q \in Clients, InOff(q)' PROVE Single(q)'
    <3>1. InOff(q) /\ sub[q] \in Subs /\ Single(q)
      BY <1>1, <1>a, <2>2, <2>3, <2>6 DEF Moved
    <3>2. \A u \in Clients : InOff(u)' => InOff(u)  BY <2>2, <2>3 DEF Moved
    <3>3. (Registered(sub[q]))' <=> Registered(sub[q]) /\ sub[q] # s
      BY <2>1, <3>1 DEF Registered
    <3>4. CASE q = p  BY <2>1, <2>2, <3>1, <3>2, <3>3, <3>4 DEF Moved
    <3>5. CASE q # p
      <4>1. pc'[q] = pc[q]  BY <2>2, <3>5 DEF Moved
      <4>2. offCalls[sub[q]] = 1 => sub[q] # s  BY <2>3, <3>1, <3>5
      <4> QED  BY <2>1, <3>1, <3>2, <3>3, <4>1, <4>2
    <3> QED  BY <3>4, <3>5
  <2> QED  BY <1>a, <1>b, <2>1, <2>4, <2>5, <2>6
<1>7. ASSUME NEW p \in Clients, OffCount(p) PROVE OnceInv'
  <2> DEFINE s == sub[p]
  <2>1. /\ s \in Subs /\ pc[p] = "off.count" /\ pc' = [pc EXCEPT ![p] = "idle"]
        /\ \A r \in Subs : Registered(r)' <=> Registered(r)
        /\ UNCHANGED <<sub, phase, closer, offCalls>>
    BY <1>7, CountFacts
  <2>2. Moved(p, "idle")  BY <1>d, <2>1
  <2>3. ~InOff(p)'  BY <2>2 DEF InOff, OffPC, StopPC, Moved
  <2>4. \A q \in Clients : pc'[q] = "on.count" <=> pc[q] = "on.count"
    BY <2>1, <2>2 DEF Moved
  <2>5. \A r \in Subs : /\ offCalls'[r] > 0 => phase'[r] = "open"
                        /\ phase'[r] \in Published /\ offCalls'[r] = 0 => Registered(r)'
    BY <1>a, <2>1
  <2>6. ASSUME NEW q \in Clients, InOff(q)' PROVE Single(q)'
    <3>1. q # p /\ InOff(q) /\ sub[q] \in Subs /\ Single(q) /\ pc'[q] = pc[q]
      BY <1>1, <1>a, <2>2, <2>3, <2>6 DEF Moved
    <3>2. \A u \in Clients : InOff(u)' => InOff(u)  BY <2>2, <2>3 DEF Moved
    <3>3. (Registered(sub[q]))' <=> Registered(sub[q])  BY <2>1, <3>1 DEF Registered
    <3> QED  BY <2>1, <3>1, <3>2, <3>3
  <2> QED  BY <1>a, <1>b, <2>1, <2>4, <2>5, <2>6
<1> QED  BY <1>0, <1>2, <1>3, <1>4, <1>5, <1>6, <1>7, CountKinds


\* The subscriptions of topic t that the metric counts.
CountedSubs(t) == {s \in Subs : SubTopic[s] = t /\ InCount(s)}

\* A metric moves with the subscriptions it counts.
LEMMA CountMoves ==
  ASSUME NEW t \in Topics, subscribed \in [Topics -> Nat],
         \/ CountedSubs(t)' = CountedSubs(t) /\ subscribed'[t] = subscribed[t]
         \/ \E s \in Subs \ CountedSubs(t) :
              CountedSubs(t)' = CountedSubs(t) \cup {s} /\ subscribed'[t] = subscribed[t] + 1
         \/ \E s \in CountedSubs(t) :
              /\ CountedSubs(t)' = CountedSubs(t) \ {s}
              /\ subscribed'[t] = IF subscribed[t] > 0 THEN subscribed[t] - 1 ELSE subscribed[t],
         subscribed[t] = Cardinality(CountedSubs(t))
  PROVE  subscribed'[t] = Cardinality(CountedSubs(t))'
<1>1. IsFiniteSet(CountedSubs(t)) /\ Cardinality(CountedSubs(t)) \in Nat
  <2>1. CountedSubs(t) \in SUBSET Subs /\ IsFiniteSet(Subs)
    BY Sizes DEF CountedSubs
  <2> QED  BY <2>1, FS_Subset, FS_CardinalityType
<1>2. CASE CountedSubs(t)' = CountedSubs(t) /\ subscribed'[t] = subscribed[t]
  BY <1>2
<1>3. ASSUME NEW s \in Subs \ CountedSubs(t),
             CountedSubs(t)' = CountedSubs(t) \cup {s}, subscribed'[t] = subscribed[t] + 1
      PROVE  subscribed'[t] = Cardinality(CountedSubs(t))'
  <2>1. Cardinality(CountedSubs(t) \cup {s}) = Cardinality(CountedSubs(t)) + 1
    BY <1>1, FS_AddElement
  <2> QED  BY <1>3, <2>1
<1>4. ASSUME NEW s \in CountedSubs(t), CountedSubs(t)' = CountedSubs(t) \ {s},
             subscribed'[t] = IF subscribed[t] > 0 THEN subscribed[t] - 1 ELSE subscribed[t]
      PROVE  subscribed'[t] = Cardinality(CountedSubs(t))'
  <2>1. Cardinality(CountedSubs(t) \ {s}) = Cardinality(CountedSubs(t)) - 1
    BY <1>1, FS_RemoveElement
  <2>2. CountedSubs(t) # {}  BY <1>4
  <2>3. Cardinality(CountedSubs(t)) # 0  BY <1>1, <2>2, FS_EmptySet
  <2> QED  BY <1>1, <1>4, <2>1, <2>3
<1> QED  BY <1>2, <1>3, <1>4

\* Every step keeps CountInv.
LEMMA CountStep ==
  ASSUME BusTypes, CallInv, RegistryInv, CloseInv, OnceInv, CountInv, Next
  PROVE  CountInv'
<1>0. /\ phase \in [Subs -> {"fresh", "starting", "added", "open", "failed"}]
      /\ pc \in [Clients -> Labels] /\ sub \in [Clients -> Subs \cup {None}]
      /\ \A s \in Subs : SubTopic[s] \in Topics
      /\ subscribed \in [Topics -> Nat] /\ offCalls \in [Subs -> Nat]
      /\ \A u \in Topics : \A s \in Range(subscribers[u]) : SubTopic[s] = u
  BY CallTypes DEF BusTypes, RegistryInv
<1>1. SUFFICES ASSUME EnableMetrics, NEW t \in Topics,
                      \A s \in Subs : SubTopic[s] = t => offCalls'[s] <= 1
               PROVE  subscribed'[t] = Cardinality(CountedSubs(t))'
  BY DEF CountInv, CountedSubs
<1>2. \A s \in Subs : SubTopic[s] = t => offCalls[s] <= 1
  <2>1. \A s \in Subs : offCalls[s] \in Nat /\ (offCalls'[s] = offCalls[s] \/ offCalls'[s] = offCalls[s] + 1)
    <3>1. CASE CountStill  BY <1>0, <3>1 DEF CountStill
    <3>2. ASSUME NEW p \in Clients, OnAdd(p) \/ OnCount(p) \/ OffRemove(p) \/ OffCount(p)
          PROVE  UNCHANGED offCalls
      BY <3>2, CountFacts
    <3>3. ASSUME NEW p \in Clients, NEW s \in Subs, OffBegin(p, s)
          PROVE  offCalls' = [offCalls EXCEPT ![s] = @ + 1]
      BY <3>3, CountFacts
    <3> QED  BY <1>0, <3>1, <3>2, <3>3, CountKinds
  <2> QED  BY <1>1, <2>1
<1>3. subscribed[t] = Cardinality(CountedSubs(t))
  BY <1>1, <1>2 DEF CountInv, CountedSubs
\* It is enough to see which subscriptions come into the count and which leave it.
<1>a. ASSUME \A s \in Subs : SubTopic[s] = t => (InCount(s)' <=> InCount(s)),
             subscribed'[t] = subscribed[t]
      PROVE  subscribed'[t] = Cardinality(CountedSubs(t))'
  <2>1. CountedSubs(t)' = CountedSubs(t)  BY <1>a DEF CountedSubs
  <2> QED  BY <1>0, <1>3, <1>a, <2>1, CountMoves
<1>b. \A s \in Subs : offCalls[s] > 0 => phase[s] = "open"  BY DEF OnceInv
<1>4. CASE CountStill
  <2>1. \A s \in Subs : (Registered(s)' <=> Registered(s)) /\ (phase'[s] = "open" <=> phase[s] = "open")
    BY <1>4 DEF CountStill, Registered, Published
  <2>2. \A p \in Clients : pc[p] = "off.count" => InOff(p)  BY DEF InOff, OffPC
  <2>3. \A p \in Clients, s \in Subs :
          pc'[p] = "off.count" /\ sub'[p] = s <=> pc[p] = "off.count" /\ sub[p] = s
    BY <1>4, <2>2 DEF CountStill
  <2>4. \A s \in Subs : InCount(s)' <=> InCount(s)  BY <2>1, <2>3 DEF InCount
  <2> QED  BY <1>4, <1>a, <2>4 DEF CountStill
<1>5. ASSUME NEW p \in Clients, OnAdd(p) PROVE subscribed'[t] = Cardinality(CountedSubs(t))'
  <2>1. /\ sub[p] \in Subs /\ pc[p] = "on.add" /\ phase[sub[p]] = "starting"
        /\ pc' = [pc EXCEPT ![p] = "on.count"] /\ phase' = [phase EXCEPT ![sub[p]] = "added"]
        /\ \A s \in Subs : Registered(s)' <=> Registered(s) \/ s = sub[p]
        /\ UNCHANGED <<sub, subscribed>>
    BY <1>5, CountFacts
  <2>2. \A q \in Clients : pc'[q] = "off.count" <=> pc[q] = "off.count"  BY <1>0, <2>1
  <2>3. \A s \in Subs : phase'[s] = "open" <=> phase[s] = "open"  BY <1>0, <2>1
  <2>4. \A s \in Subs : InCount(s)' <=> InCount(s)  BY <2>1, <2>2, <2>3 DEF InCount
  <2> QED  BY <1>a, <2>1, <2>4
<1>6. ASSUME NEW p \in Clients, OnCount(p) PROVE subscribed'[t] = Cardinality(CountedSubs(t))'
  <2> DEFINE s == sub[p]
  <2>1. /\ s \in Subs /\ pc[p] = "on.count" /\ phase[s] = "added"
        /\ pc' = [pc EXCEPT ![p] = "idle"] /\ phase' = [phase EXCEPT ![s] = "open"]
        /\ \A r \in Subs : Registered(r)' <=> Registered(r)
        /\ UNCHANGED sub
    BY <1>6, CountFacts
  <2>2. subscribed' = [subscribed EXCEPT ![SubTopic[s]] = @ + 1]  BY <1>1, <1>6 DEF OnCount
  <2>3. \A q \in Clients : pc'[q] = "off.count" <=> pc[q] = "off.count"  BY <1>0, <2>1
  <2>4. \A r \in Subs \ {s} : InCount(r)' <=> InCount(r)  BY <1>0, <2>1, <2>3 DEF InCount
  <2>5. offCalls[s] = 0
    <3>1. ~(offCalls[s] > 0)  BY <1>b, <2>1
    <3> QED  BY <1>0, <2>1, <3>1
  <2>6. Registered(s)  BY <2>1, <2>5 DEF OnceInv, Published
  <2>7. InCount(s)' /\ ~InCount(s)
    <3>1. phase'[s] = "open"  BY <1>0, <2>1
    <3>2. Registered(s)'  BY <2>1, <2>6
    <3>3. ~InCount(s)  BY <2>1 DEF InCount
    <3>4. PICK r \in Subs : r = s /\ r = sub[p] /\ r = sub'[p]  BY <2>1
    <3>5. InCount(r)'  BY <2>1, <2>6, <3>1, <3>4 DEF InCount
    <3> QED  BY <2>1, <3>3, <3>4, <3>5 DEF InCount, Registered
  <2>8. CASE SubTopic[s] = t
    <3>1. s \in Subs \ CountedSubs(t) /\ CountedSubs(t)' = CountedSubs(t) \cup {s}
      BY <2>1, <2>4, <2>7, <2>8 DEF CountedSubs
    <3>2. subscribed'[t] = subscribed[t] + 1  BY <1>0, <2>2, <2>8
    <3> QED  BY <1>0, <1>3, <3>1, <3>2, CountMoves
  <2>9. CASE SubTopic[s] # t
    <3>1. subscribed'[t] = subscribed[t]  BY <1>0, <2>2, <2>9
    <3> QED  BY <1>a, <2>4, <2>9, <3>1
  <2> QED  BY <2>8, <2>9
<1>7. ASSUME NEW p \in Clients, NEW s \in Subs, OffBegin(p, s)
      PROVE  subscribed'[t] = Cardinality(CountedSubs(t))'
  <2>1. /\ pc[p] = "idle" /\ pc' = [pc EXCEPT ![p] = "stop.cas"] /\ sub' = [sub EXCEPT ![p] = s]
        /\ \A r \in Subs : Registered(r)' <=> Registered(r)
        /\ UNCHANGED <<phase, subscribed>>
    BY <1>7, CountFacts
  <2>2. \A q \in Clients, r \in Subs : pc'[q] = "off.count" /\ sub'[q] = r <=> pc[q] = "off.count" /\ sub[q] = r
    BY <1>0, <2>1
  <2>3. \A r \in Subs : InCount(r)' <=> InCount(r)  BY <2>1, <2>2 DEF InCount
  <2> QED  BY <1>a, <2>1, <2>3
<1>8. ASSUME NEW p \in Clients, OffRemove(p) PROVE subscribed'[t] = Cardinality(CountedSubs(t))'
  <2> DEFINE s == sub[p]
  <2>1. /\ s \in Subs /\ pc[p] = "off.remove" /\ pc' = [pc EXCEPT ![p] = "off.count"]
        /\ \A r \in Subs : Registered(r)' <=> Registered(r) /\ r # s
        /\ UNCHANGED <<sub, phase, offCalls, subscribed>>
    BY <1>8, CountFacts
  <2>2. InOff(p)  BY <2>1 DEF InOff, OffPC
  <2>3. offCalls[s] > 0 /\ (offCalls[s] = 1 => Registered(s))  BY <2>1, <2>2 DEF OnceInv
  <2>4. pc'[p] = "off.count" /\ \A q \in Clients \ {p} : pc'[q] = pc[q]  BY <1>0, <2>1
  <2>5. \A r \in Subs \ {s} : InCount(r)' <=> InCount(r)
    <3>1. \A r \in Subs \ {s}, q \in Clients : pc'[q] = "off.count" /\ sub[q] = r <=> pc[q] = "off.count" /\ sub[q] = r
      BY <2>1, <2>4
    <3> QED  BY <2>1, <3>1 DEF InCount
  <2>6. SubTopic[s] = t => InCount(s) /\ InCount(s)'
    <3> SUFFICES ASSUME SubTopic[s] = t PROVE InCount(s) /\ InCount(s)'
      OBVIOUS
    <3>1. offCalls[s] = 1  BY <1>0, <1>2, <2>1, <2>3
    <3>2. phase[s] = "open"  BY <1>b, <2>1, <2>3
    <3>3. InCount(s)  BY <2>3, <3>1, <3>2 DEF InCount
    <3>4. InCount(s)'  BY <2>1, <2>4, <3>2 DEF InCount
    <3> QED  BY <3>3, <3>4
  <2>7. \A r \in Subs : SubTopic[r] = t => (InCount(r)' <=> InCount(r))
    <3> SUFFICES ASSUME NEW r \in Subs, SubTopic[r] = t PROVE InCount(r)' <=> InCount(r)
      OBVIOUS
    <3>1. CASE r # s  BY <2>5, <3>1
    <3>2. CASE r = s
      <4>1. InCount(r)  BY <2>6, <3>2 DEF InCount, Registered
      <4>2. InCount(r)'
        <5>1. phase[r] = "open"  BY <4>1 DEF InCount
        <5> QED  BY <2>1, <2>4, <3>2, <5>1 DEF InCount
      <4> QED  BY <4>1, <4>2
    <3> QED  BY <3>1, <3>2
  <2> QED  BY <1>a, <2>1, <2>7
<1>9. ASSUME NEW p \in Clients, OffCount(p) PROVE subscribed'[t] = Cardinality(CountedSubs(t))'
  <2> DEFINE s == sub[p]
  <2>1. /\ s \in Subs /\ pc[p] = "off.count" /\ pc' = [pc EXCEPT ![p] = "idle"]
        /\ \A r \in Subs : Registered(r)' <=> Registered(r)
        /\ UNCHANGED <<sub, phase, offCalls>>
    BY <1>9, CountFacts
  <2>2. /\ s \in Subs
        /\ subscribed' = IF subscribed[SubTopic[s]] > 0 THEN [subscribed EXCEPT ![SubTopic[s]] = @ - 1]
                                                         ELSE subscribed
    BY <1>1, <1>9, <2>1 DEF OffCount
  <2>3. InOff(p)  BY <2>1 DEF InOff, OffPC
  <2>4. pc'[p] = "idle" /\ \A q \in Clients \ {p} : pc'[q] = pc[q]  BY <1>0, <2>1
  <2>5. \A r \in Subs \ {s} : InCount(r)' <=> InCount(r)
    <3>1. \A r \in Subs \ {s}, q \in Clients : pc'[q] = "off.count" /\ sub[q] = r <=> pc[q] = "off.count" /\ sub[q] = r
      BY <2>1, <2>4
    <3> QED  BY <2>1, <3>1 DEF InCount
  <2>6. CASE SubTopic[s] # t
    <3>1. subscribed'[t] = subscribed[t]  BY <1>0, <2>2, <2>6
    <3> QED  BY <1>a, <2>5, <2>6, <3>1
  <2>7. CASE SubTopic[s] = t
    <3>1. /\ offCalls[s] > 0 /\ phase[s] = "open"
          /\ offCalls[s] = 1 => /\ ~Registered(s)
                                /\ \A q \in Clients : InOff(q) /\ sub[q] = s => q = p
      BY <1>b, <2>1, <2>3 DEF OnceInv
    <3>2. offCalls[s] = 1  BY <1>0, <1>2, <2>1, <2>7, <3>1
    <3>3. s \in CountedSubs(t)  BY <2>1, <2>7, <3>1 DEF CountedSubs, InCount
    <3>4. PICK r \in Subs : r = s  BY <2>1
    <3>5. ~InCount(r)'
      <4>1. ~Registered(r)'  BY <2>1, <3>1, <3>2, <3>4 DEF Registered
      <4>2. \A q \in Clients : pc[q] = "off.count" /\ sub[q] = r => q = p
        BY <3>1, <3>2, <3>4 DEF InOff, OffPC
      <4> QED  BY <2>1, <2>4, <4>1, <4>2 DEF InCount
    <3>6. CountedSubs(t)' = CountedSubs(t) \ {s}
      <4>1. \A u \in Subs : u \in CountedSubs(t)' <=> u \in CountedSubs(t) /\ u # s
        BY <2>5, <3>4, <3>5 DEF CountedSubs
      <4> QED  BY <4>1 DEF CountedSubs
    <3>7. subscribed'[t] = IF subscribed[t] > 0 THEN subscribed[t] - 1 ELSE subscribed[t]
      BY <1>0, <2>2, <2>7
    <3> QED  BY <1>0, <1>3, <3>3, <3>6, <3>7, CountMoves
  <2> QED  BY <2>6, <2>7
<1> QED  BY <1>0, <1>4, <1>5, <1>6, <1>7, <1>8, <1>9, CountKinds


------------------------------------------------------------------------------
(* The theorems about the subscribed metric *)

\* Nothing is counted or registered at first.
LEMMA InitMetric == Init => MetricInv
<1> SUFFICES ASSUME Init PROVE MetricInv
  OBVIOUS
<1>1. \A s \in Subs : ~Registered(s) /\ phase[s] = "fresh"
  BY Sizes DEF Init, Registered, Range
<1>2. OnceInv  BY <1>1 DEF Init, OnceInv, Published, InOff, OffPC, StopPC
<1>3. CountInv
  <2>1. \A t \in Topics : {s \in Subs : SubTopic[s] = t /\ InCount(s)} = {}
    BY <1>1 DEF InCount
  <2> QED  BY <2>1, FS_EmptySet DEF Init, CountInv
<1> QED  BY <1>2, <1>3 DEF MetricInv

\* MetricInv is inductive on top of LifeInv.
LEMMA NextMetric == LifeInv /\ MetricInv /\ [Next]_vars => MetricInv'
<1> SUFFICES ASSUME LifeInv, MetricInv, [Next]_vars PROVE MetricInv'
  OBVIOUS
<1>1. CASE Next
  BY <1>1, OnceStep, CountStep DEF LifeInv, MetricInv
<1>2. CASE UNCHANGED vars
  <2>1. UNCHANGED <<closer, subscribers, phase, offCalls, pc, sub, subscribed>>
    BY <1>2 DEF vars, busVars, subVars, callVars, metricVars
  <2>2. OnceInv'  BY <2>1 DEF MetricInv, OnceInv, InOff, Registered
  <2>3. CountInv'  BY <2>1 DEF MetricInv, CountInv, InCount, Registered
  <2> QED  BY <2>2, <2>3 DEF MetricInv
<1> QED  BY <1>1, <1>2

\* One On call counts a subscription after it has listed it, and the first Off of it
\* takes it off the list and then out of the count.
THEOREM MetricInvariant == Spec => []MetricInv
BY InitMetric, NextMetric, LifeInvariant, PTL DEF Spec

\* Between calls the subscribed metric of a topic is the length of the topic's
\* list, unless a subscription of the topic was given to Off twice.
THEOREM SubscribedCounts == Spec => []SubscribedAgrees
<1>1. LifeInv /\ MetricInv => SubscribedAgrees
  <2> SUFFICES ASSUME LifeInv, MetricInv, EnableMetrics, NEW t \in Topics,
                      \A p \in Clients : pc[p] = "idle",
                      \A s \in Subs : SubTopic[s] = t => offCalls[s] <= 1
               PROVE  subscribed[t] = Len(subscribers[t])
    BY DEF SubscribedAgrees
  <2>1. /\ subscribers[t] \in Seq(Subs) /\ IsInjective(subscribers[t])
        /\ \A s \in Range(subscribers[t]) : SubTopic[s] = t /\ phase[s] \in Published
    BY CallTypes DEF LifeInv, RegistryInv
  <2>2. Range(subscribers[t]) \subseteq Subs  BY <2>1 DEF Range
  <2>3. \A s \in Subs : phase[s] # "added"  BY DEF MetricInv, OnceInv
  <2>4. {s \in Subs : SubTopic[s] = t /\ InCount(s)} = Range(subscribers[t])
    <3>1. \A s \in Subs : SubTopic[s] = t /\ InCount(s) => s \in Range(subscribers[t])
      BY DEF InCount, Registered
    <3>2. \A s \in Range(subscribers[t]) : s \in Subs /\ SubTopic[s] = t /\ InCount(s)
      BY <2>1, <2>2, <2>3 DEF InCount, Registered, Published
    <3> QED  BY <3>1, <3>2
  <2>5. subscribed[t] = Cardinality({s \in Subs : SubTopic[s] = t /\ InCount(s)})
    BY DEF MetricInv, CountInv
  <2>6. Cardinality(Range(subscribers[t])) = Len(subscribers[t])
    BY <2>1, LenDistinct
  <2> QED  BY <2>4, <2>5, <2>6
<1> QED  BY <1>1, LifeInvariant, MetricInvariant, PTL

===============================================================================
