-------------------------- MODULE MemoryBusCloseProofs --------------------------
(***************************************************************************)
(* What Close owes the subscriptions, and that the subscriber manager      *)
(* lists those that are active: the inductive invariant is ActiveInv and   *)
(* CloseInv, on top of StopInv and FateInv.  Then that the history and the *)
(* metrics tell what happened: MetricInv, on top of all of these.          *)
(***************************************************************************)
EXTENDS MemoryBusFateProofs

USE DEF At, Goto

------------------------------------------------------------------------------
(* The inductive invariant behind RegistryTracksActive and CloseStopsOpen *)

BeingStopped(s) == \E p \in Callers : Stopping(p, s)
Leaving(s) == \E p \in Callers : sub[p] = s /\ pc[p] \in StopPC \cup {"off.remove"}

\* A subscription is active, and registered, from its On to the stop that begins
\* its end, and whoever wins that stop sees it through.
ActiveInv ==
  /\ \A s \in Subs :
       /\ phase[s] = "starting" => active[s]
       /\ phase[s] \in Published /\ active[s] => Registered(s)
       /\ phase[s] \in Published /\ ~active[s] => chClosed[s] \/ BeingStopped(s)
       /\ Registered(s) /\ ~active[s] => Closed \/ Leaving(s)
  /\ \A p \in Callers : pc[p] \in OffPC =>
       phase[sub[p]] \in Published /\ ~active[sub[p]]

\* A subscription that Close owes a stop is on its list, or about to be, until it
\* is inactive.
CloseInv ==
  /\ \A p \in Callers : pc[p] \in ClosePC => p = closer
  /\ poolClosed => Closed /\ At(closer, "idle")
  /\ \A s \in openAtClose : Closed /\ phase[s] = "open"
  /\ Closed => \A s \in openAtClose : active[s] =>
       \/ At(closer, "close.collect")
       \/ pc[closer] \in StopPC \cup {"close.next"} /\ s \in closing
       \/ At(closer, "stop.cas") /\ sub[closer] = s

------------------------------------------------------------------------------
(* The steps *)

\* Labels outside the stop of a subscription, Off and Close.
Outside == {"idle"} \cup EmitPC \cup OnPC

\* No subscription and no Close is touched, and on a closed bus no call begins.
Aside ==
  /\ UNCHANGED <<phase, active, chClosed, sub, subscribers, closer, poolClosed, closing,
                 openAtClose>>
  /\ \A p \in Callers : \/ pc'[p] = pc[p]
                        \/ /\ pc[p] \in Outside /\ pc'[p] \in Outside
                           /\ pc[p] = "idle" => ~Closed

\* The steps that are not aside.
LifeStep(p) ==
  \/ \E s \in Subs : OnBegin(p, s) \/ OffBegin(p, s)
  \/ OnAdd(p) \/ OnCount(p) \/ StopCas(p) \/ StopSignal(p) \/ StopWait(p)
  \/ OffRemove(p) \/ OffCount(p)
  \/ CloseBegin(p) \/ CloseCollect(p) \/ CloseNext(p) \/ CloseRelease(p)

\* Every step is one of the life of a subscription, or leaves it alone.
LEMMA AsideOrLife ==
  ASSUME TypeOK, Next
  PROVE  Aside \/ \E p \in Callers : LifeStep(p)
<1>0. pc \in [Callers -> {"idle"} \cup EmitPC \cup OnPC \cup StopPC \cup OffPC \cup ClosePC]
  BY DEF TypeOK, CallTypes
<1>a. ASSUME NEW p \in Callers, NEW l \in Outside, Goto(p, l), pc[p] \in Outside,
             pc[p] = "idle" => ~Closed,
             UNCHANGED <<phase, active, chClosed, sub, subscribers, closer, poolClosed, closing,
                         openAtClose>>
      PROVE  Aside
  BY <1>0, <1>a DEF Aside
<1>b. ASSUME UNCHANGED <<phase, active, chClosed, sub, subscribers, closer, poolClosed, closing,
                         openAtClose, pc>>
      PROVE  Aside
  BY <1>b DEF Aside
<1>1. ASSUME NEW p \in Callers, NEW e \in Events, EmitBegin(p, e) PROVE Aside
  BY <1>1, <1>a DEF EmitBegin, MayCall, busVars, subVars, Outside, EmitPC
<1>2. ASSUME NEW p \in Callers, EmitNext(p) PROVE Aside
  <2>1. pc[p] \in EmitPC /\ (UNCHANGED pc \/ \E l \in {"idle"} \cup EmitPC : Goto(p, l))
    BY <1>2 DEF EmitNext, EmitRecord, EmitCount, EmitLookup, EmitSubmit, EmitAcquire, EmitPC
  <2>2. UNCHANGED <<closer, poolClosed, subscribers, closing, openAtClose, subVars, sub>>
    BY <1>2 DEF EmitNext, EmitRecord, EmitCount, EmitLookup, EmitSubmit, EmitAcquire, busVars
  <2> QED  BY <2>1, <2>2, <1>a, <1>b DEF subVars, Outside, EmitPC
<1>3. ASSUME NEW p \in Callers, OnSubmit(p) \/ OnAcquire(p) PROVE Aside
  <2>1. pc[p] \in StartPC /\ (UNCHANGED pc \/ \E l \in StartPC : Goto(p, l))
    BY <1>3 DEF OnSubmit, OnAcquire, StartPC
  <2>2. UNCHANGED <<closer, poolClosed, subscribers, closing, openAtClose, phase, active,
                    chClosed, sub>>
    BY <1>3 DEF OnSubmit, OnAcquire, busVars
  <2> QED  BY <2>1, <2>2, <1>a, <1>b DEF Outside, OnPC, StartPC
<1>4. ASSUME NEW e \in Events, DeliverNext(e) PROVE Aside
  BY <1>4 DEF DeliverNext, DeliverCheck, DeliverSend, DeliverRefuse, DeliverPanic, DeliverDone,
              DeliverHandoff, Delivered, busVars, subVars, callVars, Aside
<1>5. ASSUME NEW w \in Workers, LoopStep(w) \/ HandlerStep(w) \/ HandlerPanics(w) PROVE Aside
  BY <1>5 DEF LoopStep, HandlerStep, WorkerReceive, WorkerQuit, BackoffElapses, BackoffStopped,
              HandlerSucceeds, HandlerFails, HandlerPanics, Exit, busVars, subVars, callVars, Aside
<1>6. ASSUME Rest PROVE Aside
  <2>1. UNCHANGED <<busVars, subVars, callVars>>  BY <1>6 DEF Rest, vars
  <2> QED  BY <2>1 DEF busVars, subVars, callVars, Aside
<1>7. ASSUME NEW p \in Callers, PoolSleep(p) \/ PoolWakes(p) PROVE Aside
  BY <1>7, <1>b DEF PoolSleep, PoolWakes, subVars, callVars
<1> QED
  BY <1>1, <1>2, <1>3, <1>4, <1>5, <1>6, <1>7
  DEF Next, CallBegin, CallStep, OnNext, StopNext, OffNext, CloseNextStep, LifeStep

\* Every step keeps ActiveInv.
LEMMA ActiveStep ==
  ASSUME StopInv, ListInv, EmitInv, ActiveInv, CloseInv, Next
  PROVE  ActiveInv'
<1>0. /\ pc \in [Callers -> {"idle"} \cup EmitPC \cup OnPC \cup StopPC \cup OffPC \cup ClosePC]
      /\ sub \in [Callers -> Subs \cup {None}]
      /\ \A p \in Callers : pc[p] \in OnPC \cup StopPC \cup OffPC => sub[p] \in Subs
      /\ phase \in [Subs -> {"fresh", "starting", "added", "open"}]
      /\ active \in [Subs -> BOOLEAN] /\ chClosed \in [Subs -> BOOLEAN]
      /\ subscribers \in [Topics -> Seq(Subs)] /\ SubTopic \in [Subs -> Topics]
      /\ TypeOK /\ StartInv
  BY Sizes DEF StopInv, TypeOK, CallTypes, SubTypes, BusTypes
<1>a. \A s \in Subs : SubTopic[s] \in Topics /\ subscribers[SubTopic[s]] \in Seq(Subs)
  BY <1>0
\* A step that leaves the lists and the flags alone.
<1>b. ASSUME UNCHANGED <<subscribers, active>>, Closed => Closed',
             \A s \in Subs : /\ phase'[s] = phase[s] \/ {phase'[s], phase[s]} \subseteq Published
                             /\ chClosed[s] => chClosed'[s]
                             /\ BeingStopped(s) => BeingStopped(s)' \/ chClosed'[s]
                             /\ Leaving(s) => Leaving(s)' \/ Closed',
             \A p \in Callers : pc'[p] \in OffPC =>
               /\ phase[sub'[p]] \in Published /\ ~active[sub'[p]] /\ sub'[p] \in Subs
      PROVE  ActiveInv'
  BY <1>b DEF ActiveInv, Registered, Published
<1>1. CASE Aside
  <2>1. \A p \in Callers, l \in StopPC \cup OffPC : pc'[p] = l <=> pc[p] = l
    BY <1>0, <1>1 DEF Aside, Outside, EmitPC, OnPC, StartPC, StopPC, OffPC
  <2>2. UNCHANGED <<phase, active, chClosed, sub, subscribers, closer>>
    BY <1>1 DEF Aside
  <2>3. \A s \in Subs : BeingStopped(s) => BeingStopped(s)'
    BY <2>1, <2>2 DEF BeingStopped, Stopping, StopPC
  <2>4. \A s \in Subs : Leaving(s) => Leaving(s)'
    BY <2>1, <2>2 DEF Leaving, StopPC, OffPC
  <2>5. \A p \in Callers : pc'[p] \in OffPC => pc[p] \in OffPC  BY <2>1 DEF OffPC
  <2> QED  BY <1>0, <1>b, <2>2, <2>3, <2>4, <2>5 DEF ActiveInv, Closed
\* A step of one caller that is in no stop before it, or after it.
<1>c. ASSUME NEW p \in Callers, NEW l \in {"idle"} \cup EmitPC \cup OnPC \cup StopPC \cup OffPC \cup ClosePC,
             Goto(p, l), \A q \in Callers \ {p} : sub'[q] = sub[q]
      PROVE  /\ pc'[p] = l /\ \A q \in Callers \ {p} : pc'[q] = pc[q]
             /\ \A s \in Subs : BeingStopped(s) => BeingStopped(s)' \/ Stopping(p, s)
             /\ \A s \in Subs : Leaving(s) => Leaving(s)' \/ (sub[p] = s /\ pc[p] \in StopPC \cup {"off.remove"})
             /\ \A s \in Subs : sub'[p] = s /\ l \in {"stop.signal", "stop.wait"} => BeingStopped(s)'
             /\ \A s \in Subs : sub'[p] = s /\ l \in StopPC \cup {"off.remove"} => Leaving(s)'
  <2>1. pc'[p] = l /\ \A q \in Callers \ {p} : pc'[q] = pc[q]  BY <1>0, <1>c
  <2> QED  BY <1>c, <2>1 DEF BeingStopped, Leaving, Stopping
<1>d. ASSUME NEW p \in Callers, NEW l \in {"idle"} \cup EmitPC \cup OnPC \cup StopPC \cup OffPC \cup ClosePC,
             Goto(p, l), \A q \in Callers \ {p} : sub'[q] = sub[q],
             UNCHANGED <<subscribers, active>>, Closed => Closed',
             \A s \in Subs : /\ phase'[s] = phase[s] \/ {phase'[s], phase[s]} \subseteq Published
                             /\ chClosed[s] => chClosed'[s],
             l \in OffPC => /\ sub'[p] = sub[p] /\ sub[p] \in Subs
                            /\ phase[sub[p]] \in Published /\ ~active[sub[p]],
             pc[p] \in {"stop.signal", "stop.wait"} =>
               (sub'[p] = sub[p] /\ l \in {"stop.signal", "stop.wait"}) \/ chClosed'[sub[p]],
             pc[p] \in StopPC \cup {"off.remove"} =>
               (sub'[p] = sub[p] /\ l \in StopPC \cup {"off.remove"}) \/ Closed'
      PROVE  ActiveInv'
  <2>1. /\ pc'[p] = l /\ \A q \in Callers \ {p} : pc'[q] = pc[q] /\ sub'[q] = sub[q]
        /\ \A s \in Subs : BeingStopped(s) => BeingStopped(s)' \/ Stopping(p, s)
        /\ \A s \in Subs : Leaving(s) => Leaving(s)' \/ (sub[p] = s /\ pc[p] \in StopPC \cup {"off.remove"})
        /\ \A s \in Subs : sub'[p] = s /\ l \in {"stop.signal", "stop.wait"} => BeingStopped(s)'
        /\ \A s \in Subs : sub'[p] = s /\ l \in StopPC \cup {"off.remove"} => Leaving(s)'
    BY <1>c, <1>d
  <2>2. \A s \in Subs : BeingStopped(s) => BeingStopped(s)' \/ chClosed'[s]
    BY <1>d, <2>1 DEF Stopping
  <2>3. \A s \in Subs : Leaving(s) => Leaving(s)' \/ Closed'
    BY <1>d, <2>1
  <2>4. \A q \in Callers : pc'[q] \in OffPC =>
               /\ phase[sub'[q]] \in Published /\ ~active[sub'[q]] /\ sub'[q] \in Subs
    BY <1>0, <1>d, <2>1 DEF ActiveInv
  <2> QED  BY <1>b, <1>d, <2>2, <2>3, <2>4
<1>e. /\ {"idle"} \cap (StopPC \cup OffPC) = {} /\ OnPC \cap (StopPC \cup OffPC) = {}
      /\ ClosePC \cap (StopPC \cup OffPC) = {}
  BY DEF StopPC, OffPC, OnPC, StartPC, ClosePC
<1>2. ASSUME NEW p \in Callers, NEW s \in Subs, OnBegin(p, s) PROVE ActiveInv'
  <2>1. /\ Goto(p, "on.submit") /\ pc[p] = "idle" /\ phase[s] = "fresh"
        /\ phase' = [phase EXCEPT ![s] = "starting"] /\ active' = [active EXCEPT ![s] = TRUE]
        /\ sub' = [sub EXCEPT ![p] = s]
        /\ UNCHANGED <<subscribers, chClosed, closer>>
    BY <1>2 DEF OnBegin, MayCall, busVars
  <2>2. "on.submit" \in OnPC /\ "on.submit" \notin OffPC  BY DEF OnPC, StartPC, OffPC
  <2>3. \A q \in Callers \ {p} : sub'[q] = sub[q]  BY <1>0, <2>1
  <2>4. /\ pc'[p] = "on.submit" /\ \A q \in Callers \ {p} : pc'[q] = pc[q]
        /\ \A r \in Subs : BeingStopped(r) => BeingStopped(r)'
        /\ \A r \in Subs : Leaving(r) => Leaving(r)'
    BY <1>c, <1>e, <2>1, <2>2, <2>3 DEF Stopping, StopPC, OffPC
  <2>5. \A r \in Subs : Registered(r)' <=> Registered(r)  BY <2>1 DEF Registered
  <2>6. \A r \in Subs \ {s} : phase'[r] = phase[r] /\ active'[r] = active[r]  BY <1>0, <2>1
  <2>7. phase'[s] = "starting" /\ active'[s]  BY <1>0, <2>1
  <2>8. \A q \in Callers : pc'[q] \in OffPC => phase'[sub'[q]] \in Published /\ ~active'[sub'[q]]
    <3> SUFFICES ASSUME NEW q \in Callers, pc'[q] \in OffPC
                 PROVE  phase'[sub'[q]] \in Published /\ ~active'[sub'[q]]
      OBVIOUS
    <3>1. q # p /\ pc[q] \in OffPC /\ sub'[q] = sub[q] /\ sub[q] \in Subs
      BY <1>0, <2>2, <2>3, <2>4
    <3>2. phase[sub[q]] \in Published /\ ~active[sub[q]]  BY <3>1 DEF ActiveInv
    <3> QED  BY <2>1, <2>6, <3>1, <3>2 DEF Published
  <2> QED  BY <2>1, <2>4, <2>5, <2>6, <2>7, <2>8 DEF ActiveInv, Published, Closed
<1>3. ASSUME NEW p \in Callers, NEW s \in Subs, OffBegin(p, s) PROVE ActiveInv'
  <2>1. /\ Goto(p, "stop.cas") /\ pc[p] = "idle" /\ sub' = [sub EXCEPT ![p] = s]
        /\ UNCHANGED <<subscribers, active, phase, chClosed, closer>>
    BY <1>3 DEF OffBegin, MayCall, busVars
  <2> QED  BY <1>0, <1>d, <1>e, <2>1 DEF Closed, StopPC, OffPC
<1>4. ASSUME NEW p \in Callers, OnAdd(p) PROVE ActiveInv'
  <2> DEFINE s == sub[p]
             q == subscribers[SubTopic[s]]
  <2>1. /\ Goto(p, "on.count") /\ pc[p] = "on.add" /\ s \in Subs /\ phase[s] = "starting"
        /\ phase' = [phase EXCEPT ![s] = "added"]
        /\ subscribers' = [subscribers EXCEPT ![SubTopic[s]] = Append(q, s)]
        /\ UNCHANGED <<active, sub, chClosed, closer>>
    BY <1>0, <1>4 DEF OnAdd, OnPC, StartPC, StartInv
  <2>2. "on.count" \in OnPC /\ "on.count" \notin OffPC  BY DEF OnPC, OffPC
  <2>3. /\ pc'[p] = "on.count" /\ \A r \in Callers \ {p} : pc'[r] = pc[r]
        /\ \A r \in Subs : BeingStopped(r) => BeingStopped(r)'
        /\ \A r \in Subs : Leaving(r) => Leaving(r)'
    BY <1>c, <2>1, <2>2 DEF Stopping, StopPC
  <2> HIDE DEF s
  <2>4. Range(Append(q, s)) = Range(q) \cup {s}
    <3>1. q \in Seq(Subs) /\ IsInjective(q)  BY <1>a, <2>1 DEF ListInv
    <3>2. s \notin Range(q)  BY <1>a, <2>1 DEF StopInv, PublishInv, Published
    <3> QED  BY <2>1, <3>1, <3>2, AppendDistinct
  <2>5. \A r \in Subs : Registered(r)' => Registered(r) \/ r = s
    BY <1>0, <2>1, <2>4 DEF Registered
  <2>6. \A r \in Subs : Registered(r) \/ r = s => Registered(r)'
    BY <1>0, <2>1, <2>4 DEF Registered
  <2>7. active[s]  BY <2>1 DEF ActiveInv
  <2>8. phase'[s] = "added" /\ \A r \in Subs \ {s} : phase'[r] = phase[r]  BY <1>0, <2>1
  <2>9. \A r \in Callers : pc'[r] \in OffPC => pc[r] \in OffPC /\ sub[r] \in Subs
    BY <1>0, <2>2, <2>3
  <2> QED  BY <2>1, <2>3, <2>5, <2>6, <2>7, <2>8, <2>9 DEF ActiveInv, Published, Closed
<1>5. ASSUME NEW p \in Callers, OnCount(p) PROVE ActiveInv'
  <2>1. /\ Goto(p, "idle") /\ pc[p] = "on.count" /\ UNCHANGED <<subscribers, active, sub, chClosed, closer>>
        /\ phase' = [phase EXCEPT ![sub[p]] = "open"] /\ sub[p] \in Subs /\ phase[sub[p]] \in Published
    BY <1>0, <1>5 DEF OnCount, busVars, OnPC, StartInv
  <2> QED  BY <1>0, <1>d, <1>e, <2>1 DEF Closed, StopPC, OffPC, Published
<1>6. ASSUME NEW p \in Callers, StopCas(p) PROVE ActiveInv'
  <2> DEFINE s == sub[p]
  <2>1. /\ Goto(p, IF active[s] THEN "stop.signal" ELSE AfterStop(p)) /\ pc[p] = "stop.cas"
        /\ s \in Subs /\ phase[s] \in Published /\ active' = [active EXCEPT ![s] = FALSE]
        /\ UNCHANGED <<subscribers, phase, sub, chClosed, closer>>
    BY <1>0, <1>6 DEF StopCas, busVars, StopPC, StartInv
  <2>2. CASE active[s]
    <3>1. "stop.signal" \in StopPC /\ "stop.signal" \notin OffPC /\ pc' = [pc EXCEPT ![p] = "stop.signal"]
      BY <2>1, <2>2 DEF StopPC, OffPC
    <3>2. /\ pc'[p] = "stop.signal" /\ \A r \in Callers \ {p} : pc'[r] = pc[r]
          /\ \A r \in Subs : BeingStopped(r) => BeingStopped(r)'
          /\ \A r \in Subs : Leaving(r) => Leaving(r)'
          /\ \A r \in Subs : r = s => BeingStopped(r)' /\ Leaving(r)'
      BY <1>c, <2>1, <3>1 DEF Stopping
    <3> HIDE DEF s
    <3>3. ~active'[s] /\ \A r \in Subs \ {s} : active'[r] = active[r]  BY <1>0, <2>1
    <3>4. \A r \in Subs : Registered(r)' <=> Registered(r)  BY <2>1 DEF Registered
    <3>5. \A r \in Callers : pc'[r] \in OffPC => pc[r] \in OffPC /\ sub[r] \in Subs
      BY <1>0, <3>1, <3>2
    <3>6. ASSUME NEW r \in Subs
          PROVE  /\ phase[r] = "starting" => active'[r]
                 /\ phase[r] \in Published /\ active'[r] => Registered(r)
                 /\ phase[r] \in Published /\ ~active'[r] => chClosed[r] \/ BeingStopped(r)'
                 /\ Registered(r) /\ ~active'[r] => Closed \/ Leaving(r)'
      <4>1. CASE r = s  BY <2>1, <3>2, <3>3, <4>1 DEF Published
      <4>2. CASE r # s
        <5>1. active'[r] = active[r]  BY <3>3, <4>2
        <5> QED  BY <3>2, <5>1 DEF ActiveInv
      <4> QED  BY <4>1, <4>2
    <3>7. ASSUME NEW r \in Callers, pc'[r] \in OffPC
          PROVE  phase[sub[r]] \in Published /\ ~active'[sub[r]]
      <4>1. sub[r] \in Subs /\ phase[sub[r]] \in Published /\ ~active[sub[r]]
        BY <3>5, <3>7 DEF ActiveInv
      <4> QED  BY <3>3, <4>1
    <3> QED  BY <2>1, <3>4, <3>6, <3>7 DEF ActiveInv, Closed
  <2>3. CASE ~active[s]
    <3>1. UNCHANGED active  BY <1>0, <2>1, <2>3
    <3>2. CASE p = closer
      <4>1. AfterStop(p) = "close.next" /\ Closed
        BY <1>0, <2>1, <3>2, Sizes DEF AfterStop, Closed
      <4> QED  BY <1>0, <1>d, <2>1, <2>3, <3>1, <4>1 DEF Closed, StopPC, OffPC, ClosePC
    <3>3. CASE p # closer
      <4>1. AfterStop(p) = "off.remove"  BY <3>3 DEF AfterStop
      <4> QED  BY <1>0, <1>d, <2>1, <2>3, <3>1, <4>1 DEF Closed, StopPC, OffPC
    <3> QED  BY <3>2, <3>3
  <2> QED  BY <2>2, <2>3
<1>7. ASSUME NEW p \in Callers, StopSignal(p) PROVE ActiveInv'
  <2>1. /\ Goto(p, "stop.wait") /\ UNCHANGED <<subscribers, active, phase, sub, chClosed, closer>>
    BY <1>7 DEF StopSignal, busVars
  <2> QED  BY <1>0, <1>d, <2>1 DEF Closed, StopPC, OffPC
<1>8. ASSUME NEW p \in Callers, StopWait(p) PROVE ActiveInv'
  <2>1. /\ Goto(p, AfterStop(p)) /\ UNCHANGED <<subscribers, active, phase, sub, closer>>
        /\ pc[p] = "stop.wait" /\ sub[p] \in Subs
        /\ chClosed' = [chClosed EXCEPT ![sub[p]] = TRUE]
    BY <1>0, <1>8 DEF StopWait, busVars, StopPC
  <2>2. phase[sub[p]] \in Published /\ ~active[sub[p]]
    BY <2>1 DEF StopInv, StartInv, StopPC, StopExclusive, Stopping
  <2>3. CASE p = closer
    <3>1. AfterStop(p) = "close.next" /\ Closed
      BY <1>0, <2>1, <2>3, Sizes DEF AfterStop, Closed
    <3> QED  BY <1>0, <1>d, <2>1, <3>1 DEF Closed, StopPC, OffPC, ClosePC
  <2>4. CASE p # closer
    <3>1. AfterStop(p) = "off.remove"  BY <2>4 DEF AfterStop
    <3> QED  BY <1>0, <1>d, <2>1, <2>2, <3>1 DEF Closed, StopPC, OffPC
  <2> QED  BY <2>3, <2>4
<1>9. ASSUME NEW p \in Callers, OffRemove(p) PROVE ActiveInv'
  <2> DEFINE s == sub[p]
             q == subscribers[SubTopic[s]]
  <2>1. /\ Goto(p, "off.count") /\ pc[p] = "off.remove" /\ s \in Subs
        /\ subscribers' = [subscribers EXCEPT ![SubTopic[s]] = Without(q, s)]
        /\ UNCHANGED <<phase, active, sub, chClosed, closer>>
    BY <1>0, <1>9 DEF OffRemove, OffPC, subVars
  <2>2. phase[s] \in Published /\ ~active[s]  BY <2>1 DEF ActiveInv, OffPC
  <2>3. "off.count" \in OffPC /\ "off.count" \notin StopPC  BY DEF OffPC, StopPC
  <2>4. /\ pc'[p] = "off.count" /\ \A r \in Callers \ {p} : pc'[r] = pc[r]
        /\ \A r \in Subs : BeingStopped(r) => BeingStopped(r)'
        /\ \A r \in Subs \ {s} : Leaving(r) => Leaving(r)'
    BY <1>c, <2>1, <2>3 DEF Stopping, StopPC
  <2> HIDE DEF s
  <2>5. Range(Without(q, s)) = Range(q) \ {s}
    <3>1. q \in Seq(Subs) /\ IsInjective(q)  BY <1>a, <2>1 DEF ListInv
    <3> QED  BY <3>1, WithoutDistinct
  <2>6. \A r \in Subs : Registered(r)' <=> Registered(r) /\ r # s
    BY <1>0, <1>a, <2>1, <2>5 DEF Registered, StopInv, ListInv
  <2>7. \A r \in Callers : pc'[r] \in OffPC => pc[r] \in OffPC /\ sub[r] \in Subs
    BY <1>0, <2>1, <2>3, <2>4 DEF OffPC
  <2> QED  BY <2>1, <2>2, <2>4, <2>6, <2>7 DEF ActiveInv, Closed
<1>10. ASSUME NEW p \in Callers, OffCount(p) PROVE ActiveInv'
  <2>1. /\ Goto(p, "idle") /\ pc[p] = "off.count"
        /\ UNCHANGED <<subscribers, active, sub, phase, chClosed, closer>>
    BY <1>10 DEF OffCount, busVars, subVars
  <2> QED  BY <1>0, <1>d, <2>1 DEF Closed, StopPC, OffPC
<1>11. ASSUME NEW p \in Callers, CloseBegin(p) \/ CloseCollect(p) \/ CloseRelease(p) PROVE ActiveInv'
  <2>1. /\ \E l \in {"close.collect", "close.next", "idle"} : Goto(p, l)
        /\ pc[p] \in {"idle", "close.collect", "close.release"}
        /\ UNCHANGED <<subscribers, active, sub, phase, chClosed>>
        /\ closer' = closer \/ closer' = p
    BY <1>11 DEF CloseBegin, CloseCollect, CloseRelease, MayCall, subVars
  <2>2. Closed => Closed'  BY <2>1, Sizes DEF Closed
  <2> QED  BY <1>0, <1>d, <2>1, <2>2 DEF StopPC, OffPC, ClosePC
<1>12. ASSUME NEW p \in Callers, CloseNext(p) PROVE ActiveInv'
  <2>1. /\ \E l \in {"stop.cas", "close.release"} : Goto(p, l)
        /\ pc[p] = "close.next" /\ \A q \in Callers \ {p} : sub'[q] = sub[q]
        /\ UNCHANGED <<subscribers, active, phase, chClosed, closer>>
    BY <1>0, <1>12 DEF CloseNext, subVars
  <2> QED  BY <1>0, <1>d, <2>1 DEF Closed, StopPC, OffPC, ClosePC
<1> QED
  BY <1>0, <1>1, <1>2, <1>3, <1>4, <1>5, <1>6, <1>7, <1>8, <1>9, <1>10, <1>11, <1>12, AsideOrLife
  DEF LifeStep

\* Every step keeps CloseInv.
LEMMA CloseStep ==
  ASSUME StopInv, ActiveInv, CloseInv, Next
  PROVE  CloseInv'
<1>0. /\ pc \in [Callers -> {"idle"} \cup EmitPC \cup OnPC \cup StopPC \cup OffPC \cup ClosePC]
      /\ sub \in [Callers -> Subs \cup {None}]
      /\ \A p \in Callers : pc[p] \in OnPC \cup StopPC \cup OffPC => sub[p] \in Subs
      /\ phase \in [Subs -> {"fresh", "starting", "added", "open"}]
      /\ active \in [Subs -> BOOLEAN] /\ poolClosed \in BOOLEAN
      /\ SubTopic \in [Subs -> Topics] /\ closer \in Callers \cup {None} /\ None \notin Callers
      /\ openAtClose \subseteq Subs
      /\ TypeOK /\ StartInv
  BY Sizes DEF StopInv, TypeOK, CallTypes, SubTypes, BusTypes
<1>e. /\ OffPC \cap (StopPC \cup ClosePC \cup {"idle"}) = {}
      /\ Outside \cap (StopPC \cup ClosePC) = {}
      /\ OnPC \cap (StopPC \cup ClosePC \cup {"idle"}) = {}
      /\ StopPC \cap (ClosePC \cup {"idle"}) = {}
  BY DEF Outside, EmitPC, OnPC, StartPC, StopPC, OffPC, ClosePC
<1> DEFINE Minding == StopPC \cup ClosePC \cup {"idle"}
\* A step that is none of Close's own, nor one of its stop's.
<1>a. ASSUME UNCHANGED <<closer, poolClosed, closing, openAtClose>>,
             \A s \in Subs : phase[s] = "open" => phase'[s] = "open" /\ (active'[s] => active[s]),
             \A p \in Callers : pc'[p] \in ClosePC => pc'[p] = pc[p],
             Closed => \/ pc[closer] \notin Minding
                       \/ pc'[closer] = pc[closer] /\ sub'[closer] = sub[closer]
      PROVE  CloseInv'
  <2>1. \A p \in Callers : pc'[p] \in ClosePC => p = closer  BY <1>a DEF CloseInv
  <2>2. poolClosed => Closed /\ pc'[closer] = "idle"  BY <1>a DEF CloseInv
  <2>3. \A s \in openAtClose : Closed /\ phase'[s] = "open"  BY <1>0, <1>a DEF CloseInv
  <2>4. ASSUME Closed, NEW s \in openAtClose, active'[s]
        PROVE  \/ pc'[closer] = "close.collect"
               \/ pc'[closer] \in StopPC \cup {"close.next"} /\ s \in closing
               \/ pc'[closer] = "stop.cas" /\ sub'[closer] = s
    <3>1. s \in Subs /\ active[s]  BY <1>0, <1>a, <2>4 DEF CloseInv
    <3>2. \/ pc[closer] = "close.collect"
          \/ pc[closer] \in StopPC \cup {"close.next"} /\ s \in closing
          \/ pc[closer] = "stop.cas" /\ sub[closer] = s
      BY <2>4, <3>1 DEF CloseInv
    <3>3. pc[closer] \in Minding  BY <3>2 DEF StopPC, ClosePC
    <3> QED  BY <1>a, <2>4, <3>2, <3>3
  <2> QED  BY <1>a, <2>1, <2>2, <2>3, <2>4 DEF CloseInv, Closed
\* A step of one caller, to no label of Close.
<1>b. ASSUME NEW p \in Callers, NEW l, Goto(p, l), l \notin ClosePC,
             UNCHANGED <<closer, poolClosed, closing, openAtClose>>,
             \A q \in Callers \ {p} : sub'[q] = sub[q],
             \A s \in Subs : phase[s] = "open" => phase'[s] = "open" /\ (active'[s] => active[s]),
             p = closer => pc[p] \notin Minding
      PROVE  CloseInv'
  <2>1. pc'[p] = l /\ \A q \in Callers \ {p} : pc'[q] = pc[q]  BY <1>0, <1>b
  <2>2. \A q \in Callers : pc'[q] \in ClosePC => pc'[q] = pc[q]  BY <1>b, <2>1
  <2>3. Closed => \/ pc[closer] \notin Minding
                  \/ pc'[closer] = pc[closer] /\ sub'[closer] = sub[closer]
    BY <1>0, <1>b, <2>1 DEF Closed
  <2> QED  BY <1>a, <1>b, <2>2, <2>3
\* A step of the closer on its way.
<1>c. ASSUME NEW p \in Callers, NEW l, Goto(p, l), p = closer, pc[p] # "idle",
             UNCHANGED <<closer, poolClosed, phase, openAtClose>>,
             \A s \in openAtClose : active'[s] =>
               \/ l = "close.collect"
               \/ l \in StopPC \cup {"close.next"} /\ s \in closing'
               \/ l = "stop.cas" /\ sub'[p] = s
      PROVE  CloseInv'
  <2>1. pc'[p] = l /\ \A q \in Callers \ {p} : pc'[q] = pc[q]  BY <1>0, <1>c
  <2>2. \A q \in Callers : pc'[q] \in ClosePC => q = closer  BY <1>c, <2>1 DEF CloseInv
  <2>3. ~poolClosed  BY <1>c DEF CloseInv
  <2>4. \A s \in openAtClose : Closed /\ phase[s] = "open"  BY DEF CloseInv
  <2> QED  BY <1>c, <2>1, <2>2, <2>3, <2>4 DEF CloseInv, Closed
<1> HIDE DEF Minding
<1>1. CASE Aside
  <2>1. \A p \in Callers : pc'[p] \in ClosePC => pc'[p] = pc[p]
    BY <1>1, <1>e DEF Aside
  <2>2. Closed => \/ pc[closer] \notin Minding
                  \/ pc'[closer] = pc[closer] /\ sub'[closer] = sub[closer]
    BY <1>0, <1>1, <1>e DEF Aside, Closed, Minding
  <2> QED  BY <1>1, <1>a, <2>1, <2>2 DEF Aside
<1>2. ASSUME NEW p \in Callers, NEW s \in Subs, OnBegin(p, s) \/ OffBegin(p, s) PROVE CloseInv'
  <2>1. /\ \E l \in {"on.submit", "stop.cas"} : Goto(p, l)
        /\ ~Closed /\ UNCHANGED <<closer, poolClosed, closing, openAtClose>>
        /\ \A q \in Callers \ {p} : sub'[q] = sub[q]
        /\ \A r \in Subs : phase[r] = "open" => phase'[r] = "open" /\ (active'[r] => active[r])
    BY <1>0, <1>2 DEF OnBegin, OffBegin, MayCall, busVars
  <2> QED  BY <1>0, <1>b, <2>1 DEF Closed, ClosePC
<1>3. ASSUME NEW p \in Callers, OnAdd(p) \/ OnCount(p) PROVE CloseInv'
  <2>1. pc[p] \in OnPC /\ sub[p] \in Subs  BY <1>0, <1>3 DEF OnAdd, OnCount, OnPC, StartPC
  <2>2. phase[sub[p]] = "starting" \/ phase'[sub[p]] = "open"
    BY <1>0, <1>3, <2>1 DEF OnAdd, OnCount, StartInv, StartPC
  <2>3. /\ \E l \in {"on.count", "idle"} : Goto(p, l)
        /\ UNCHANGED <<closer, poolClosed, closing, openAtClose, active, sub>>
        /\ \A r \in Subs \ {sub[p]} : phase'[r] = phase[r]
    BY <1>0, <1>3 DEF OnAdd, OnCount, busVars
  <2>4. pc[p] \notin Minding  BY <1>e, <2>1 DEF Minding
  <2>5. \A r \in Subs : phase[r] = "open" => phase'[r] = "open" /\ (active'[r] => active[r])
    BY <2>2, <2>3
  <2> QED  BY <1>b, <2>3, <2>4, <2>5 DEF ClosePC
<1>4. ASSUME NEW p \in Callers, OffRemove(p) \/ OffCount(p) PROVE CloseInv'
  <2>1. /\ \E l \in {"off.count", "idle"} : Goto(p, l)
        /\ pc[p] \in OffPC
        /\ UNCHANGED <<closer, poolClosed, closing, openAtClose, active, sub, phase>>
    BY <1>4 DEF OffRemove, OffCount, OffPC, busVars, subVars
  <2>2. pc[p] \notin Minding  BY <1>e, <2>1 DEF Minding
  <2> QED  BY <1>b, <2>1, <2>2 DEF ClosePC
<1>5. ASSUME NEW p \in Callers, StopNext(p) PROVE CloseInv'
  <2>1. /\ \E l \in {"stop.signal", "stop.wait", AfterStop(p)} : Goto(p, l)
        /\ pc[p] \in StopPC /\ sub[p] \in Subs
        /\ UNCHANGED <<closer, poolClosed, closing, openAtClose, sub, phase>>
        /\ \A r \in Subs : active'[r] => active[r]
    BY <1>0, <1>5 DEF StopNext, StopCas, StopSignal, StopWait, StopPC, busVars
  <2>2. CASE p # closer
    <3>1. \E l \in {"stop.signal", "stop.wait", "off.remove"} : Goto(p, l)
      BY <2>1, <2>2 DEF AfterStop
    <3> QED  BY <1>b, <2>1, <2>2, <3>1 DEF ClosePC
  <2>3. CASE p = closer
    <3>1. Closed /\ pc[p] # "idle"  BY <1>0, <1>e, <2>1, <2>3 DEF Closed
    <3>2. \E l \in StopPC \cup {"close.next"} : Goto(p, l)
      BY <2>1, <2>3 DEF AfterStop, StopPC
    <3>3. ASSUME NEW s \in openAtClose, active'[s] PROVE s \in closing'
      <4>1. s \in Subs /\ active[s]  BY <1>0, <2>1, <3>3
      <4>2. CASE ~At(p, "stop.cas")
        BY <2>1, <2>3, <3>1, <4>1, <4>2 DEF CloseInv, StopPC
      <4>3. CASE At(p, "stop.cas")
        <5>1. active' = [active EXCEPT ![sub[p]] = FALSE]
          BY <1>5, <4>3 DEF StopNext, StopCas, StopSignal, StopWait
        <5>2. sub[p] # s  BY <1>0, <3>3, <4>1, <5>1
        <5> QED  BY <2>1, <2>3, <3>1, <4>1, <4>3, <5>2 DEF CloseInv
      <4> QED  BY <4>2, <4>3
    <3> QED  BY <1>c, <2>1, <2>3, <3>1, <3>2, <3>3
  <2> QED  BY <2>2, <2>3
<1>6. ASSUME NEW p \in Callers, CloseBegin(p) PROVE CloseInv'
  <2>1. /\ pc' = [pc EXCEPT ![p] = "close.collect"] /\ ~Closed /\ closer' = p
        /\ openAtClose' = {s \in Subs : phase[s] = "open"}
        /\ UNCHANGED <<poolClosed, phase>>
    BY <1>6 DEF CloseBegin, MayCall, subVars
  <2>2. pc'[p] = "close.collect" /\ \A q \in Callers \ {p} : pc'[q] = pc[q]  BY <1>0, <2>1
  <2>3. ~poolClosed /\ \A q \in Callers : pc[q] \notin ClosePC
    BY <1>0, <2>1 DEF CloseInv, Closed
  <2>4. closer' # None  BY <1>0, <2>1
  <2> QED  BY <2>1, <2>2, <2>3, <2>4 DEF CloseInv, Closed
<1>7. ASSUME NEW p \in Callers, CloseCollect(p) PROVE CloseInv'
  <2>1. /\ Goto(p, "close.next") /\ pc[p] = "close.collect"
        /\ closing' = UNION {Range(subscribers[t]) : t \in Topics}
        /\ UNCHANGED <<closer, poolClosed, phase, openAtClose, active>>
    BY <1>7 DEF CloseCollect, subVars
  <2>2. p = closer  BY <2>1 DEF CloseInv, ClosePC
  <2>3. ASSUME NEW s \in openAtClose, active[s] PROVE s \in closing'
    <3>1. s \in Subs /\ phase[s] \in Published  BY <1>0 DEF CloseInv, Published
    <3>2. Registered(s)  BY <2>3, <3>1 DEF ActiveInv
    <3> QED  BY <1>0, <2>1, <3>1, <3>2 DEF Registered
  <2> QED  BY <1>c, <2>1, <2>2, <2>3
<1>8. ASSUME NEW p \in Callers, CloseNext(p) PROVE CloseInv'
  <2>1. pc[p] = "close.next" /\ UNCHANGED <<closer, poolClosed, phase, openAtClose, active>>
    BY <1>8 DEF CloseNext, subVars
  <2>2. p = closer /\ Closed  BY <1>0, <2>1 DEF CloseInv, ClosePC, Closed
  <2>3. \A s \in openAtClose : active[s] => s \in closing
    BY <2>1, <2>2 DEF CloseInv, StopPC
  <2>4. CASE closing = {} /\ Goto(p, "close.release")
    BY <1>c, <2>1, <2>2, <2>3, <2>4
  <2>5. ASSUME NEW s \in closing, closing' = closing \ {s}, sub' = [sub EXCEPT ![p] = s],
               Goto(p, "stop.cas")
        PROVE  CloseInv'
    <3>1. sub'[p] = s  BY <1>0, <2>5
    <3>2. "stop.cas" \in StopPC  BY DEF StopPC
    <3> QED  BY <1>c, <2>1, <2>2, <2>3, <2>5, <3>1, <3>2
  <2> QED  BY <1>8, <2>4, <2>5 DEF CloseNext
<1>9. ASSUME NEW p \in Callers, CloseRelease(p) PROVE CloseInv'
  <2>1. /\ pc' = [pc EXCEPT ![p] = "idle"] /\ pc[p] = "close.release" /\ poolClosed'
        /\ UNCHANGED <<closer, phase, openAtClose, active>>
    BY <1>9 DEF CloseRelease, subVars
  <2>2. p = closer /\ Closed  BY <1>0, <2>1 DEF CloseInv, ClosePC, Closed
  <2>3. \A s \in openAtClose : ~active[s]
    BY <2>1, <2>2 DEF CloseInv, StopPC
  <2>4. pc'[p] = "idle" /\ \A q \in Callers \ {p} : pc'[q] = pc[q]  BY <1>0, <2>1
  <2>5. "idle" \notin ClosePC  BY DEF ClosePC
  <2> QED  BY <2>1, <2>2, <2>3, <2>4, <2>5 DEF CloseInv, Closed
<1> QED
  BY <1>1, <1>2, <1>3, <1>4, <1>5, <1>6, <1>7, <1>8, <1>9, AsideOrLife, <1>0
  DEF LifeStep, StopNext

------------------------------------------------------------------------------
(* The theorems *)

\* Nothing is open at first.
LEMMA InitClose == Init => ActiveInv /\ CloseInv
<1> SUFFICES ASSUME Init PROVE ActiveInv /\ CloseInv
  OBVIOUS
<1>1. \A s \in Subs : ~Registered(s) /\ phase[s] = "fresh"
  BY Sizes DEF Init, Registered, Range
<1>2. ActiveInv  BY <1>1, Sizes DEF Init, ActiveInv, Published, OffPC
<1>3. CloseInv  BY DEF Init, CloseInv, Closed, ClosePC
<1> QED  BY <1>2, <1>3

\* ActiveInv and CloseInv are inductive on top of StopInv and FateInv.
LEMMA NextClose ==
  StopInv /\ FateInv /\ ActiveInv /\ CloseInv /\ [Next]_vars => ActiveInv' /\ CloseInv'
<1> SUFFICES ASSUME StopInv, FateInv, ActiveInv, CloseInv, [Next]_vars
             PROVE  ActiveInv' /\ CloseInv'
  OBVIOUS
<1>1. CASE Next  BY <1>1, ActiveStep, CloseStep DEF FateInv
<1>2. CASE UNCHANGED vars
  <2>1. UNCHANGED <<closer, poolClosed, subscribers, closing, openAtClose, phase, active,
                    chClosed, pc, sub>>
    BY <1>2 DEF vars, busVars, subVars, callVars
  <2>2. ActiveInv'
    BY <2>1 DEF ActiveInv, Registered, BeingStopped, Leaving, Stopping, Closed
  <2>3. CloseInv'  BY <2>1 DEF CloseInv, Closed
  <2> QED  BY <2>2, <2>3
<1> QED  BY <1>1, <1>2

\* ActiveInv and CloseInv hold in every run.
THEOREM CloseInvariant == Spec => [](ActiveInv /\ CloseInv)
BY InitClose, NextClose, StopInvariant, FateInvariant, PTL DEF Spec

\* The subscriber manager and the subscriptions agree: none that is active after
\* its On is missing from the list, none that is stopped stays on it unattended.
THEOREM RegistryTracks == Spec => []RegistryTracksActive
<1>1. ActiveInv => RegistryTracksActive
  BY DEF ActiveInv, RegistryTracksActive, Leaving, Published, OffPC
<1> QED  BY <1>1, CloseInvariant, PTL

\* What was open when Close began is stopped when Close releases the pool, but for
\* what an overlapping Off is still stopping.
THEOREM CloseStops == Spec => []CloseStopsOpen
<1>1. TypeOK /\ ActiveInv /\ CloseInv => CloseStopsOpen
  <2> SUFFICES ASSUME TypeOK, ActiveInv, CloseInv, poolClosed, NEW s \in openAtClose
               PROVE  chClosed[s] \/ \E p \in Callers : Stopping(p, s)
    BY DEF CloseStopsOpen
  <2>1. s \in Subs /\ phase[s] \in Published  BY DEF TypeOK, BusTypes, CloseInv, Published
  <2>2. ~active[s]  BY DEF CloseInv, StopPC
  <2> QED  BY <2>1, <2>2 DEF ActiveInv, BeingStopped
<1> QED  BY <1>1, CloseInvariant, TypeCorrect, PTL

------------------------------------------------------------------------------
(* The history and the metrics: what an Emit has recorded before it goes on *)

Recorded(e) == EnableHistory /\ Len(history) < MaxHistorySize => e \in Range(history)
Counted(e) == EnableMetrics => emitted[EventTopic[e]] > 0

\* Emit records its event, then counts it, and only then hands it on.
RecordInv ==
  /\ \A e \in Events : stage[e] \notin Early => Recorded(e) /\ Counted(e)
  /\ \A p \in Callers :
       /\ pc[p] \in EmitPC \ {"emit.record"} => Recorded(ev[p])
       /\ pc[p] \in EmitPC \ {"emit.record", "emit.count"} => Counted(ev[p])

\* The subscriptions that accepted event e.
Takers(e) == {s \in Subs : fate[s][e] \in Accepted}

\* Until the delivery task ends it has counted those that accepted its event.
HitsInv ==
  /\ \A e \in Events : stage[e] \in Early \cup {"delivering"} => hits[e] = Cardinality(Takers(e))
  /\ DeliveredAgrees

\* An Off call that has not returned; Close's own stops are none.
InOff(p) == pc[p] \in OffPC \/ (pc[p] \in StopPC /\ p # closer)

\* The metric counts a subscription from the end of its On to the end of its Off.
InCount(s) ==
  phase[s] = "open" /\ (Registered(s) \/ \E p \in Callers : At(p, "off.count") /\ sub[p] = s)

\* One On call counts a subscription, after it is listed; the first Off of it finds
\* it on the list, and has it to itself as long as there is no second.
OnceInv ==
  /\ \A s \in Subs :
       /\ phase[s] = "added" => \E p \in Callers : At(p, "on.count") /\ sub[p] = s
       /\ offCalls[s] > 0 => phase[s] = "open"
       /\ phase[s] \in Published /\ offCalls[s] = 0 => Registered(s)
  /\ \A p \in Callers : At(p, "on.count") => phase[sub[p]] = "added"
  /\ \A p, q \in Callers : At(p, "on.count") /\ At(q, "on.count") /\ sub[p] = sub[q] => p = q
  /\ \A p \in Callers : InOff(p) =>
       /\ offCalls[sub[p]] > 0
       /\ offCalls[sub[p]] = 1 =>
            /\ Registered(sub[p]) <=> ~At(p, "off.count")
            /\ \A q \in Callers : InOff(q) /\ sub[q] = sub[p] => q = p

\* The metric of a topic none of whose subscriptions was given to Off twice.
CountInv ==
  EnableMetrics => \A t \in Topics :
    (\A s \in Subs : SubTopic[s] = t => offCalls[s] <= 1) =>
      subscribed[t] = Cardinality({s \in Subs : SubTopic[s] = t /\ InCount(s)})

\* Inductive together with StopInv, FateInv and ActiveInv.
MetricInv == RecordInv /\ HitsInv /\ OnceInv /\ CountInv

\* No emission goes on but perhaps one that begins, and nothing is recorded.
LogStill ==
  /\ UNCHANGED <<history, emitted>>
  /\ \A e \in Events : stage'[e] \notin Early => stage[e] \notin Early
  /\ \A p \in Callers : pc'[p] \in EmitPC \ {"emit.record"} => pc'[p] = pc[p] /\ ev'[p] = ev[p]

\* An Emit that has recorded and counted its event goes on, or is over.
Onward(p) ==
  /\ pc[p] \in EmitPC \ {"emit.record", "emit.count"}
  /\ UNCHANGED <<history, emitted, ev>> /\ \E l : Goto(p, l)
  /\ \A e \in Events \ {ev[p]} : stage'[e] = stage[e]

\* The steps, by what they do to the history and the emitted metric.
LEMMA LogKinds ==
  ASSUME TypeOK, RouteInv, Next
  PROVE  LogStill \/ \E p \in Callers : EmitRecord(p) \/ EmitCount(p) \/ Onward(p)
<1>0. /\ pc \in [Callers -> {"idle"} \cup EmitPC \cup OnPC \cup StopPC \cup OffPC \cup ClosePC]
      /\ ev \in [Callers -> Events \cup {None}] /\ DOMAIN stage = Events
  BY DEF TypeOK, CallTypes, TaskTypes
<1>a. ASSUME NEW p \in Callers, NEW l, l \notin EmitPC \ {"emit.record"}, Goto(p, l),
             \A q \in Callers \ {p} : ev'[q] = ev[q], UNCHANGED <<history, emitted>>,
             \A e \in Events : stage'[e] \notin Early => stage[e] \notin Early
      PROVE  LogStill
  BY <1>0, <1>a DEF LogStill
<1>b. ASSUME UNCHANGED <<pc, ev, history, emitted>>,
             \A e \in Events : stage'[e] \notin Early => stage[e] \notin Early
      PROVE  LogStill
  BY <1>b DEF LogStill
<1>1. ASSUME NEW p \in Callers, NEW e \in Events, EmitBegin(p, e) PROVE LogStill
  <2>1. /\ Goto(p, "emit.record") /\ \A q \in Callers \ {p} : ev'[q] = ev[q]
        /\ UNCHANGED <<history, emitted>>
        /\ \A d \in Events : stage'[d] \notin Early => stage[d] \notin Early
    BY <1>0, <1>1 DEF EmitBegin, obsVars, Early
  <2> QED  BY <1>a, <2>1
<1>2. ASSUME NEW p \in Callers, EmitLookup(p) \/ EmitSubmit(p) \/ EmitAcquire(p) PROVE Onward(p)
  <2>1. pc[p] \in EmitPC \ {"emit.record", "emit.count"}
    BY <1>2 DEF EmitLookup, EmitSubmit, EmitAcquire, EmitPC
  <2>2. UNCHANGED <<history, emitted, ev>> /\ \E l : Goto(p, l)
    BY <1>2 DEF EmitLookup, EmitSubmit, EmitAcquire, obsVars
  <2>3. \A e \in Events \ {ev[p]} : stage'[e] = stage[e]
    BY <1>0, <1>2 DEF EmitLookup, EmitSubmit, EmitAcquire
  <2> QED  BY <2>1, <2>2, <2>3 DEF Onward
<1>3. ASSUME NEW p \in Callers, NEW s \in Subs, OnBegin(p, s) \/ OffBegin(p, s) PROVE LogStill
  <2>1. /\ \E l \in {"on.submit", "stop.cas"} : Goto(p, l)
        /\ UNCHANGED <<ev, taskVars, obsVars>>
    BY <1>3 DEF OnBegin, OffBegin
  <2> QED  BY <1>a, <2>1 DEF EmitPC, taskVars, obsVars
<1>4. ASSUME NEW p \in Callers, OnNext(p) PROVE LogStill
  <2>1. /\ UNCHANGED pc \/ \E l \in OnPC \cup {"idle"} : Goto(p, l)
        /\ UNCHANGED <<ev, taskVars, history, emitted>>
    BY <1>4 DEF OnNext, OnSubmit, OnAcquire, OnAdd, OnCount, OnPC, StartPC, obsVars
  <2>2. \A l \in OnPC \cup {"idle"} : l \notin EmitPC  BY DEF OnPC, StartPC, EmitPC
  <2> QED  BY <1>a, <1>b, <2>1, <2>2 DEF taskVars
<1>5. ASSUME NEW p \in Callers, StopNext(p) \/ OffNext(p) PROVE LogStill
  <2>1. /\ \E l \in StopPC \cup OffPC \cup {"close.next", "idle"} : Goto(p, l)
        /\ UNCHANGED <<ev, taskVars, history, emitted>>
    BY <1>5 DEF StopNext, OffNext, StopCas, StopSignal, StopWait, OffRemove, OffCount, AfterStop,
                StopPC, OffPC, obsVars
  <2>2. \A l \in StopPC \cup OffPC \cup {"close.next", "idle"} : l \notin EmitPC
    BY DEF StopPC, OffPC, EmitPC
  <2> QED  BY <1>a, <2>1, <2>2 DEF taskVars
<1>6. ASSUME NEW p \in Callers, CloseBegin(p) \/ CloseNextStep(p) PROVE LogStill
  <2>1. /\ \E l \in ClosePC \cup {"stop.cas", "idle"} : Goto(p, l)
        /\ UNCHANGED <<ev, taskVars, obsVars>>
    BY <1>6 DEF CloseBegin, CloseNextStep, CloseCollect, CloseNext, CloseRelease, ClosePC
  <2>2. \A l \in ClosePC \cup {"stop.cas", "idle"} : l \notin EmitPC  BY DEF ClosePC, EmitPC
  <2> QED  BY <1>a, <2>1, <2>2 DEF taskVars, obsVars
<1>7. ASSUME NEW e \in Events, DeliverNext(e) PROVE LogStill
  <2>1. UNCHANGED <<pc, ev, history, emitted>>
    BY <1>7 DEF DeliverNext, DeliverCheck, DeliverSend, DeliverRefuse, DeliverPanic, DeliverDone,
                DeliverHandoff, Delivered, callVars, obsVars
  <2>2. stage[e] = "delivering"
    BY <1>7, Sizes DEF DeliverNext, DeliverCheck, DeliverSend, DeliverRefuse, DeliverPanic,
                DeliverDone, DeliverHandoff, RouteInv, Workers
  <2>3. \A d \in Events \ {e} : stage'[d] = stage[d]
    BY <1>0, <1>7 DEF DeliverNext, DeliverCheck, DeliverSend, DeliverRefuse, DeliverPanic, DeliverDone,
                      DeliverHandoff, Delivered
  <2> QED  BY <1>b, <2>1, <2>2, <2>3 DEF Early
<1>8. ASSUME NEW w \in Workers, LoopStep(w) \/ HandlerStep(w) \/ HandlerPanics(w) PROVE LogStill
  <2>1. UNCHANGED <<callVars, taskVars, obsVars>>
    BY <1>8 DEF LoopStep, HandlerStep, WorkerReceive, WorkerQuit, BackoffElapses, BackoffStopped,
                HandlerSucceeds, HandlerFails, HandlerPanics, Exit
  <2> QED  BY <1>b, <2>1 DEF callVars, taskVars, obsVars
<1>9. ASSUME Rest PROVE LogStill
  <2>1. UNCHANGED <<callVars, taskVars, obsVars>>  BY <1>9 DEF Rest, vars
  <2> QED  BY <1>b, <2>1 DEF callVars, taskVars, obsVars
<1>10. ASSUME NEW p \in Callers, PoolSleep(p) \/ PoolWakes(p) PROVE LogStill
  <2>1. UNCHANGED <<callVars, taskVars, obsVars>>  BY <1>10 DEF PoolSleep, PoolWakes
  <2> QED  BY <1>b, <2>1 DEF callVars, taskVars, obsVars
<1> QED
  BY <1>1, <1>2, <1>3, <1>4, <1>5, <1>6, <1>7, <1>8, <1>9, <1>10 DEF Next, CallBegin, CallStep, EmitNext

\* Below its capacity the history has lost nothing, and has the event just added.
LEMMA AddKeeps ==
  ASSUME NEW S, NEW q \in Seq(S), NEW x \in S, NEW n \in Nat, Len(HistoryAdd(q, n, x)) < n
  PROVE  Len(q) < n /\ Range(HistoryAdd(q, n, x)) = Range(q) \cup {x}
<1>1. Len(q) < n
  <2> SUFFICES ASSUME Len(q) >= n PROVE FALSE
    OBVIOUS
  <2>1. HistoryAdd(q, n, x) = Append(Tail(q), x)  BY DEF HistoryAdd
  <2>2. CASE q = <<>>
    <3>1. n = 0  BY <2>2
    <3> QED  BY <3>1, <2>1
  <2>3. CASE q # <<>>
    <3>1. Tail(q) \in Seq(S) /\ Len(Tail(q)) = Len(q) - 1  BY <2>3
    <3> QED  BY <2>1, <3>1
  <2> QED  BY <2>2, <2>3
<1>2. HistoryAdd(q, n, x) = Append(q, x)  BY <1>1 DEF HistoryAdd
<1>3. /\ DOMAIN Append(q, x) = 1..(Len(q) + 1) /\ DOMAIN q = 1..Len(q) /\ Len(q) \in Nat
      /\ Append(q, x)[Len(q) + 1] = x /\ \A i \in 1..Len(q) : Append(q, x)[i] = q[i]
  OBVIOUS
<1>4. Range(Append(q, x)) = Range(q) \cup {x}  BY <1>3 DEF Range
<1> QED  BY <1>1, <1>2, <1>4

\* Every step keeps RecordInv.
LEMMA RecordStep ==
  ASSUME TypeOK, RouteInv, EmitInv, RecordInv, Next
  PROVE  RecordInv'
<1>0. /\ pc \in [Callers -> {"idle"} \cup EmitPC \cup OnPC \cup StopPC \cup OffPC \cup ClosePC]
      /\ \A p \in Callers : pc[p] \in EmitPC => ev[p] \in Events
      /\ history \in Seq(Events) /\ emitted \in [Topics -> Nat] /\ stage = [e \in Events |-> stage[e]]
      /\ \A e \in Events : EventTopic[e] \in Topics
  BY Sizes DEF TypeOK, CallTypes, ObsTypes, TaskTypes
<1>1. CASE LogStill
  BY <1>1 DEF LogStill, RecordInv, Recorded, Counted
<1>2. ASSUME NEW p \in Callers, Onward(p) PROVE RecordInv'
  <2>1. Recorded(ev[p]) /\ Counted(ev[p])  BY <1>2 DEF Onward, RecordInv
  <2>2. \A e \in Events : (Recorded(e)' <=> Recorded(e)) /\ (Counted(e)' <=> Counted(e))
    BY <1>2 DEF Onward, Recorded, Counted
  <2>3. \A q \in Callers \ {p} : pc'[q] = pc[q]  BY <1>0, <1>2 DEF Onward
  <2>4. ev' = ev /\ \A e \in Events \ {ev[p]} : stage'[e] = stage[e]  BY <1>2 DEF Onward
  <2>5. \A e \in Events : stage'[e] \notin Early => Recorded(e)' /\ Counted(e)'
    BY <2>1, <2>2, <2>4 DEF RecordInv
  <2>6. ASSUME NEW q \in Callers, pc'[q] \in EmitPC \ {"emit.record"}
        PROVE  Recorded(ev[q])' /\ (pc'[q] # "emit.count" => Counted(ev[q])')
    <3>1. CASE q = p
      <4>1. ev[p] \in Events  BY <1>0, <1>2 DEF Onward
      <4> QED  BY <2>1, <2>2, <2>4, <3>1, <4>1
    <3>2. CASE q # p
      <4>1. ev[q] \in Events /\ pc[q] = pc'[q]  BY <1>0, <2>3, <2>6, <3>2
      <4> QED  BY <2>2, <2>4, <2>6, <4>1 DEF RecordInv
    <3> QED  BY <3>1, <3>2
  <2> QED  BY <2>5, <2>6 DEF RecordInv
<1>3. ASSUME NEW p \in Callers, EmitRecord(p) PROVE RecordInv'
  <2>1. /\ pc[p] = "emit.record" /\ pc' = [pc EXCEPT ![p] = "emit.count"] /\ ev[p] \in Events
        /\ history' = IF EnableHistory THEN HistoryAdd(history, MaxHistorySize, ev[p]) ELSE history
        /\ UNCHANGED <<ev, stage, emitted>>
    BY <1>0, <1>3 DEF EmitRecord, taskVars, EmitPC
  <2>2. \A e \in Events : Counted(e)' <=> Counted(e)  BY <2>1 DEF Counted
  <2>3. \A e \in Events : Recorded(e) \/ e = ev[p] => Recorded(e)'
    BY <1>0, <2>1, AddKeeps, Sizes DEF Recorded
  <2>4. pc'[p] = "emit.count" /\ \A q \in Callers \ {p} : pc'[q] = pc[q]  BY <1>0, <2>1
  <2>5. \A e \in Events : stage'[e] \notin Early => Recorded(e)' /\ Counted(e)'
    BY <2>1, <2>2, <2>3 DEF RecordInv
  <2>6. ASSUME NEW q \in Callers, pc'[q] \in EmitPC \ {"emit.record"}
        PROVE  Recorded(ev[q])' /\ (pc'[q] # "emit.count" => Counted(ev[q])')
    <3>1. CASE q = p  BY <2>1, <2>3, <2>4, <3>1 DEF Recorded
    <3>2. CASE q # p
      <4>1. ev[q] \in Events /\ pc[q] = pc'[q]  BY <1>0, <2>4, <2>6, <3>2
      <4>2. Recorded(ev[q]) /\ (pc[q] # "emit.count" => Counted(ev[q]))
        BY <2>6, <4>1 DEF RecordInv
      <4>3. Recorded(ev[q])' /\ (Counted(ev[q]) => Counted(ev[q])')
        BY <2>1, <2>2, <2>3, <4>1, <4>2 DEF Recorded, Counted
      <4> QED  BY <4>1, <4>2, <4>3
    <3> QED  BY <3>1, <3>2
  <2> QED  BY <2>5, <2>6 DEF RecordInv
<1>4. ASSUME NEW p \in Callers, EmitCount(p) PROVE RecordInv'
  <2>1. /\ pc[p] = "emit.count" /\ pc' = [pc EXCEPT ![p] = "emit.lookup"] /\ ev[p] \in Events
        /\ emitted' = IF EnableMetrics THEN [emitted EXCEPT ![EventTopic[ev[p]]] = @ + 1]
                                       ELSE emitted
        /\ UNCHANGED <<ev, stage, history>>
    BY <1>0, <1>4 DEF EmitCount, taskVars, EmitPC
  <2>2. \A e \in Events : Recorded(e)' <=> Recorded(e)  BY <2>1 DEF Recorded
  <2>3. \A e \in Events : Counted(e) \/ e = ev[p] => Counted(e)'
    BY <1>0, <2>1 DEF Counted
  <2>4. pc'[p] = "emit.lookup" /\ \A q \in Callers \ {p} : pc'[q] = pc[q]  BY <1>0, <2>1
  <2>5. \A e \in Events : stage'[e] \notin Early => Recorded(e)' /\ Counted(e)'
    BY <2>1, <2>2, <2>3 DEF RecordInv
  <2>6. ASSUME NEW q \in Callers, pc'[q] \in EmitPC \ {"emit.record"}
        PROVE  Recorded(ev[q])' /\ (pc'[q] # "emit.count" => Counted(ev[q])')
    <3>1. ev[q] \in Events /\ Recorded(ev[q])
      BY <1>0, <2>1, <2>4, <2>6 DEF RecordInv, EmitPC
    <3>2. Recorded(ev[q])'  BY <2>1, <3>1 DEF Recorded
    <3>3. pc'[q] # "emit.count" => Counted(ev[q]) \/ ev[q] = ev[p]
      BY <2>4, <2>6 DEF RecordInv
    <3>4. pc'[q] # "emit.count" => Counted(ev[q])'  BY <2>1, <2>3, <3>1, <3>3 DEF Counted
    <3> QED  BY <3>2, <3>4
  <2> QED  BY <2>5, <2>6 DEF RecordInv
<1> QED  BY <1>1, <1>2, <1>3, <1>4, LogKinds

------------------------------------------------------------------------------
(* The delivered metric *)

\* What the delivered metric of topic t should count.
Tally(t) ==
  {d \in Subs \X Events : EventTopic[d[2]] = t /\ stage[d[2]] = "done" /\ d[1] \in Takers(d[2])}

\* Deliveries under way, or yet to come.
Ahead == Early \cup {"delivering"}

\* A step counts nothing; a delivery that ends here ends without subscribers or in a panic.
Uncounted ==
  /\ UNCHANGED <<hits, delivered>>
  /\ \A e \in Events : /\ stage'[e] \in Ahead => stage[e] \in Ahead
                       /\ stage'[e] = "done" => stage[e] \in Early \cup {"done"}
                       /\ stage[e] = "done" => stage'[e] = "done"

\* Nobody accepts an event, or event e is accepted by s and counted.
TallyStill == Uncounted /\ \A e \in Events : Takers(e)' = Takers(e)
Accepts(s, e) ==
  /\ stage[e] = "delivering" /\ s \notin Takers(e) /\ Takers(e)' = Takers(e) \cup {s}
  /\ hits' = [hits EXCEPT ![e] = @ + 1]
  /\ \A d \in Events \ {e} : Takers(d)' = Takers(d)
  /\ UNCHANGED <<stage, delivered>>

\* Only the steps of a delivery count.
LEMMA WhoCounts ==
  ASSUME TypeOK, EmitInv, RouteInv, Next
  PROVE  \/ Uncounted
         \/ \E e \in Events : \/ DeliverSend(e) \/ DeliverDone(e)
                              \/ \E w \in Workers : DeliverHandoff(e, w)
<1>0. stage \in [Events -> {"new", "emitting", "delivering", "done", "rejected", "aborted"}]
      /\ \A p \in Callers : pc[p] \in EmitPC => stage[ev[p]] = "emitting"
  BY DEF TypeOK, TaskTypes, EmitInv
<1>a. ASSUME UNCHANGED <<stage, hits, delivered>> PROVE Uncounted
  BY <1>a DEF Uncounted
<1>b. ASSUME NEW e, NEW l, stage' = [stage EXCEPT ![e] = l], UNCHANGED <<hits, delivered>>,
             stage[e] \in Ahead, l = "done" => stage[e] \in Early
      PROVE  Uncounted
  BY <1>0, <1>b DEF Uncounted, Ahead, Early
<1>1. ASSUME NEW p \in Callers, NEW e \in Events, EmitBegin(p, e) PROVE Uncounted
  BY <1>1, <1>b DEF EmitBegin, obsVars, Ahead, Early
<1>2. ASSUME NEW p \in Callers, EmitRecord(p) \/ EmitCount(p) PROVE Uncounted
  BY <1>2, <1>a DEF EmitRecord, EmitCount, taskVars
<1>3. ASSUME NEW p \in Callers, EmitLookup(p) \/ EmitSubmit(p) \/ EmitAcquire(p) PROVE Uncounted
  <2>1. pc[p] \in EmitPC
    BY <1>3 DEF EmitLookup, EmitSubmit, EmitAcquire, EmitPC
  <2>2. stage[ev[p]] \in Ahead /\ stage[ev[p]] \in Early
    BY <1>0, <2>1 DEF Ahead, Early
  <2>3. UNCHANGED <<hits, delivered>> /\ (UNCHANGED stage \/ \E l : stage' = [stage EXCEPT ![ev[p]] = l])
    BY <1>3 DEF EmitLookup, EmitSubmit, EmitAcquire, obsVars
  <2> QED  BY <1>a, <1>b, <2>2, <2>3
<1>4. ASSUME NEW p \in Callers, NEW s \in Subs, OnBegin(p, s) \/ OffBegin(p, s) PROVE Uncounted
  BY <1>4, <1>a DEF OnBegin, OffBegin, taskVars, obsVars
<1>5. ASSUME NEW p \in Callers, OnNext(p) PROVE Uncounted
  BY <1>5, <1>a DEF OnNext, OnSubmit, OnAcquire, OnAdd, OnCount, taskVars, obsVars
<1>6. ASSUME NEW p \in Callers, StopNext(p) \/ OffNext(p) PROVE Uncounted
  BY <1>6, <1>a DEF StopNext, OffNext, StopCas, StopSignal, StopWait, OffRemove, OffCount,
                    taskVars, obsVars
<1>7. ASSUME NEW p \in Callers, CloseBegin(p) \/ CloseNextStep(p) PROVE Uncounted
  BY <1>7, <1>a DEF CloseBegin, CloseNextStep, CloseCollect, CloseNext, CloseRelease,
                    taskVars, obsVars
<1>8. ASSUME NEW e \in Events, DeliverCheck(e) \/ DeliverRefuse(e) PROVE Uncounted
  BY <1>8, <1>a DEF DeliverCheck, DeliverRefuse, obsVars
<1>9. ASSUME NEW e \in Events, DeliverPanic(e) PROVE Uncounted
  <2>1. stage[e] \in Ahead  BY <1>9 DEF DeliverPanic, RouteInv, Ahead
  <2> QED  BY <1>9, <1>b, <2>1 DEF DeliverPanic, obsVars
<1>10. ASSUME NEW w \in Workers, LoopStep(w) \/ HandlerStep(w) \/ HandlerPanics(w) PROVE Uncounted
  <2>1. UNCHANGED <<taskVars, obsVars>>
    BY <1>10 DEF LoopStep, HandlerStep, WorkerReceive, WorkerQuit, BackoffElapses, BackoffStopped,
                 HandlerSucceeds, HandlerFails, HandlerPanics, Exit
  <2> QED  BY <1>a, <2>1 DEF taskVars, obsVars
<1>11. ASSUME Rest PROVE Uncounted
  <2>1. UNCHANGED <<taskVars, obsVars>>  BY <1>11 DEF Rest, vars
  <2> QED  BY <1>a, <2>1 DEF taskVars, obsVars
<1>12. ASSUME NEW p \in Callers, PoolSleep(p) \/ PoolWakes(p) PROVE Uncounted
  <2>1. UNCHANGED <<taskVars, obsVars>>  BY <1>12 DEF PoolSleep, PoolWakes
  <2> QED  BY <1>a, <2>1 DEF taskVars, obsVars
<1> QED
  BY <1>1, <1>2, <1>3, <1>4, <1>5, <1>6, <1>7, <1>8, <1>9, <1>10, <1>11, <1>12
  DEF Next, CallBegin, CallStep, EmitNext, DeliverNext

\* A fate that changes to one that is accepted makes a taker, and no other change does.
LEMMA MovesTakers ==
  ASSUME NEW s \in Subs, NEW e \in Events, NEW f, Moves(s, e, f)
  PROVE  /\ \A d \in Events \ {e} : Takers(d)' = Takers(d)
         /\ (f \in Accepted <=> s \in Takers(e)) => Takers(e)' = Takers(e)
         /\ f \in Accepted => Takers(e)' = Takers(e) \cup {s}
BY DEF Moves, Takers

\* Every step counts whom it makes a taker, and no other.
LEMMA TallyKinds ==
  ASSUME TypeOK, StartInv, HandInv, QueueInv, RouteInv, EmitInv, Next
  PROVE  \/ TallyStill
         \/ \E s \in Subs, e \in Events : Accepts(s, e)
         \/ \E e \in Events : DeliverDone(e)
<1>a. ASSUME NEW s \in Subs, NEW e \in Events, fate[s][e] = "none" PROVE s \notin Takers(e)
  BY <1>a DEF Takers, Accepted
<1>1. ASSUME NEW e \in Events, DeliverSend(e) PROVE Accepts(target[e], e) /\ target[e] \in Subs
  <2>1. target[e] \in Subs /\ Moves(target[e], e, "queued") /\ UNCHANGED stage
    BY <1>1, DeliverFacts
  <2>2. fate[target[e]][e] = "none"  BY <1>1, DeliverFates
  <2>3. stage[e] = "delivering"
    BY <2>1, Sizes DEF RouteInv
  <2>4. "queued" \in Accepted  BY DEF Accepted
  <2>5. hits' = [hits EXCEPT ![e] = @ + 1] /\ delivered' = delivered
    BY <1>1 DEF DeliverSend, Delivered, obsVars
  <2> QED  BY <1>a, <2>1, <2>2, <2>3, <2>4, <2>5, MovesTakers DEF Accepts
<1>2. ASSUME NEW e \in Events, NEW w \in Workers, DeliverHandoff(e, w)
      PROVE  Accepts(w[1], e) /\ w[1] \in Subs
  <2>1. w[1] \in Subs /\ Takes(w, e) /\ UNCHANGED stage  BY <1>2, TakeFacts
  <2>2. fate[w[1]][e] = "none" /\ stage[e] = "delivering"  BY <1>2, TakeFates
  <2>3. "handling" \in Accepted /\ "failed" \in Accepted  BY DEF Accepted
  <2>4. \E f \in Accepted : Moves(w[1], e, f)  BY <2>1, <2>3 DEF Takes
  <2>5. hits' = [hits EXCEPT ![e] = @ + 1] /\ delivered' = delivered
    BY <1>2 DEF DeliverHandoff, Delivered, obsVars
  <2> QED  BY <1>a, <2>1, <2>2, <2>4, <2>5, MovesTakers DEF Accepts
<1> DEFINE Same == \A e \in Events : Takers(e)' = Takers(e)
<1>3. ASSUME UNCHANGED fate PROVE Same
  BY <1>3 DEF Takers
<1>4. ASSUME NEW e \in Events, DeliverCheck(e) \/ DeliverRefuse(e) PROVE Same
  <2>1. "refused" \notin Accepted  BY DEF Accepted
  <2>2. UNCHANGED fate \/ \E s \in Subs : Moves(s, e, "refused") /\ fate[s][e] = "none"
    BY <1>4, DeliverFacts, DeliverFates DEF Leaves
  <2>3. CASE UNCHANGED fate  BY <2>3 DEF Takers
  <2>4. ASSUME NEW s \in Subs, Moves(s, e, "refused"), fate[s][e] = "none" PROVE Same
    BY <1>a, <2>1, <2>4, MovesTakers
  <2> QED  BY <2>2, <2>3, <2>4
<1>5. ASSUME NEW w \in Workers, WorkerReceive(w) PROVE Same
  <2> DEFINE e == Head(eventCh[w[1]])
  <2>1. w[1] \in Subs /\ e \in Events /\ Takes(w, e)  BY <1>5, TakeFacts
  <2>2. fate[w[1]][e] = "queued"  BY <1>5, TakeFates
  <2>3. {"queued", "handling", "failed"} \subseteq Accepted  BY DEF Accepted
  <2> HIDE DEF e
  <2>4. w[1] \in Takers(e)  BY <2>1, <2>2, <2>3 DEF Takers
  <2>5. \E f \in Accepted : Moves(w[1], e, f)  BY <2>1, <2>3 DEF Takes
  <2> QED  BY <2>1, <2>4, <2>5, MovesTakers
<1>6. ASSUME NEW w \in Workers, Ends(w) PROVE Same
  <2>1. w[1] \in Subs /\ wev[w] \in Events  BY <1>6 DEF Ends, TypeOK, WorkTypes, Hand, Workers
  <2>2. fate[w[1]][wev[w]] = "handling"  BY <1>6 DEF Ends, HandInv
  <2>3. PICK f \in Terminal \ {"refused"} : Moves(w[1], wev[w], f)  BY <1>6 DEF Ends
  <2>4. f \in Accepted /\ "handling" \in Accepted  BY <2>3 DEF Terminal, Accepted
  <2>5. w[1] \in Takers(wev[w])  BY <2>1, <2>2, <2>4 DEF Takers
  <2> QED  BY <2>1, <2>3, <2>4, <2>5, MovesTakers
<1>7. CASE Uncounted
  <2>1. Kinds  BY KindOfStep
  <2>2. CASE \E e \in Events : DeliverSend(e) \/ \E w \in Workers : DeliverHandoff(e, w)
    BY <1>1, <1>2, <2>2
  <2>3. CASE ~ \E e \in Events : DeliverSend(e) \/ \E w \in Workers : DeliverHandoff(e, w)
    <3>1. ASSUME NEW p \in Callers, EmitLookup(p) PROVE Same
      BY <3>1 DEF EmitLookup, Takers
    <3>2. Same  BY <1>3, <1>4, <1>5, <1>6, <2>1, <2>3, <3>1 DEF Kinds, Still
    <3> QED  BY <1>7, <3>2 DEF TallyStill
  <2> QED  BY <2>2, <2>3
<1> HIDE DEF Same
<1> QED  BY <1>1, <1>2, <1>7, WhoCounts

\* Every step keeps HitsInv.
LEMMA HitsStep ==
  ASSUME TypeOK, StartInv, HandInv, QueueInv, RouteInv, EmitInv, HitsInv, Next
  PROVE  HitsInv'
<1>0. /\ stage \in [Events -> {"new", "emitting", "delivering", "done", "rejected", "aborted"}]
      /\ hits \in [Events -> Nat] /\ delivered \in [Topics -> Nat]
      /\ EventTopic \in [Events -> Topics]
      /\ IsFiniteSet(Subs) /\ IsFiniteSet(Events)
  BY Sizes, BusAssumption DEF TypeOK, TaskTypes, ObsTypes, BusAssumption
<1>a. ASSUME NEW e \in Events PROVE IsFiniteSet(Takers(e))
  <2>1. Takers(e) \in SUBSET Subs  BY DEF Takers
  <2> QED  BY <1>0, <2>1, FS_Subset
<1>b. \A e \in Events : stage[e] \in Early => Takers(e) = {}
  BY DEF RouteInv, Takers, Accepted
<1>c. ASSUME \A e \in Events : stage'[e] \in Ahead => hits'[e] = Cardinality(Takers(e))',
             EnableMetrics => \A t \in Topics : delivered'[t] = Cardinality(Tally(t))'
      PROVE  HitsInv'
  <2>1. \A t \in Topics : Tally(t)' =
          {d \in Subs \X Events : EventTopic[d[2]] = t /\ stage'[d[2]] = "done"
                                    /\ fate'[d[1]][d[2]] \in Accepted}
    BY DEF Tally, Takers
  <2>2. DeliveredAgrees'  BY <1>c, <2>1 DEF DeliveredAgrees
  <2> QED  BY <1>c, <2>2 DEF HitsInv, Ahead
<1>d. /\ \A e \in Events : stage[e] \in Ahead => hits[e] = Cardinality(Takers(e))
      /\ EnableMetrics => \A t \in Topics : delivered[t] = Cardinality(Tally(t))
  <2>1. \A t \in Topics : Tally(t) =
          {d \in Subs \X Events : EventTopic[d[2]] = t /\ stage[d[2]] = "done"
                                    /\ fate[d[1]][d[2]] \in Accepted}
    BY DEF Tally, Takers
  <2> QED  BY <2>1 DEF HitsInv, DeliveredAgrees, Ahead
<1>1. CASE TallyStill
  <2>1. ASSUME NEW t \in Topics PROVE Tally(t)' = Tally(t)
    BY <1>1, <1>b DEF Tally, TallyStill, Uncounted
  <2>2. \A e \in Events : stage'[e] \in Ahead => hits'[e] = Cardinality(Takers(e))'
    BY <1>1, <1>d DEF TallyStill, Uncounted
  <2>3. EnableMetrics => \A t \in Topics : delivered'[t] = Cardinality(Tally(t))'
    BY <1>1, <1>d, <2>1 DEF TallyStill, Uncounted
  <2> QED  BY <1>c, <2>2, <2>3
<1>2. ASSUME NEW s \in Subs, NEW e \in Events, Accepts(s, e) PROVE HitsInv'
  <2>1. ASSUME NEW t \in Topics PROVE Tally(t)' = Tally(t)
    BY <1>2 DEF Tally, Accepts
  <2>2. Cardinality(Takers(e))' = Cardinality(Takers(e)) + 1
    BY <1>2, <1>a, FS_AddElement DEF Accepts
  <2>3. hits[e] = Cardinality(Takers(e))  BY <1>2, <1>d DEF Accepts, Ahead
  <2>4. hits'[e] = hits[e] + 1 /\ \A d \in Events \ {e} : hits'[d] = hits[d]
    BY <1>0, <1>2 DEF Accepts
  <2>5. \A d \in Events : stage'[d] \in Ahead => hits'[d] = Cardinality(Takers(d))'
    BY <1>2, <1>d, <2>2, <2>3, <2>4 DEF Accepts
  <2>6. EnableMetrics => \A t \in Topics : delivered'[t] = Cardinality(Tally(t))'
    BY <1>2, <1>d, <2>1 DEF Accepts
  <2> QED  BY <1>c, <2>5, <2>6
<1>3. ASSUME NEW e \in Events, DeliverDone(e) PROVE HitsInv'
  <2> DEFINE u == EventTopic[e]
             new == Takers(e) \X {e}
  <2>1. /\ stage[e] = "delivering" /\ stage' = [stage EXCEPT ![e] = "done"]
        /\ delivered' = IF EnableMetrics THEN [delivered EXCEPT ![u] = @ + hits[e]] ELSE delivered
        /\ UNCHANGED <<hits, fate>> /\ u \in Topics
    BY <1>0, <1>3 DEF DeliverDone
  <2>2. \A d \in Events : Takers(d)' = Takers(d)  BY <2>1 DEF Takers
  <2>3. stage'[e] = "done" /\ \A d \in Events \ {e} : stage'[d] = stage[d]  BY <1>0, <2>1
  <2>4. ASSUME NEW t \in Topics \ {u} PROVE Tally(t)' = Tally(t)
    BY <2>2, <2>3 DEF Tally
  <2>5. Tally(u)' = Tally(u) \cup new /\ Tally(u) \cap new = {}
    <3>1. \A d \in new : d \in Subs \X Events /\ d[2] = e /\ d[1] \in Takers(e)
      BY DEF Takers
    <3>2. \A d \in Subs \X Events : d[2] = e /\ d[1] \in Takers(e) => d \in new
      OBVIOUS
    <3>3. \A d \in Tally(u) : d[2] # e  BY <2>1 DEF Tally
    <3> HIDE DEF new
    <3>4. Tally(u) \cap new = {}  BY <3>1, <3>3
    <3>5. \A d \in Subs \X Events : d[2] \in Events  OBVIOUS
    <3>6. \A d \in Tally(u)' : d \in Tally(u) \/ d \in new
      BY <2>2, <2>3, <3>2, <3>5 DEF Tally
    <3>7. \A d \in Tally(u) : d \in Tally(u)'
      BY <2>2, <2>3, <3>3, <3>5 DEF Tally
    <3>8. \A d \in new : d \in Tally(u)'
      BY <2>2, <2>3, <3>1 DEF Tally
    <3> QED  BY <3>4, <3>6, <3>7, <3>8
  <2>6. Cardinality(new) = hits[e] /\ IsFiniteSet(new)
    <3>1. IsFiniteSet({e}) /\ Cardinality({e}) = 1  BY FS_Singleton
    <3>2. hits[e] = Cardinality(Takers(e))  BY <1>d, <2>1 DEF Ahead
    <3>3. IsFiniteSet(new) /\ Cardinality(new) = Cardinality(Takers(e)) * Cardinality({e})
      BY <1>a, <3>1, FS_Product
    <3> QED  BY <1>0, <3>1, <3>2, <3>3
  <2>7. IsFiniteSet(Tally(u)) /\ Cardinality(Tally(u)) \in Nat
    <3>1. IsFiniteSet(Subs \X Events)  BY <1>0, FS_Product
    <3>2. Tally(u) \in SUBSET (Subs \X Events)  BY DEF Tally
    <3> QED  BY <3>1, <3>2, FS_Subset, FS_CardinalityType
  <2> HIDE DEF new
  <2>8. Cardinality(Tally(u))' = Cardinality(Tally(u)) + hits[e]
    <3>1. Cardinality(Tally(u) \cup new) = Cardinality(Tally(u)) + Cardinality(new) - Cardinality({})
      BY <2>5, <2>6, <2>7, FS_Union
    <3>2. Cardinality({}) = 0  BY FS_EmptySet
    <3> QED  BY <1>0, <2>5, <2>6, <2>7, <3>1, <3>2
  <2>9. EnableMetrics => \A t \in Topics : delivered'[t] = Cardinality(Tally(t))'
    BY <1>0, <1>d, <2>1, <2>4, <2>8
  <2>10. \A d \in Events : stage'[d] \in Ahead => hits'[d] = Cardinality(Takers(d))'
    BY <1>d, <2>1, <2>2, <2>3 DEF Ahead, Early
  <2> QED  BY <1>c, <2>9, <2>10
<1> QED  BY <1>1, <1>2, <1>3, TallyKinds

------------------------------------------------------------------------------
(* The subscribed metric *)

\* No subscription joins or leaves a list, the metric, or the calls of Off, and no
\* call comes to the point where it counts one, or goes from it.
CountStill ==
  /\ UNCHANGED <<subscribers, offCalls, subscribed>>
  /\ \A s \in Subs, f \in Published : phase'[s] = f <=> phase[s] = f
  /\ \A p \in Callers :
       /\ InOff(p)' <=> InOff(p)
       /\ \A l \in {"on.count", "off.count"} : pc'[p] = l <=> pc[p] = l
       /\ InOff(p) \/ pc[p] = "on.count" => sub'[p] = sub[p]

\* The steps, by what they do to what the subscribed metric counts.
LEMMA CountKinds ==
  ASSUME TypeOK, CloseInv, Next
  PROVE  \/ CountStill
         \/ \E p \in Callers : \/ OnAdd(p) \/ OnCount(p) \/ OffRemove(p) \/ OffCount(p)
                               \/ \E s \in Subs : OffBegin(p, s)
<1>0. /\ pc \in [Callers -> {"idle"} \cup EmitPC \cup OnPC \cup StopPC \cup OffPC \cup ClosePC]
      /\ sub \in [Callers -> Subs \cup {None}]
      /\ phase \in [Subs -> {"fresh", "starting", "added", "open"}]
      /\ closer \in Callers \cup {None}
  BY DEF TypeOK, CallTypes, SubTypes, BusTypes
<1> DEFINE Apart == {"idle"} \cup EmitPC \cup StartPC \cup ClosePC
<1>e. /\ Apart \cap (StopPC \cup OffPC \cup {"on.count"}) = {}
      /\ StopPC \cap {"on.count", "off.count"} = {} /\ {"off.count", "off.remove"} = OffPC
  BY DEF EmitPC, StartPC, ClosePC, StopPC, OffPC
\* A step of one caller that is in no Off call and counts nothing.
<1>a. ASSUME NEW p \in Callers, NEW l \in Apart, Goto(p, l), pc[p] \in Apart,
             \A q \in Callers \ {p} : sub'[q] = sub[q],
             UNCHANGED <<subscribers, offCalls, subscribed>>, closer' = closer \/ closer' = p,
             \A s \in Subs : phase'[s] = phase[s] \/ {phase'[s], phase[s]} \cap Published = {},
             closer = closer' \/ closer = None
      PROVE  CountStill
  <2>1. pc'[p] = l /\ \A q \in Callers \ {p} : pc'[q] = pc[q]  BY <1>0, <1>a
  <2>2. ~InOff(p) /\ ~InOff(p)'  BY <1>a, <1>e, <2>1 DEF InOff
  <2>3. \A q \in Callers \ {p} : InOff(q)' <=> InOff(q)
    BY <1>0, <1>a, <2>1, Sizes DEF InOff
  <2>4. pc[p] \notin {"on.count", "off.count"} /\ l \notin {"on.count", "off.count"}
    BY <1>a, <1>e
  <2> QED  BY <1>a, <2>1, <2>2, <2>3, <2>4 DEF CountStill
\* A step that leaves the callers alone.
<1>b. ASSUME UNCHANGED <<subscribers, offCalls, subscribed, phase, pc, sub, closer>> PROVE CountStill
  BY <1>b DEF CountStill, InOff
\* A step of a stop.
<1>c. ASSUME NEW p \in Callers, NEW l, Goto(p, l), pc[p] \in StopPC,
             l \in StopPC \/ l = AfterStop(p),
             UNCHANGED <<subscribers, offCalls, subscribed, phase, sub, closer>>
      PROVE  CountStill
  <2>1. pc'[p] = l /\ \A q \in Callers \ {p} : pc'[q] = pc[q]  BY <1>0, <1>c
  <2>2. l \in StopPC \cup {"off.remove", "close.next"} /\ (l = "off.remove" => p # closer)
        /\ (l = "close.next" => p = closer)
    BY <1>c DEF AfterStop, StopPC
  <2>3. InOff(p)' <=> InOff(p)
    BY <1>c, <2>1, <2>2 DEF InOff, StopPC, OffPC
  <2>4. \A q \in Callers \ {p} : InOff(q)' <=> InOff(q)  BY <1>c, <2>1 DEF InOff
  <2>5. pc[p] \notin {"on.count", "off.count"} /\ l \notin {"on.count", "off.count"}
    BY <1>c, <2>2 DEF StopPC
  <2> QED  BY <1>c, <2>1, <2>3, <2>4, <2>5 DEF CountStill
<1>1. ASSUME NEW p \in Callers, NEW e \in Events, EmitBegin(p, e) PROVE CountStill
  BY <1>1, <1>a DEF EmitBegin, MayCall, busVars, subVars, obsVars, EmitPC
<1>2. ASSUME NEW p \in Callers, EmitNext(p) PROVE CountStill
  <2>1. pc[p] \in EmitPC /\ \E l \in {"idle"} \cup EmitPC : Goto(p, l)
    BY <1>2 DEF EmitNext, EmitRecord, EmitCount, EmitLookup, EmitSubmit, EmitAcquire, EmitPC
  <2>2. UNCHANGED <<subscribers, closer, subVars, sub, subscribed>>
    BY <1>2 DEF EmitNext, EmitRecord, EmitCount, EmitLookup, EmitSubmit, EmitAcquire, busVars, obsVars
  <2> QED  BY <2>1, <2>2, <1>a DEF subVars
<1>3. ASSUME NEW p \in Callers, OnSubmit(p) \/ OnAcquire(p) PROVE CountStill
  <2>1. UNCHANGED <<subscribers, closer, phase, offCalls, sub, obsVars>>
    BY <1>3 DEF OnSubmit, OnAcquire, busVars
  <2>2. pc[p] \in StartPC /\ (UNCHANGED pc \/ \E l \in StartPC : Goto(p, l))
    BY <1>3 DEF OnSubmit, OnAcquire, StartPC
  <2> QED  BY <2>1, <2>2, <1>a, <1>b DEF obsVars
<1>4. ASSUME NEW p \in Callers, NEW s \in Subs, OnBegin(p, s) PROVE CountStill
  <2>1. /\ Goto(p, "on.submit") /\ pc[p] = "idle" /\ phase[s] = "fresh"
        /\ phase' = [phase EXCEPT ![s] = "starting"] /\ sub' = [sub EXCEPT ![p] = s]
        /\ UNCHANGED <<subscribers, offCalls, subscribed, closer>>
    BY <1>4 DEF OnBegin, MayCall, busVars, obsVars
  <2>2. \A r \in Subs : phase'[r] = phase[r] \/ {phase'[r], phase[r]} \cap Published = {}
    BY <1>0, <2>1 DEF Published
  <2> QED  BY <1>0, <1>a, <2>1, <2>2 DEF StartPC
<1>5. ASSUME NEW p \in Callers, StopNext(p) PROVE CountStill
  <2>1. /\ pc[p] \in StopPC /\ \E l : Goto(p, l) /\ (l \in StopPC \/ l = AfterStop(p))
        /\ UNCHANGED <<subscribers, offCalls, subscribed, phase, sub, closer>>
    BY <1>5 DEF StopNext, StopCas, StopSignal, StopWait, StopPC, busVars, obsVars
  <2> QED  BY <1>c, <2>1
<1>6. ASSUME NEW p \in Callers, CloseBegin(p) PROVE CountStill
  <2>1. /\ Goto(p, "close.collect") /\ pc[p] = "idle" /\ closer' = p /\ closer = None
        /\ UNCHANGED <<subscribers, offCalls, subscribed, phase, sub>>
    BY <1>6 DEF CloseBegin, MayCall, Closed, subVars, obsVars
  <2> QED  BY <1>a, <2>1 DEF ClosePC
<1>7. ASSUME NEW p \in Callers, CloseCollect(p) \/ CloseRelease(p) PROVE CountStill
  <2>1. /\ \E l \in {"idle", "close.next"} : Goto(p, l)
        /\ pc[p] \in {"close.collect", "close.release"}
        /\ UNCHANGED <<subscribers, offCalls, subscribed, phase, sub, closer>>
    BY <1>7 DEF CloseCollect, CloseRelease, subVars, obsVars
  <2> QED  BY <1>a, <2>1 DEF ClosePC
<1>8. ASSUME NEW p \in Callers, CloseNext(p) PROVE CountStill
  <2>1. /\ pc[p] = "close.next" /\ UNCHANGED <<subscribers, offCalls, subscribed, phase, closer>>
        /\ \A q \in Callers \ {p} : sub'[q] = sub[q]
        /\ \E l \in {"close.release", "stop.cas"} : Goto(p, l)
    BY <1>0, <1>8 DEF CloseNext, subVars, obsVars
  <2>2. p = closer  BY <2>1 DEF CloseInv, ClosePC
  <2>3. ~InOff(p) /\ ~InOff(p)'  BY <1>0, <2>1, <2>2 DEF InOff, OffPC, StopPC
  <2>4. \A q \in Callers \ {p} : pc'[q] = pc[q]  BY <1>0, <2>1
  <2>5. \A q \in Callers \ {p} : InOff(q)' <=> InOff(q)  BY <2>1, <2>4 DEF InOff
  <2>6. pc'[p] \notin {"on.count", "off.count"}  BY <1>0, <2>1
  <2> QED  BY <2>1, <2>3, <2>4, <2>5, <2>6 DEF CountStill
<1>9. ASSUME NEW e \in Events, DeliverNext(e) PROVE CountStill
  BY <1>9, <1>b DEF DeliverNext, DeliverCheck, DeliverSend, DeliverRefuse, DeliverPanic, DeliverDone,
                    DeliverHandoff, Delivered, busVars, subVars, callVars, obsVars
<1>10. ASSUME NEW w \in Workers, LoopStep(w) \/ HandlerStep(w) \/ HandlerPanics(w) PROVE CountStill
  BY <1>10, <1>b DEF LoopStep, HandlerStep, WorkerReceive, WorkerQuit, BackoffElapses, BackoffStopped,
                     HandlerSucceeds, HandlerFails, HandlerPanics, Exit, busVars, subVars, callVars,
                     obsVars
<1>11. ASSUME Rest PROVE CountStill
  <2>1. UNCHANGED <<busVars, subVars, callVars, obsVars>>  BY <1>11 DEF Rest, vars
  <2> QED  BY <1>b, <2>1 DEF busVars, subVars, callVars, obsVars
<1>12. ASSUME NEW p \in Callers, PoolSleep(p) \/ PoolWakes(p) PROVE CountStill
  BY <1>12, <1>b DEF PoolSleep, PoolWakes, subVars, callVars, obsVars
<1> QED
  BY <1>1, <1>2, <1>3, <1>4, <1>5, <1>6, <1>7, <1>8, <1>9, <1>10, <1>11, <1>12
  DEF Next, CallBegin, CallStep, OnNext, OffNext, CloseNextStep

\* What the steps that count do to the lists, the phases and the calls.
LEMMA CountFacts ==
  ASSUME StopInv, ListInv, CloseInv, OnceInv, NEW p \in Callers
  PROVE  /\ OnAdd(p) =>
              /\ sub[p] \in Subs /\ pc[p] = "on.add" /\ phase[sub[p]] = "starting"
              /\ pc' = [pc EXCEPT ![p] = "on.count"] /\ phase' = [phase EXCEPT ![sub[p]] = "added"]
              /\ \A s \in Subs : Registered(s)' <=> Registered(s) \/ s = sub[p]
              /\ UNCHANGED <<sub, closer, offCalls, subscribed>>
         /\ OnCount(p) =>
              /\ sub[p] \in Subs /\ pc[p] = "on.count" /\ phase[sub[p]] = "added"
              /\ pc' = [pc EXCEPT ![p] = "idle"] /\ phase' = [phase EXCEPT ![sub[p]] = "open"]
              /\ \A s \in Subs : Registered(s)' <=> Registered(s)
              /\ UNCHANGED <<sub, closer, offCalls>>
         /\ \A s \in Subs : OffBegin(p, s) =>
              /\ pc[p] = "idle" /\ phase[s] = "open" /\ closer = None
              /\ pc' = [pc EXCEPT ![p] = "stop.cas"] /\ sub' = [sub EXCEPT ![p] = s]
              /\ offCalls' = [offCalls EXCEPT ![s] = @ + 1]
              /\ \A r \in Subs : Registered(r)' <=> Registered(r)
              /\ UNCHANGED <<phase, closer, subscribed>>
         /\ OffRemove(p) =>
              /\ sub[p] \in Subs /\ pc[p] = "off.remove" /\ pc' = [pc EXCEPT ![p] = "off.count"]
              /\ \A s \in Subs : Registered(s)' <=> Registered(s) /\ s # sub[p]
              /\ UNCHANGED <<sub, phase, closer, offCalls, subscribed>>
         /\ OffCount(p) =>
              /\ sub[p] \in Subs /\ pc[p] = "off.count" /\ pc' = [pc EXCEPT ![p] = "idle"]
              /\ \A s \in Subs : Registered(s)' <=> Registered(s)
              /\ UNCHANGED <<sub, phase, closer, offCalls>>
<1>0. /\ \A q \in Callers : pc[q] \in OnPC \cup StopPC \cup OffPC => sub[q] \in Subs
      /\ subscribers \in [Topics -> Seq(Subs)] /\ SubTopic \in [Subs -> Topics]
      /\ StartInv /\ PublishInv /\ \A t \in Topics : IsInjective(subscribers[t])
      /\ \A t \in Topics : \A s \in Range(subscribers[t]) : SubTopic[s] = t
  BY Sizes DEF StopInv, TypeOK, CallTypes, BusTypes, ListInv
<1>1. UNCHANGED subscribers => \A s \in Subs : Registered(s)' <=> Registered(s)
  BY DEF Registered
<1>2. ASSUME OnAdd(p)
      PROVE  /\ sub[p] \in Subs /\ pc[p] = "on.add" /\ phase[sub[p]] = "starting"
             /\ pc' = [pc EXCEPT ![p] = "on.count"] /\ phase' = [phase EXCEPT ![sub[p]] = "added"]
             /\ \A s \in Subs : Registered(s)' <=> Registered(s) \/ s = sub[p]
             /\ UNCHANGED <<sub, closer, offCalls, subscribed>>
  <2> DEFINE r == sub[p]
             q == subscribers[SubTopic[r]]
  <2>1. /\ r \in Subs /\ pc[p] = "on.add" /\ phase[r] = "starting" /\ SubTopic[r] \in Topics
        /\ q \in Seq(Subs) /\ subscribers' = [subscribers EXCEPT ![SubTopic[r]] = Append(q, r)]
    BY <1>0, <1>2 DEF OnAdd, OnPC, StartPC, StartInv
  <2>2. r \notin Range(q)  BY <1>0, <2>1 DEF PublishInv, Published
  <2>3. Range(Append(q, r)) = Range(q) \cup {r}  BY <1>0, <2>1, <2>2, AppendDistinct
  <2> HIDE DEF q, r
  <2>4. \A s \in Subs : Registered(s)' <=> Registered(s) \/ s = r
    BY <1>0, <2>1, <2>3 DEF Registered, q
  <2> QED  BY <1>2, <2>1, <2>4 DEF OnAdd, obsVars, r
<1>3. ASSUME OffRemove(p)
      PROVE  /\ sub[p] \in Subs /\ pc[p] = "off.remove" /\ pc' = [pc EXCEPT ![p] = "off.count"]
             /\ \A s \in Subs : Registered(s)' <=> Registered(s) /\ s # sub[p]
             /\ UNCHANGED <<sub, phase, closer, offCalls, subscribed>>
  <2> DEFINE r == sub[p]
             q == subscribers[SubTopic[r]]
  <2>1. /\ r \in Subs /\ SubTopic[r] \in Topics /\ q \in Seq(Subs)
        /\ subscribers' = [subscribers EXCEPT ![SubTopic[r]] = Without(q, r)]
    BY <1>0, <1>3 DEF OffRemove, OffPC
  <2>2. Range(Without(q, r)) = Range(q) \ {r}  BY <1>0, <2>1, WithoutDistinct
  <2> HIDE DEF q, r
  <2>3. \A s \in Subs : Registered(s)' <=> Registered(s) /\ s # r
    BY <1>0, <2>1, <2>2 DEF Registered, q
  <2> QED  BY <1>3, <2>1, <2>3 DEF OffRemove, subVars, obsVars, r
<1>4. OnCount(p) =>
        /\ sub[p] \in Subs /\ pc[p] = "on.count" /\ phase[sub[p]] = "added"
        /\ pc' = [pc EXCEPT ![p] = "idle"] /\ phase' = [phase EXCEPT ![sub[p]] = "open"]
        /\ \A s \in Subs : Registered(s)' <=> Registered(s)
        /\ UNCHANGED <<sub, closer, offCalls>>
  BY <1>0, <1>1 DEF OnCount, OnPC, busVars, OnceInv
<1>5. \A s \in Subs : OffBegin(p, s) =>
        /\ pc[p] = "idle" /\ phase[s] = "open" /\ closer = None
        /\ pc' = [pc EXCEPT ![p] = "stop.cas"] /\ sub' = [sub EXCEPT ![p] = s]
        /\ offCalls' = [offCalls EXCEPT ![s] = @ + 1]
        /\ \A r \in Subs : Registered(r)' <=> Registered(r)
        /\ UNCHANGED <<phase, closer, subscribed>>
  BY <1>1 DEF OffBegin, MayCall, Closed, busVars, obsVars
<1>6. OffCount(p) =>
        /\ sub[p] \in Subs /\ pc[p] = "off.count" /\ pc' = [pc EXCEPT ![p] = "idle"]
        /\ \A s \in Subs : Registered(s)' <=> Registered(s)
        /\ UNCHANGED <<sub, phase, closer, offCalls>>
  BY <1>0, <1>1 DEF OffCount, OffPC, busVars, subVars
<1> QED  BY <1>2, <1>3, <1>4, <1>5, <1>6

\* Every step keeps OnceInv.
LEMMA OnceStep ==
  ASSUME StopInv, ListInv, CloseInv, OnceInv, Next
  PROVE  OnceInv'
<1>0. /\ pc \in [Callers -> {"idle"} \cup EmitPC \cup OnPC \cup StopPC \cup OffPC \cup ClosePC]
      /\ sub \in [Callers -> Subs \cup {None}]
      /\ \A p \in Callers : pc[p] \in OnPC \cup StopPC \cup OffPC => sub[p] \in Subs
      /\ phase \in [Subs -> {"fresh", "starting", "added", "open"}]
      /\ offCalls \in [Subs -> Nat] /\ closer \in Callers \cup {None} /\ None \notin Callers
      /\ TypeOK
  BY Sizes DEF StopInv, TypeOK, CallTypes, SubTypes, BusTypes
<1>1. \A p \in Callers : pc[p] = "on.count" \/ InOff(p) => sub[p] \in Subs
  BY <1>0 DEF InOff, OnPC
<1> DEFINE Single(p) ==
      /\ offCalls[sub[p]] > 0
      /\ offCalls[sub[p]] = 1 =>
           /\ Registered(sub[p]) <=> pc[p] # "off.count"
           /\ \A q \in Callers : InOff(q) /\ sub[q] = sub[p] => q = p
\* OnceInv, in the form the steps are proved for.
<1>a. /\ \A s \in Subs : phase[s] = "added" => \E p \in Callers : pc[p] = "on.count" /\ sub[p] = s
      /\ \A s \in Subs : /\ offCalls[s] > 0 => phase[s] = "open"
                         /\ phase[s] \in Published /\ offCalls[s] = 0 => Registered(s)
      /\ \A p \in Callers : pc[p] = "on.count" => phase[sub[p]] = "added"
      /\ \A p, q \in Callers :
           pc[p] = "on.count" /\ pc[q] = "on.count" /\ sub[p] = sub[q] => p = q
      /\ \A p \in Callers : InOff(p) => Single(p)
  BY DEF OnceInv
<1>b. ASSUME \A s \in Subs : phase'[s] = "added" =>
               \E p \in Callers : pc'[p] = "on.count" /\ sub'[p] = s,
             \A s \in Subs : /\ offCalls'[s] > 0 => phase'[s] = "open"
                             /\ phase'[s] \in Published /\ offCalls'[s] = 0 => Registered(s)',
             \A p \in Callers : pc'[p] = "on.count" => phase'[sub'[p]] = "added",
             \A p, q \in Callers :
               pc'[p] = "on.count" /\ pc'[q] = "on.count" /\ sub'[p] = sub'[q] => p = q,
             \A p \in Callers : InOff(p)' => Single(p)'
      PROVE  OnceInv'
  BY <1>b DEF OnceInv
\* Who may be near a subscription that is still in On.
<1>c. \A s \in Subs, q \in Callers : phase[s] # "open" /\ InOff(q) => sub[q] # s
  BY <1>a
<1>2. CASE CountStill
  <2>0. \A s \in Subs : /\ phase'[s] = "added" <=> phase[s] = "added"
                        /\ phase'[s] = "open" <=> phase[s] = "open"
    BY <1>2 DEF CountStill, Published
  <2>1. \A s \in Subs : (Registered(s)' <=> Registered(s)) /\ offCalls'[s] = offCalls[s]
    BY <1>2 DEF CountStill, Registered
  <2>2. \A p \in Callers : /\ InOff(p)' <=> InOff(p)
                           /\ pc'[p] = "on.count" <=> pc[p] = "on.count"
                           /\ pc'[p] = "off.count" <=> pc[p] = "off.count"
                           /\ InOff(p) \/ pc[p] = "on.count" => sub'[p] = sub[p]
    BY <1>2 DEF CountStill
  <2>3. \A s \in Subs : phase'[s] = "added" =>
               \E p \in Callers : pc'[p] = "on.count" /\ sub'[p] = s
    BY <1>a, <2>0, <2>2
  <2>4. \A s \in Subs : /\ offCalls'[s] > 0 => phase'[s] = "open"
                        /\ phase'[s] \in Published /\ offCalls'[s] = 0 => Registered(s)'
    BY <1>a, <2>0, <2>1 DEF Published
  <2>5. \A p \in Callers : pc'[p] = "on.count" => phase'[sub'[p]] = "added"
    BY <1>1, <1>a, <2>0, <2>2
  <2>6. \A p, q \in Callers :
               pc'[p] = "on.count" /\ pc'[q] = "on.count" /\ sub'[p] = sub'[q] => p = q
    BY <1>a, <2>2
  <2>7. \A p \in Callers : InOff(p)' => Single(p)'
    <3> SUFFICES ASSUME NEW p \in Callers, InOff(p)' PROVE Single(p)'
      OBVIOUS
    <3>1. InOff(p) /\ sub'[p] = sub[p] /\ sub[p] \in Subs /\ Single(p)  BY <1>1, <1>a, <2>2
    <3>2. \A q \in Callers : InOff(q)' /\ sub'[q] = sub'[p] => InOff(q) /\ sub[q] = sub[p]
      BY <2>2, <3>1
    <3>3. Registered(sub[p])' <=> Registered(sub[p])  BY <2>1, <3>1
    <3>4. PICK r \in Subs : r = sub[p] /\ r = sub'[p]  BY <3>1
    <3>5. (Registered(sub[p]))' <=> Registered(sub[p])  BY <2>1, <3>4 DEF Registered
    <3> QED  BY <2>1, <2>2, <3>1, <3>2, <3>5
  <2> QED  BY <1>b, <2>3, <2>4, <2>5, <2>6, <2>7
\* A step of one caller p, about its subscription s, that ends in l.
<1> DEFINE Moved(p, l) == /\ pc'[p] = l /\ \A q \in Callers \ {p} : pc'[q] = pc[q] /\ sub'[q] = sub[q]
                          /\ \A q \in Callers \ {p} : InOff(q)' <=> InOff(q)
<1>d. ASSUME NEW p \in Callers, NEW l, pc' = [pc EXCEPT ![p] = l], UNCHANGED closer,
             sub' = sub \/ \E s : sub' = [sub EXCEPT ![p] = s]
      PROVE  Moved(p, l)
  <2>1. pc'[p] = l /\ \A q \in Callers \ {p} : pc'[q] = pc[q] /\ sub'[q] = sub[q]
    BY <1>0, <1>d
  <2> QED  BY <1>d, <2>1 DEF InOff
<1> HIDE DEF Moved
<1>3. ASSUME NEW p \in Callers, OnAdd(p) PROVE OnceInv'
  <2> DEFINE s == sub[p]
  <2>1. /\ s \in Subs /\ pc[p] = "on.add" /\ phase[s] = "starting"
        /\ pc' = [pc EXCEPT ![p] = "on.count"] /\ phase' = [phase EXCEPT ![s] = "added"]
        /\ \A r \in Subs : Registered(r)' <=> Registered(r) \/ r = s
        /\ UNCHANGED <<sub, closer, offCalls>>
    BY <1>3, CountFacts
  <2>2. Moved(p, "on.count")  BY <1>d, <2>1
  <2>3. phase'[s] = "added" /\ \A r \in Subs \ {s} : phase'[r] = phase[r]  BY <1>0, <2>1
  <2>4. ~InOff(p)' /\ ~InOff(p)  BY <2>1, <2>2 DEF InOff, OffPC, StopPC, Moved
  <2>5. \A r \in Subs : phase'[r] = "added" => \E q \in Callers : pc'[q] = "on.count" /\ sub'[q] = r
    <3> SUFFICES ASSUME NEW r \in Subs, phase'[r] = "added"
                 PROVE  \E q \in Callers : pc'[q] = "on.count" /\ sub'[q] = r
      OBVIOUS
    <3>1. CASE r = s  BY <2>1, <2>2, <3>1 DEF Moved
    <3>2. CASE r # s
      <4>1. PICK q \in Callers : pc[q] = "on.count" /\ sub[q] = r  BY <1>a, <2>3, <3>2
      <4>2. q # p  BY <2>1, <4>1
      <4> QED  BY <2>2, <4>1, <4>2 DEF Moved
    <3> QED  BY <3>1, <3>2
  <2>6. offCalls[s] = 0
    <3>1. ~(offCalls[s] > 0) /\ offCalls[s] \in Nat  BY <1>0, <1>a, <2>1
    <3> QED  BY <3>1
  <2>7. \A r \in Subs : /\ offCalls'[r] > 0 => phase'[r] = "open"
                        /\ phase'[r] \in Published /\ offCalls'[r] = 0 => Registered(r)'
    BY <1>a, <2>1, <2>3, <2>6
  <2>8. \A q \in Callers \ {p} : pc[q] = "on.count" => sub[q] # s /\ sub[q] \in Subs
    BY <1>1, <1>a, <2>1
  <2>9. \A q \in Callers : pc'[q] = "on.count" => phase'[sub'[q]] = "added"
    BY <1>a, <2>1, <2>2, <2>3, <2>8 DEF Moved
  <2>10. \A q, u \in Callers : pc'[q] = "on.count" /\ pc'[u] = "on.count" /\ sub'[q] = sub'[u] => q = u
    BY <1>a, <2>1, <2>2, <2>8 DEF Moved
  <2>11. \A q \in Callers : InOff(q)' => Single(q)'
    <3> SUFFICES ASSUME NEW q \in Callers, InOff(q)' PROVE Single(q)'
      OBVIOUS
    <3>1. q # p /\ InOff(q) /\ Single(q) /\ sub[q] \in Subs /\ sub[q] # s /\ pc'[q] = pc[q]
      BY <1>1, <1>a, <1>c, <2>1, <2>2, <2>4 DEF Moved
    <3>2. Registered(sub[q])' <=> Registered(sub[q])  BY <2>1, <3>1
    <3>3. \A u \in Callers : InOff(u)' => InOff(u)  BY <2>2, <2>4 DEF Moved
    <3>4. (Registered(sub[q]))' <=> Registered(sub[q])  BY <2>1, <3>1 DEF Registered
    <3> QED  BY <2>1, <3>1, <3>3, <3>4
  <2> QED  BY <1>b, <2>5, <2>7, <2>9, <2>10, <2>11
<1>4. ASSUME NEW p \in Callers, OnCount(p) PROVE OnceInv'
  <2> DEFINE s == sub[p]
  <2>1. /\ s \in Subs /\ pc[p] = "on.count" /\ phase[s] = "added"
        /\ pc' = [pc EXCEPT ![p] = "idle"] /\ phase' = [phase EXCEPT ![s] = "open"]
        /\ \A r \in Subs : Registered(r)' <=> Registered(r)
        /\ UNCHANGED <<sub, closer, offCalls>>
    BY <1>4, CountFacts
  <2>2. Moved(p, "idle")  BY <1>d, <2>1
  <2>3. phase'[s] = "open" /\ \A r \in Subs \ {s} : phase'[r] = phase[r]  BY <1>0, <2>1
  <2>4. ~InOff(p)' /\ ~InOff(p)  BY <2>1, <2>2 DEF InOff, OffPC, StopPC, Moved
  <2>5. \A r \in Subs : phase'[r] = "added" => \E q \in Callers : pc'[q] = "on.count" /\ sub'[q] = r
    <3> SUFFICES ASSUME NEW r \in Subs, phase'[r] = "added"
                 PROVE  \E q \in Callers : pc'[q] = "on.count" /\ sub'[q] = r
      OBVIOUS
    <3>1. r # s /\ phase[r] = "added"  BY <2>3
    <3>2. PICK q \in Callers : pc[q] = "on.count" /\ sub[q] = r  BY <1>a, <3>1
    <3>3. q # p  BY <3>1, <3>2
    <3> QED  BY <2>2, <3>2, <3>3 DEF Moved
  <2>6. offCalls[s] = 0
    <3>1. ~(offCalls[s] > 0) /\ offCalls[s] \in Nat  BY <1>0, <1>a, <2>1
    <3> QED  BY <3>1
  <2>7. \A r \in Subs : /\ offCalls'[r] > 0 => phase'[r] = "open"
                        /\ phase'[r] \in Published /\ offCalls'[r] = 0 => Registered(r)'
    BY <1>a, <2>1, <2>3, <2>6 DEF Published
  <2>8. \A q \in Callers \ {p} : pc[q] = "on.count" => sub[q] # s /\ sub[q] \in Subs
    BY <1>1, <1>a, <2>1
  <2>9. \A q \in Callers : pc'[q] = "on.count" => phase'[sub'[q]] = "added"
    BY <1>a, <2>1, <2>2, <2>3, <2>8 DEF Moved
  <2>10. \A q, u \in Callers : pc'[q] = "on.count" /\ pc'[u] = "on.count" /\ sub'[q] = sub'[u] => q = u
    BY <1>a, <2>1, <2>2, <2>8 DEF Moved
  <2>11. \A q \in Callers : InOff(q)' => Single(q)'
    <3> SUFFICES ASSUME NEW q \in Callers, InOff(q)' PROVE Single(q)'
      OBVIOUS
    <3>1. q # p /\ InOff(q) /\ Single(q) /\ sub[q] \in Subs /\ pc'[q] = pc[q]
      BY <1>1, <1>a, <2>2, <2>4 DEF Moved
    <3>2. Registered(sub[q])' <=> Registered(sub[q])  BY <2>1, <3>1
    <3>3. \A u \in Callers : InOff(u)' => InOff(u)  BY <2>2, <2>4 DEF Moved
    <3>4. (Registered(sub[q]))' <=> Registered(sub[q])  BY <2>1, <3>1 DEF Registered
    <3> QED  BY <2>1, <3>1, <3>3, <3>4
  <2> QED  BY <1>b, <2>5, <2>7, <2>9, <2>10, <2>11
<1>5. ASSUME NEW p \in Callers, NEW s \in Subs, OffBegin(p, s) PROVE OnceInv'
  <2>1. /\ pc[p] = "idle" /\ phase[s] = "open" /\ closer = None
        /\ pc' = [pc EXCEPT ![p] = "stop.cas"] /\ sub' = [sub EXCEPT ![p] = s]
        /\ offCalls' = [offCalls EXCEPT ![s] = @ + 1]
        /\ \A r \in Subs : Registered(r)' <=> Registered(r)
        /\ UNCHANGED <<phase, closer>>
    BY <1>5, CountFacts
  <2>2. Moved(p, "stop.cas") /\ sub'[p] = s  BY <1>0, <1>d, <2>1
  <2>3. offCalls'[s] = offCalls[s] + 1 /\ \A r \in Subs \ {s} : offCalls'[r] = offCalls[r]
    BY <1>0, <2>1
  <2>4. ~InOff(p)  BY <2>1 DEF InOff, OffPC, StopPC
  <2>5. \A q \in Callers : pc'[q] = "on.count" <=> pc[q] = "on.count" /\ q # p
    BY <2>1, <2>2 DEF Moved
  <2>6. \A q \in Callers : pc[q] = "on.count" => q # p /\ sub'[q] = sub[q]
    BY <2>1, <2>2 DEF Moved
  <2>7. \A r \in Subs : offCalls[r] \in Nat  BY <1>0
  <2>8. \A r \in Subs : /\ offCalls'[r] > 0 => phase'[r] = "open"
                        /\ phase'[r] \in Published /\ offCalls'[r] = 0 => Registered(r)'
    <3> SUFFICES ASSUME NEW r \in Subs
                 PROVE  /\ offCalls'[r] > 0 => phase'[r] = "open"
                        /\ phase'[r] \in Published /\ offCalls'[r] = 0 => Registered(r)'
      OBVIOUS
    <3>1. CASE r = s  BY <2>1, <2>3, <2>7, <3>1
    <3>2. CASE r # s  BY <1>a, <2>1, <2>3, <3>2
    <3> QED  BY <3>1, <3>2
  <2>9. \A r \in Subs : phase'[r] = "added" => \E q \in Callers : pc'[q] = "on.count" /\ sub'[q] = r
    BY <1>a, <2>1, <2>5, <2>6
  <2>10. \A q \in Callers : pc'[q] = "on.count" => phase'[sub'[q]] = "added"
    BY <1>a, <2>1, <2>5, <2>6
  <2>11. \A q, u \in Callers : pc'[q] = "on.count" /\ pc'[u] = "on.count" /\ sub'[q] = sub'[u] => q = u
    BY <1>a, <2>5, <2>6
  <2>12. ASSUME NEW q \in Callers, InOff(q)' PROVE Single(q)'
    <3>1. CASE q = p
      <4>1. sub'[q] = s /\ pc'[q] = "stop.cas" /\ offCalls'[s] > 0  BY <2>2, <2>3, <2>7, <3>1 DEF Moved
      <4>2. CASE offCalls[s] = 0
        <5>1. Registered(s)'  BY <1>a, <2>1, <4>2 DEF Published
        <5>2. \A u \in Callers : InOff(u) => sub[u] # s  BY <1>1, <1>a, <4>2
        <5>3. \A u \in Callers : InOff(u)' /\ sub'[u] = s => u = p  BY <2>2, <5>2 DEF Moved
        <5>4. (Registered(sub[q]))' BY <4>1, <5>1 DEF Registered
        <5> QED  BY <3>1, <4>1, <5>3, <5>4
      <4>3. CASE offCalls[s] # 0
        <5>1. offCalls'[s] # 1  BY <2>3, <2>7, <4>3
        <5> QED  BY <4>1, <5>1
      <4> QED  BY <4>2, <4>3
    <3>2. CASE q # p
      <4>1. InOff(q) /\ sub'[q] = sub[q] /\ pc'[q] = pc[q] /\ sub[q] \in Subs /\ Single(q)
        BY <1>1, <1>a, <2>2, <2>12, <3>2 DEF Moved
      <4>2. CASE sub[q] = s
        <5>1. offCalls'[s] > 0 /\ offCalls'[s] # 1  BY <2>3, <2>7, <4>1, <4>2
        <5> QED  BY <4>1, <4>2, <5>1
      <4>3. CASE sub[q] # s
        <5>1. offCalls'[sub[q]] = offCalls[sub[q]]  BY <2>3, <4>1, <4>3
        <5>2. (Registered(sub[q]))' <=> Registered(sub[q])  BY <2>1, <4>1 DEF Registered
        <5>3. \A u \in Callers : InOff(u)' /\ sub'[u] = sub[q] => InOff(u) /\ sub[u] = sub[q]
          BY <2>2, <4>3 DEF Moved
        <5> QED  BY <4>1, <5>1, <5>2, <5>3
      <4> QED  BY <4>2, <4>3
    <3> QED  BY <3>1, <3>2
  <2> QED  BY <1>b, <2>8, <2>9, <2>10, <2>11, <2>12
<1>6. ASSUME NEW p \in Callers, OffRemove(p) PROVE OnceInv'
  <2> DEFINE s == sub[p]
  <2>1. /\ s \in Subs /\ pc[p] = "off.remove" /\ pc' = [pc EXCEPT ![p] = "off.count"]
        /\ \A r \in Subs : Registered(r)' <=> Registered(r) /\ r # s
        /\ UNCHANGED <<sub, phase, closer, offCalls>>
    BY <1>6, CountFacts
  <2>2. Moved(p, "off.count")  BY <1>d, <2>1
  <2>3. InOff(p)' /\ InOff(p) /\ Single(p)  BY <1>a, <2>1, <2>2 DEF InOff, OffPC, Moved
  <2>4. \A q \in Callers : pc'[q] = "on.count" <=> pc[q] = "on.count"
    BY <2>1, <2>2 DEF Moved
  <2>5. \A r \in Subs : /\ offCalls'[r] > 0 => phase'[r] = "open"
                        /\ phase'[r] \in Published /\ offCalls'[r] = 0 => Registered(r)'
    BY <1>a, <2>1, <2>3
  <2>6. ASSUME NEW q \in Callers, InOff(q)' PROVE Single(q)'
    <3>1. InOff(q) /\ sub[q] \in Subs /\ Single(q)
      BY <1>1, <1>a, <2>2, <2>3, <2>6 DEF Moved
    <3>2. \A u \in Callers : InOff(u)' => InOff(u)  BY <2>2, <2>3 DEF Moved
    <3>3. (Registered(sub[q]))' <=> Registered(sub[q]) /\ sub[q] # s
      BY <2>1, <3>1 DEF Registered
    <3>4. CASE q = p  BY <2>1, <2>2, <3>1, <3>2, <3>3, <3>4 DEF Moved
    <3>5. CASE q # p
      <4>1. pc'[q] = pc[q]  BY <2>2, <3>5 DEF Moved
      <4>2. offCalls[sub[q]] = 1 => sub[q] # s  BY <2>3, <3>1, <3>5
      <4> QED  BY <2>1, <3>1, <3>2, <3>3, <4>1, <4>2
    <3> QED  BY <3>4, <3>5
  <2> QED  BY <1>a, <1>b, <2>1, <2>4, <2>5, <2>6
<1>7. ASSUME NEW p \in Callers, OffCount(p) PROVE OnceInv'
  <2> DEFINE s == sub[p]
  <2>1. /\ s \in Subs /\ pc[p] = "off.count" /\ pc' = [pc EXCEPT ![p] = "idle"]
        /\ \A r \in Subs : Registered(r)' <=> Registered(r)
        /\ UNCHANGED <<sub, phase, closer, offCalls>>
    BY <1>7, CountFacts
  <2>2. Moved(p, "idle")  BY <1>d, <2>1
  <2>3. ~InOff(p)'  BY <2>2 DEF InOff, OffPC, StopPC, Moved
  <2>4. \A q \in Callers : pc'[q] = "on.count" <=> pc[q] = "on.count"
    BY <2>1, <2>2 DEF Moved
  <2>5. \A r \in Subs : /\ offCalls'[r] > 0 => phase'[r] = "open"
                        /\ phase'[r] \in Published /\ offCalls'[r] = 0 => Registered(r)'
    BY <1>a, <2>1
  <2>6. ASSUME NEW q \in Callers, InOff(q)' PROVE Single(q)'
    <3>1. q # p /\ InOff(q) /\ sub[q] \in Subs /\ Single(q) /\ pc'[q] = pc[q]
      BY <1>1, <1>a, <2>2, <2>3, <2>6 DEF Moved
    <3>2. \A u \in Callers : InOff(u)' => InOff(u)  BY <2>2, <2>3 DEF Moved
    <3>3. (Registered(sub[q]))' <=> Registered(sub[q])  BY <2>1, <3>1 DEF Registered
    <3> QED  BY <2>1, <3>1, <3>2, <3>3
  <2> QED  BY <1>a, <1>b, <2>1, <2>4, <2>5, <2>6
<1> QED  BY <1>0, <1>2, <1>3, <1>4, <1>5, <1>6, <1>7, CountKinds

\* The subscriptions of topic t that the metric counts.
CountedSubs(t) == {s \in Subs : SubTopic[s] = t /\ InCount(s)}

\* A metric moves with the subscriptions it counts.
LEMMA CountMoves ==
  ASSUME NEW t \in Topics, TypeOK,
         \/ CountedSubs(t)' = CountedSubs(t) /\ subscribed'[t] = subscribed[t]
         \/ \E s \in Subs \ CountedSubs(t) :
              CountedSubs(t)' = CountedSubs(t) \cup {s} /\ subscribed'[t] = subscribed[t] + 1
         \/ \E s \in CountedSubs(t) :
              /\ CountedSubs(t)' = CountedSubs(t) \ {s}
              /\ subscribed'[t] = IF subscribed[t] > 0 THEN subscribed[t] - 1 ELSE subscribed[t],
         subscribed[t] = Cardinality(CountedSubs(t))
  PROVE  subscribed'[t] = Cardinality(CountedSubs(t))'
<1>1. IsFiniteSet(CountedSubs(t)) /\ Cardinality(CountedSubs(t)) \in Nat
  <2>1. CountedSubs(t) \in SUBSET Subs /\ IsFiniteSet(Subs)
    BY BusAssumption DEF BusAssumption, CountedSubs
  <2> QED  BY <2>1, FS_Subset, FS_CardinalityType
<1>2. CASE CountedSubs(t)' = CountedSubs(t) /\ subscribed'[t] = subscribed[t]
  BY <1>2
<1>3. ASSUME NEW s \in Subs \ CountedSubs(t),
             CountedSubs(t)' = CountedSubs(t) \cup {s}, subscribed'[t] = subscribed[t] + 1
      PROVE  subscribed'[t] = Cardinality(CountedSubs(t))'
  <2>1. Cardinality(CountedSubs(t) \cup {s}) = Cardinality(CountedSubs(t)) + 1
    BY <1>1, FS_AddElement
  <2> QED  BY <1>3, <2>1
<1>4. ASSUME NEW s \in CountedSubs(t), CountedSubs(t)' = CountedSubs(t) \ {s},
             subscribed'[t] = IF subscribed[t] > 0 THEN subscribed[t] - 1 ELSE subscribed[t]
      PROVE  subscribed'[t] = Cardinality(CountedSubs(t))'
  <2>1. Cardinality(CountedSubs(t) \ {s}) = Cardinality(CountedSubs(t)) - 1
    BY <1>1, FS_RemoveElement
  <2>2. CountedSubs(t) # {}  BY <1>4
  <2>3. Cardinality(CountedSubs(t)) # 0  BY <1>1, <2>2, FS_EmptySet
  <2> QED  BY <1>1, <1>4, <2>1, <2>3
<1> QED  BY <1>2, <1>3, <1>4

\* Every step keeps CountInv.
LEMMA CountStep ==
  ASSUME StopInv, ListInv, CloseInv, OnceInv, CountInv, Next
  PROVE  CountInv'
<1>0. /\ TypeOK /\ phase \in [Subs -> {"fresh", "starting", "added", "open"}]
      /\ pc \in [Callers -> {"idle"} \cup EmitPC \cup OnPC \cup StopPC \cup OffPC \cup ClosePC]
      /\ sub \in [Callers -> Subs \cup {None}] /\ SubTopic \in [Subs -> Topics]
      /\ subscribed \in [Topics -> Nat] /\ offCalls \in [Subs -> 0..MaxOffCalls] /\ MaxOffCalls \in Nat
      /\ PublishInv /\ \A t \in Topics : \A s \in Range(subscribers[t]) : SubTopic[s] = t
  BY Sizes DEF StopInv, TypeOK, CallTypes, SubTypes, ObsTypes, ListInv
<1>1. SUFFICES ASSUME EnableMetrics, NEW t \in Topics,
                      \A s \in Subs : SubTopic[s] = t => offCalls'[s] <= 1
               PROVE  subscribed'[t] = Cardinality(CountedSubs(t))'
  BY DEF CountInv, CountedSubs
<1>2. \A s \in Subs : SubTopic[s] = t => offCalls[s] <= 1
  <2>1. \A s \in Subs : offCalls[s] \in Nat /\ (offCalls'[s] = offCalls[s] \/ offCalls'[s] = offCalls[s] + 1)
    <3>1. CASE CountStill  BY <1>0, <3>1 DEF CountStill
    <3>2. ASSUME NEW p \in Callers, OnAdd(p) \/ OnCount(p) \/ OffRemove(p) \/ OffCount(p)
          PROVE  UNCHANGED offCalls
      BY <3>2, CountFacts
    <3>3. ASSUME NEW p \in Callers, NEW s \in Subs, OffBegin(p, s)
          PROVE  offCalls' = [offCalls EXCEPT ![s] = @ + 1]
      BY <3>3, CountFacts
    <3> QED  BY <1>0, <3>1, <3>2, <3>3, CountKinds
  <2> QED  BY <1>1, <2>1
<1>3. subscribed[t] = Cardinality(CountedSubs(t))
  BY <1>1, <1>2 DEF CountInv, CountedSubs
\* It is enough to see which subscriptions come into the count and which leave it.
<1>a. ASSUME \A s \in Subs : SubTopic[s] = t => (InCount(s)' <=> InCount(s)),
             subscribed'[t] = subscribed[t]
      PROVE  subscribed'[t] = Cardinality(CountedSubs(t))'
  <2>1. CountedSubs(t)' = CountedSubs(t)  BY <1>a DEF CountedSubs
  <2> QED  BY <1>0, <1>3, <1>a, <2>1, CountMoves
<1>b. \A s \in Subs : offCalls[s] > 0 => phase[s] = "open"  BY DEF OnceInv
<1>4. CASE CountStill
  <2>1. \A s \in Subs : (Registered(s)' <=> Registered(s)) /\ (phase'[s] = "open" <=> phase[s] = "open")
    BY <1>4 DEF CountStill, Registered, Published
  <2>2. \A p \in Callers : pc[p] = "off.count" => InOff(p)  BY DEF InOff, OffPC
  <2>3. \A p \in Callers, s \in Subs :
          pc'[p] = "off.count" /\ sub'[p] = s <=> pc[p] = "off.count" /\ sub[p] = s
    BY <1>4, <2>2 DEF CountStill
  <2>4. \A s \in Subs : InCount(s)' <=> InCount(s)  BY <2>1, <2>3 DEF InCount
  <2> QED  BY <1>4, <1>a, <2>4 DEF CountStill
<1>5. ASSUME NEW p \in Callers, OnAdd(p) PROVE subscribed'[t] = Cardinality(CountedSubs(t))'
  <2>1. /\ sub[p] \in Subs /\ pc[p] = "on.add" /\ phase[sub[p]] = "starting"
        /\ pc' = [pc EXCEPT ![p] = "on.count"] /\ phase' = [phase EXCEPT ![sub[p]] = "added"]
        /\ \A s \in Subs : Registered(s)' <=> Registered(s) \/ s = sub[p]
        /\ UNCHANGED <<sub, subscribed>>
    BY <1>5, CountFacts
  <2>2. \A q \in Callers : pc'[q] = "off.count" <=> pc[q] = "off.count"  BY <1>0, <2>1
  <2>3. \A s \in Subs : phase'[s] = "open" <=> phase[s] = "open"  BY <1>0, <2>1
  <2>4. \A s \in Subs : InCount(s)' <=> InCount(s)  BY <2>1, <2>2, <2>3 DEF InCount
  <2> QED  BY <1>a, <2>1, <2>4
<1>6. ASSUME NEW p \in Callers, OnCount(p) PROVE subscribed'[t] = Cardinality(CountedSubs(t))'
  <2> DEFINE s == sub[p]
  <2>1. /\ s \in Subs /\ pc[p] = "on.count" /\ phase[s] = "added"
        /\ pc' = [pc EXCEPT ![p] = "idle"] /\ phase' = [phase EXCEPT ![s] = "open"]
        /\ \A r \in Subs : Registered(r)' <=> Registered(r)
        /\ UNCHANGED sub
    BY <1>6, CountFacts
  <2>2. subscribed' = [subscribed EXCEPT ![SubTopic[s]] = @ + 1]  BY <1>1, <1>6 DEF OnCount
  <2>3. \A q \in Callers : pc'[q] = "off.count" <=> pc[q] = "off.count"  BY <1>0, <2>1
  <2>4. \A r \in Subs \ {s} : InCount(r)' <=> InCount(r)  BY <1>0, <2>1, <2>3 DEF InCount
  <2>5. offCalls[s] = 0
    <3>1. ~(offCalls[s] > 0)  BY <1>b, <2>1
    <3> QED  BY <1>0, <2>1, <3>1
  <2>6. Registered(s)  BY <2>1, <2>5 DEF OnceInv, Published
  <2>7. InCount(s)' /\ ~InCount(s)
    <3>1. phase'[s] = "open"  BY <1>0, <2>1
    <3>2. Registered(s)'  BY <2>1, <2>6
    <3>3. ~InCount(s)  BY <2>1 DEF InCount
    <3>4. PICK r \in Subs : r = s /\ r = sub[p] /\ r = sub'[p]  BY <2>1
    <3>5. InCount(r)'  BY <2>1, <2>6, <3>1, <3>4 DEF InCount
    <3> QED  BY <2>1, <3>3, <3>4, <3>5 DEF InCount, Registered
  <2>8. CASE SubTopic[s] = t
    <3>1. s \in Subs \ CountedSubs(t) /\ CountedSubs(t)' = CountedSubs(t) \cup {s}
      BY <2>1, <2>4, <2>7, <2>8 DEF CountedSubs
    <3>2. subscribed'[t] = subscribed[t] + 1  BY <1>0, <2>2, <2>8
    <3> QED  BY <1>0, <1>3, <3>1, <3>2, CountMoves
  <2>9. CASE SubTopic[s] # t
    <3>1. subscribed'[t] = subscribed[t]  BY <1>0, <2>2, <2>9
    <3> QED  BY <1>a, <2>4, <2>9, <3>1
  <2> QED  BY <2>8, <2>9
<1>7. ASSUME NEW p \in Callers, NEW s \in Subs, OffBegin(p, s)
      PROVE  subscribed'[t] = Cardinality(CountedSubs(t))'
  <2>1. /\ pc[p] = "idle" /\ pc' = [pc EXCEPT ![p] = "stop.cas"] /\ sub' = [sub EXCEPT ![p] = s]
        /\ \A r \in Subs : Registered(r)' <=> Registered(r)
        /\ UNCHANGED <<phase, subscribed>>
    BY <1>7, CountFacts
  <2>2. \A q \in Callers, r \in Subs : pc'[q] = "off.count" /\ sub'[q] = r <=> pc[q] = "off.count" /\ sub[q] = r
    BY <1>0, <2>1
  <2>3. \A r \in Subs : InCount(r)' <=> InCount(r)  BY <2>1, <2>2 DEF InCount
  <2> QED  BY <1>a, <2>1, <2>3
<1>8. ASSUME NEW p \in Callers, OffRemove(p) PROVE subscribed'[t] = Cardinality(CountedSubs(t))'
  <2> DEFINE s == sub[p]
  <2>1. /\ s \in Subs /\ pc[p] = "off.remove" /\ pc' = [pc EXCEPT ![p] = "off.count"]
        /\ \A r \in Subs : Registered(r)' <=> Registered(r) /\ r # s
        /\ UNCHANGED <<sub, phase, offCalls, subscribed>>
    BY <1>8, CountFacts
  <2>2. InOff(p)  BY <2>1 DEF InOff, OffPC
  <2>3. offCalls[s] > 0 /\ (offCalls[s] = 1 => Registered(s))  BY <2>1, <2>2 DEF OnceInv
  <2>4. pc'[p] = "off.count" /\ \A q \in Callers \ {p} : pc'[q] = pc[q]  BY <1>0, <2>1
  <2>5. \A r \in Subs \ {s} : InCount(r)' <=> InCount(r)
    <3>1. \A r \in Subs \ {s}, q \in Callers : pc'[q] = "off.count" /\ sub[q] = r <=> pc[q] = "off.count" /\ sub[q] = r
      BY <2>1, <2>4
    <3> QED  BY <2>1, <3>1 DEF InCount
  <2>6. SubTopic[s] = t => InCount(s) /\ InCount(s)'
    <3> SUFFICES ASSUME SubTopic[s] = t PROVE InCount(s) /\ InCount(s)'
      OBVIOUS
    <3>1. offCalls[s] = 1  BY <1>0, <1>2, <2>1, <2>3
    <3>2. phase[s] = "open"  BY <1>b, <2>1, <2>3
    <3>3. InCount(s)  BY <2>3, <3>1, <3>2 DEF InCount
    <3>4. InCount(s)'  BY <2>1, <2>4, <3>2 DEF InCount
    <3> QED  BY <3>3, <3>4
  <2>7. \A r \in Subs : SubTopic[r] = t => (InCount(r)' <=> InCount(r))
    <3> SUFFICES ASSUME NEW r \in Subs, SubTopic[r] = t PROVE InCount(r)' <=> InCount(r)
      OBVIOUS
    <3>1. CASE r # s  BY <2>5, <3>1
    <3>2. CASE r = s
      <4>1. InCount(r)  BY <2>6, <3>2 DEF InCount, Registered
      <4>2. InCount(r)'
        <5>1. phase[r] = "open"  BY <4>1 DEF InCount
        <5> QED  BY <2>1, <2>4, <3>2, <5>1 DEF InCount
      <4> QED  BY <4>1, <4>2
    <3> QED  BY <3>1, <3>2
  <2> QED  BY <1>a, <2>1, <2>7
<1>9. ASSUME NEW p \in Callers, OffCount(p) PROVE subscribed'[t] = Cardinality(CountedSubs(t))'
  <2> DEFINE s == sub[p]
  <2>1. /\ s \in Subs /\ pc[p] = "off.count" /\ pc' = [pc EXCEPT ![p] = "idle"]
        /\ \A r \in Subs : Registered(r)' <=> Registered(r)
        /\ UNCHANGED <<sub, phase, offCalls>>
    BY <1>9, CountFacts
  <2>2. /\ s \in Subs
        /\ subscribed' = IF subscribed[SubTopic[s]] > 0 THEN [subscribed EXCEPT ![SubTopic[s]] = @ - 1]
                                                         ELSE subscribed
    BY <1>1, <1>9, <2>1 DEF OffCount
  <2>3. InOff(p)  BY <2>1 DEF InOff, OffPC
  <2>4. pc'[p] = "idle" /\ \A q \in Callers \ {p} : pc'[q] = pc[q]  BY <1>0, <2>1
  <2>5. \A r \in Subs \ {s} : InCount(r)' <=> InCount(r)
    <3>1. \A r \in Subs \ {s}, q \in Callers : pc'[q] = "off.count" /\ sub[q] = r <=> pc[q] = "off.count" /\ sub[q] = r
      BY <2>1, <2>4
    <3> QED  BY <2>1, <3>1 DEF InCount
  <2>6. CASE SubTopic[s] # t
    <3>1. subscribed'[t] = subscribed[t]  BY <1>0, <2>2, <2>6
    <3> QED  BY <1>a, <2>5, <2>6, <3>1
  <2>7. CASE SubTopic[s] = t
    <3>1. /\ offCalls[s] > 0 /\ phase[s] = "open"
          /\ offCalls[s] = 1 => /\ ~Registered(s)
                                /\ \A q \in Callers : InOff(q) /\ sub[q] = s => q = p
      BY <1>b, <2>1, <2>3 DEF OnceInv
    <3>2. offCalls[s] = 1  BY <1>0, <1>2, <2>1, <2>7, <3>1
    <3>3. s \in CountedSubs(t)  BY <2>1, <2>7, <3>1 DEF CountedSubs, InCount
    <3>4. PICK r \in Subs : r = s  BY <2>1
    <3>5. ~InCount(r)'
      <4>1. ~Registered(r)'  BY <2>1, <3>1, <3>2, <3>4 DEF Registered
      <4>2. \A q \in Callers : pc[q] = "off.count" /\ sub[q] = r => q = p
        BY <3>1, <3>2, <3>4 DEF InOff, OffPC
      <4> QED  BY <2>1, <2>4, <4>1, <4>2 DEF InCount
    <3>6. CountedSubs(t)' = CountedSubs(t) \ {s}
      <4>1. \A u \in Subs : u \in CountedSubs(t)' <=> u \in CountedSubs(t) /\ u # s
        BY <2>5, <3>4, <3>5 DEF CountedSubs
      <4> QED  BY <4>1 DEF CountedSubs
    <3>7. subscribed'[t] = IF subscribed[t] > 0 THEN subscribed[t] - 1 ELSE subscribed[t]
      BY <1>0, <2>2, <2>7
    <3> QED  BY <1>0, <1>3, <3>3, <3>6, <3>7, CountMoves
  <2> QED  BY <2>6, <2>7
<1> QED  BY <1>0, <1>4, <1>5, <1>6, <1>7, <1>8, <1>9, CountKinds

------------------------------------------------------------------------------
(* The theorems about the metrics *)

\* Nothing is recorded, counted or registered at first.
LEMMA InitMetric == Init => MetricInv
<1> SUFFICES ASSUME Init PROVE MetricInv
  OBVIOUS
<1>1. RecordInv  BY DEF Init, RecordInv, Early, EmitPC
<1>2. \A e \in Events : Takers(e) = {}  BY DEF Init, Takers, Accepted
<1>3. HitsInv
  <2>1. \A t \in Topics : {d \in Subs \X Events :
          EventTopic[d[2]] = t /\ stage[d[2]] = "done" /\ fate[d[1]][d[2]] \in Accepted} = {}
    BY DEF Init
  <2> QED  BY <1>2, <2>1, FS_EmptySet DEF Init, HitsInv, DeliveredAgrees, Early
<1>4. \A s \in Subs : ~Registered(s) /\ phase[s] = "fresh"
  BY Sizes DEF Init, Registered, Range
<1>5. OnceInv  BY <1>4 DEF Init, OnceInv, Published, InOff, OffPC, StopPC
<1>6. CountInv
  <2>1. \A t \in Topics : {s \in Subs : SubTopic[s] = t /\ InCount(s)} = {}
    BY <1>4 DEF InCount
  <2> QED  BY <2>1, FS_EmptySet DEF Init, CountInv
<1> QED  BY <1>1, <1>3, <1>5, <1>6 DEF MetricInv

\* MetricInv is inductive on top of StopInv, FateInv and CloseInv.
LEMMA NextMetric == StopInv /\ FateInv /\ CloseInv /\ MetricInv /\ [Next]_vars => MetricInv'
<1> SUFFICES ASSUME StopInv, FateInv, CloseInv, MetricInv, [Next]_vars PROVE MetricInv'
  OBVIOUS
<1>0. TypeOK /\ StartInv  BY DEF StopInv
<1>1. CASE Next
  <2>1. RecordInv'  BY <1>0, <1>1, RecordStep DEF FateInv, MetricInv
  <2>2. HitsInv'  BY <1>0, <1>1, HitsStep DEF FateInv, MetricInv
  <2>3. OnceInv'  BY <1>1, OnceStep DEF FateInv, MetricInv
  <2>4. CountInv'  BY <1>1, CountStep DEF FateInv, MetricInv
  <2> QED  BY <2>1, <2>2, <2>3, <2>4 DEF MetricInv
<1>2. CASE UNCHANGED vars
  <2>1. UNCHANGED <<closer, subscribers, phase, offCalls, pc, sub, ev, stage, hits, history,
                    emitted, delivered, subscribed, fate>>
    BY <1>2 DEF vars, busVars, subVars, callVars, taskVars, obsVars
  <2>2. RecordInv'  BY <2>1 DEF MetricInv, RecordInv, Recorded, Counted
  <2>3. HitsInv'  BY <2>1 DEF MetricInv, HitsInv, Takers, DeliveredAgrees
  <2>4. OnceInv'  BY <2>1 DEF MetricInv, OnceInv, InOff, Registered
  <2>5. CountInv'  BY <2>1 DEF MetricInv, CountInv, InCount, Registered
  <2> QED  BY <2>2, <2>3, <2>4, <2>5 DEF MetricInv
<1> QED  BY <1>1, <1>2

\* MetricInv holds in every run.
THEOREM MetricInvariant == Spec => []MetricInv
BY InitMetric, NextMetric, StopInvariant, FateInvariant, CloseInvariant, PTL DEF Spec

\* When an event reaches a subscription it is already counted as emitted, and in
\* the history unless newer ones have pushed it out.
THEOREM RecordedFirst == Spec => []RecordedBeforeDelivered
<1>1. RouteInv /\ RecordInv => RecordedBeforeDelivered
  BY DEF RouteInv, RecordInv, Recorded, Counted, RecordedBeforeDelivered
<1> QED  BY <1>1, FateInvariant, MetricInvariant, PTL DEF FateInv, MetricInv

\* The delivered metric counts, for the deliveries that ran to their end, the
\* subscriptions that accepted the event.
THEOREM DeliveredCounts == Spec => []DeliveredAgrees
<1>1. MetricInv => DeliveredAgrees  BY DEF MetricInv, HitsInv
<1> QED  BY <1>1, MetricInvariant, PTL

\* Between calls the subscribed metric of a topic is the length of the topic's
\* list, unless a subscription of the topic was given to Off twice.
THEOREM SubscribedCounts == Spec => []SubscribedAgrees
<1>1. StopInv /\ FateInv /\ MetricInv => SubscribedAgrees
  <2> SUFFICES ASSUME StopInv, FateInv, MetricInv, EnableMetrics, NEW t \in Topics,
                      \A p \in Callers : pc[p] = "idle",
                      \A s \in Subs : SubTopic[s] = t => offCalls[s] <= 1
               PROVE  subscribed[t] = Len(subscribers[t])
    BY DEF SubscribedAgrees
  <2>0. /\ subscribers \in [Topics -> Seq(Subs)] /\ SubTopic \in [Subs -> Topics]
        /\ \A s \in Range(subscribers[t]) : phase[s] \in Published
    BY Sizes DEF StopInv, TypeOK, BusTypes, PublishInv
  <2>1. IsInjective(subscribers[t]) /\ \A s \in Range(subscribers[t]) : SubTopic[s] = t
    BY DEF FateInv, ListInv
  <2>2. Range(subscribers[t]) \subseteq Subs  BY <2>0 DEF Range
  <2>3. \A s \in Subs : phase[s] # "added"  BY DEF MetricInv, OnceInv
  <2>4. {s \in Subs : SubTopic[s] = t /\ InCount(s)} = Range(subscribers[t])
    <3>1. \A s \in Subs : SubTopic[s] = t /\ InCount(s) => s \in Range(subscribers[t])
      BY DEF InCount, Registered
    <3>2. \A s \in Range(subscribers[t]) : s \in Subs /\ SubTopic[s] = t /\ InCount(s)
      BY <2>0, <2>1, <2>2, <2>3 DEF InCount, Registered, Published
    <3> QED  BY <3>1, <3>2
  <2>5. subscribed[t] = Cardinality({s \in Subs : SubTopic[s] = t /\ InCount(s)})
    BY DEF MetricInv, CountInv
  <2>6. Cardinality(Range(subscribers[t])) = Len(subscribers[t])
    BY <2>0, <2>1, LenDistinct
  <2> QED  BY <2>4, <2>5, <2>6
<1> QED  BY <1>1, StopInvariant, FateInvariant, MetricInvariant, PTL

===============================================================================
