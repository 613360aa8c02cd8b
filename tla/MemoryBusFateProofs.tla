-------------------------- MODULE MemoryBusFateProofs --------------------------
(***************************************************************************)
(* What becomes of the events: they reach only subscriptions of their own  *)
(* topic, and what became of one at a subscription is final.  The          *)
(* inductive invariant is FateInv, on top of StopInv.                      *)
(***************************************************************************)
EXTENDS MemoryBusProofs, ListProofs

USE DEF At, Goto

\* What is cut out of a list without repetition is gone, and nothing else is.
LEMMA WithoutDistinct ==
  ASSUME NEW S, NEW q \in Seq(S), NEW x, IsInjective(q)
  PROVE  IsInjective(Without(q, x)) /\ Range(Without(q, x)) = Range(q) \ {x}
<1>1. CASE \E i \in DOMAIN q : q[i] = x
  <2> DEFINE k == CHOOSE i \in DOMAIN q : q[i] = x
  <2>1. k \in DOMAIN q /\ q[k] = x /\ Without(q, x) = SubSeq(q, 1, k - 1) \o SubSeq(q, k + 1, Len(q))
    BY <1>1 DEF Without
  <2> HIDE DEF k
  <2> QED  BY <2>1, CutDistinct
<1>2. CASE ~ \E i \in DOMAIN q : q[i] = x
  BY <1>2 DEF Without, Range
<1> QED  BY <1>1, <1>2

------------------------------------------------------------------------------
(* The kinds of steps *)

\* No worker takes an event or is done with one, but perhaps those in W.
HandsKept(W) ==
  \A w \in Workers \ W : /\ wpc'[w] \in Hand <=> wpc[w] \in Hand
                         /\ wev'[w] = wev[w]

\* No event moves; a delivery may come to an end.
Still ==
  /\ UNCHANGED <<fate, eventCh, todo>> /\ HandsKept({})
  /\ \A e \in Events : target'[e] # None =>
       target'[e] = target[e] /\ (stage[e] = "delivering" => stage'[e] = "delivering")

\* Only the fate of e at s changes, to f.
Moves(s, e, f) ==
  \A r \in Subs, d \in Events : fate'[r][d] = IF r = s /\ d = e THEN f ELSE fate[r][d]

\* A worker is done with its event.
Ends(w) ==
  /\ wpc[w] \in Hand /\ wpc'[w] \notin Hand /\ wev'[w] = None /\ HandsKept({w})
  /\ \E f \in Terminal \ {"refused"} : Moves(w[1], wev[w], f)
  /\ UNCHANGED <<eventCh, todo, target, stage>>

Kinds ==
  \/ Still
  \/ \E p \in Callers : EmitLookup(p)
  \/ \E e \in Events : DeliverCheck(e) \/ DeliverSend(e) \/ DeliverRefuse(e)
  \/ \E e \in Events, w \in Workers : DeliverHandoff(e, w)
  \/ \E w \in Workers : WorkerReceive(w) \/ Ends(w)

\* Settling changes one fate.
LEMMA SettleMoves ==
  ASSUME TypeOK, NEW s \in Subs, NEW e \in Events, NEW f, Settle(s, e, f)
  PROVE  Moves(s, e, f)
<1>1. fate \in [Subs -> [Events -> {"none"} \cup Accepted \cup Terminal]]
  BY DEF TypeOK, ObsTypes
<1> QED  BY <1>1 DEF Settle, Moves

\* A worker that finishes is done with its event.
LEMMA FinishEnds ==
  ASSUME TypeOK, NEW w \in Workers, NEW f \in Terminal \ {"refused"}, wpc[w] \in Hand, Finish(w, f),
         UNCHANGED <<eventCh, taskVars>>
  PROVE  Ends(w)
<1>1. w[1] \in Subs /\ wev[w] \in Events
  BY DEF TypeOK, WorkTypes, Hand, Workers
<1>2. Moves(w[1], wev[w], f)  BY <1>1, SettleMoves DEF Finish
<1> QED  BY <1>2 DEF Finish, Ends, HandsKept, Hand, TypeOK, WorkTypes, taskVars

\* Every step is of one of the kinds.
LEMMA KindOfStep ==
  ASSUME TypeOK, StartInv, EmitInv, HandInv, Next
  PROVE  Kinds
<1> USE DEF Still, HandsKept, Hand, TypeOK, WorkTypes
<1>1. ASSUME NEW p \in Callers, NEW e \in Events, EmitBegin(p, e) PROVE Still
  BY <1>1 DEF EmitBegin, workVars, TaskTypes
<1>2. ASSUME NEW p \in Callers, EmitRecord(p) PROVE Still
  BY <1>2 DEF EmitRecord, workVars, taskVars
<1>3. ASSUME NEW p \in Callers, EmitCount(p) PROVE Still
  BY <1>3 DEF EmitCount, workVars, taskVars
<1>4. ASSUME NEW p \in Callers, EmitSubmit(p) PROVE Still
  BY <1>4 DEF EmitSubmit, workVars, TaskTypes, EmitInv, EmitPC
<1>5. ASSUME NEW p \in Callers, EmitAcquire(p) PROVE Still
  BY <1>5 DEF EmitAcquire, workVars, TaskTypes, EmitInv, EmitPC
<1>6. ASSUME NEW p \in Callers, NEW s \in Subs, OnBegin(p, s) \/ OffBegin(p, s) PROVE Still
  BY <1>6 DEF OnBegin, OffBegin, workVars, taskVars
<1>7. ASSUME NEW p \in Callers, OnSubmit(p) PROVE Still
  BY <1>7 DEF OnSubmit, workVars, taskVars
<1>8. ASSUME NEW p \in Callers, OnAcquire(p) PROVE Still
  <2>1. UNCHANGED <<fate, eventCh, todo, target, stage, wev>>  BY <1>8 DEF OnAcquire, taskVars
  <2>2. wpc' = wpc \/ (wpc' = [wpc EXCEPT ![<<sub[p], launched[sub[p]] + 1>>] = "select"]
                        /\ wpc[<<sub[p], launched[sub[p]] + 1>>] = "unstarted")
    <3>1. sub[p] \in Subs /\ launched[sub[p]] + 1 \in 1..Concurrency
      BY <1>8, Sizes DEF OnAcquire, CallTypes, SubTypes, OnPC, StartPC
    <3>2. launched[sub[p]] \in Int /\ launched[sub[p]] + 1 > launched[sub[p]]
      BY <3>1 DEF SubTypes
    <3> QED  BY <1>8, <3>1, <3>2 DEF OnAcquire, StartInv, Workers
  <2> QED  BY <2>1, <2>2
<1>9. ASSUME NEW p \in Callers, OnAdd(p) \/ OnCount(p) PROVE Still
  BY <1>9 DEF OnAdd, OnCount, workVars, taskVars
<1>10. ASSUME NEW p \in Callers, StopNext(p) \/ OffNext(p) PROVE Still
  BY <1>10 DEF StopNext, OffNext, StopCas, StopSignal, StopWait, OffRemove, OffCount, workVars, taskVars
<1>11. ASSUME NEW p \in Callers, CloseBegin(p) \/ CloseNextStep(p) PROVE Still
  BY <1>11 DEF CloseBegin, CloseNextStep, CloseCollect, CloseNext, CloseRelease, workVars, taskVars
<1>12. ASSUME NEW e \in Events, DeliverPanic(e) PROVE Still
  BY <1>12 DEF DeliverPanic, workVars, TaskTypes
<1>13. ASSUME NEW e \in Events, DeliverDone(e) PROVE Still
  BY <1>13 DEF DeliverDone, workVars, TaskTypes
<1>14. ASSUME NEW w \in Workers, WorkerQuit(w) PROVE Still
  <2>1. wpc[w] = "select" /\ wpc' = [wpc EXCEPT ![w] = "exited"] /\ wev' = [wev EXCEPT ![w] = None]
    BY <1>14 DEF WorkerQuit, Exit
  <2>2. UNCHANGED <<fate, eventCh, todo, target, stage>>  BY <1>14 DEF WorkerQuit, Exit, taskVars
  <2>3. wev[w] = None  BY <2>1 DEF HandInv
  <2> QED  BY <2>1, <2>2, <2>3
<1>15. ASSUME NEW w \in Workers, BackoffElapses(w) PROVE Still
  BY <1>15 DEF BackoffElapses, taskVars
<1>16. ASSUME NEW w \in Workers, HandlerSucceeds(w) PROVE Ends(w)
  BY <1>16, FinishEnds DEF HandlerSucceeds, InHandler, Terminal
<1>17. ASSUME NEW w \in Workers, BackoffStopped(w) PROVE Ends(w)
  BY <1>17, FinishEnds DEF BackoffStopped, Terminal
<1>18. ASSUME NEW w \in Workers, HandlerFails(w) PROVE Still \/ Ends(w)
  <2>1. CASE attempt[w] < MaxRetries[w[1]]
    BY <1>18, <2>1 DEF HandlerFails, InHandler, taskVars
  <2>2. CASE ~(attempt[w] < MaxRetries[w[1]])
    <3>1. Finish(w, "failed") /\ wpc[w] \in Hand /\ UNCHANGED <<eventCh, taskVars>>
      BY <1>18, <2>2 DEF HandlerFails, InHandler
    <3>2. "failed" \in Terminal \ {"refused"}  BY DEF Terminal
    <3> QED  BY <3>1, <3>2, FinishEnds
  <2> QED  BY <2>1, <2>2
<1>19. ASSUME NEW w \in Workers, HandlerPanics(w) PROVE Ends(w)
  <2>1. wpc[w] = "handle" /\ wpc' = [wpc EXCEPT ![w] = "exited"] /\ wev' = [wev EXCEPT ![w] = None]
        /\ UNCHANGED <<eventCh, todo, target, stage>>
    BY <1>19 DEF HandlerPanics, InHandler, Exit, taskVars
  <2>2. w[1] \in Subs /\ wev[w] \in Events  BY <2>1 DEF Workers
  <2>3. Moves(w[1], wev[w], "panicked")  BY <1>19, <2>2, SettleMoves DEF HandlerPanics
  <2>4. "panicked" \in Terminal \ {"refused"}  BY DEF Terminal
  <2> QED  BY <2>1, <2>3, <2>4 DEF Ends
<1>20. ASSUME Rest PROVE Still
  <2>1. UNCHANGED <<fate, eventCh, workVars, taskVars>>  BY <1>20 DEF Rest, vars
  <2> QED  BY <2>1 DEF workVars, taskVars
<1>21. ASSUME NEW p \in Callers, PoolSleep(p) \/ PoolWakes(p) PROVE Still
  BY <1>21 DEF PoolSleep, PoolWakes, workVars, taskVars
<1> QED
  BY <1>1, <1>2, <1>3, <1>4, <1>5, <1>6, <1>7, <1>8, <1>9, <1>10, <1>11, <1>12, <1>13, <1>14, <1>15, <1>16, <1>17, <1>18, <1>19, <1>20, <1>21
  DEF Next, CallBegin, CallStep, EmitNext, OnNext, DeliverNext, LoopStep, HandlerStep, Kinds

\* No step takes an emission back to its beginning, or a subscription.
LEMMA OneWay ==
  ASSUME TypeOK, Next
  PROVE  /\ \A e \in Events : stage'[e] \in Early => stage[e] \in Early
         /\ \A s \in Subs : phase[s] \in Published => phase'[s] \in Published
<1> DEFINE Ahead == /\ \A e \in Events : stage'[e] \in Early => stage[e] \in Early
                    /\ \A s \in Subs : phase[s] \in Published => phase'[s] \in Published
<1> USE DEF TypeOK, TaskTypes, SubTypes, Early, Published
<1>1. ASSUME NEW p \in Callers, NEW e \in Events, EmitBegin(p, e) PROVE Ahead
  BY <1>1 DEF EmitBegin, subVars
<1>2. ASSUME NEW p \in Callers, EmitNext(p) PROVE Ahead
  BY <1>2 DEF EmitNext, EmitRecord, EmitCount, EmitLookup, EmitSubmit, EmitAcquire, subVars, taskVars
<1>3. ASSUME NEW p \in Callers, NEW s \in Subs, OnBegin(p, s) \/ OffBegin(p, s) PROVE Ahead
  BY <1>3 DEF OnBegin, OffBegin, taskVars
<1>4. ASSUME NEW p \in Callers, OnNext(p) PROVE Ahead
  BY <1>4 DEF OnNext, OnSubmit, OnAcquire, OnAdd, OnCount, taskVars
<1>5. ASSUME NEW p \in Callers, StopNext(p) \/ OffNext(p) PROVE Ahead
  BY <1>5 DEF StopNext, OffNext, StopCas, StopSignal, StopWait, OffRemove, OffCount, subVars, taskVars
<1>6. ASSUME NEW p \in Callers, CloseBegin(p) \/ CloseNextStep(p) PROVE Ahead
  BY <1>6 DEF CloseBegin, CloseNextStep, CloseCollect, CloseNext, CloseRelease, subVars, taskVars
<1>7. ASSUME NEW e \in Events, DeliverNext(e) PROVE Ahead
  BY <1>7 DEF DeliverNext, DeliverCheck, DeliverSend, DeliverRefuse, DeliverPanic, DeliverDone,
              DeliverHandoff, Delivered, subVars, taskVars
<1>8. ASSUME NEW w \in Workers, LoopStep(w) \/ HandlerStep(w) \/ HandlerPanics(w) PROVE Ahead
  <2>1. UNCHANGED <<stage, phase>>
    BY <1>8 DEF LoopStep, HandlerStep, WorkerReceive, WorkerQuit, BackoffElapses, BackoffStopped,
                HandlerSucceeds, HandlerFails, HandlerPanics, Exit, subVars, taskVars
  <2> QED  BY <2>1
<1>9. ASSUME Rest PROVE Ahead
  <2>1. UNCHANGED <<subVars, taskVars>>  BY <1>9 DEF Rest, vars
  <2> QED  BY <2>1 DEF subVars, taskVars
<1>10. ASSUME NEW p \in Callers, PoolSleep(p) \/ PoolWakes(p) PROVE Ahead
  BY <1>10 DEF PoolSleep, PoolWakes, subVars, taskVars
<1> QED
  BY <1>1, <1>2, <1>3, <1>4, <1>5, <1>6, <1>7, <1>8, <1>9, <1>10 DEF Next, CallBegin, CallStep

\* A worker takes e: it handles it, or drops it at once.
Takes(w, e) ==
  \/ /\ wpc[w] \notin Hand /\ wpc'[w] \in Hand /\ wev'[w] = e /\ HandsKept({w})
     /\ Moves(w[1], e, "handling")
  \/ HandsKept({}) /\ Moves(w[1], e, "failed")

\* A worker that takes an event handles it, or has done with it at once.
LEMMA TakeTakes ==
  ASSUME TypeOK, NEW w \in Workers, NEW e \in Events, wpc[w] = "select", Take(w, e)
  PROVE  Takes(w, e)
<1>1. w[1] \in Subs  BY DEF Workers
<1>2. CASE MaxRetries[w[1]] >= 0
  <2>1. Moves(w[1], e, "handling")  BY <1>1, <1>2, SettleMoves DEF Take
  <2> QED  BY <1>2, <2>1 DEF Take, Takes, HandsKept, Hand, TypeOK, WorkTypes
<1>3. CASE ~(MaxRetries[w[1]] >= 0)
  <2>1. Moves(w[1], e, "failed")  BY <1>1, <1>3, SettleMoves DEF Take
  <2> QED  BY <1>3, <2>1 DEF Take, Takes, HandsKept, workVars
<1> QED  BY <1>2, <1>3

\* What the steps of a delivery and of a worker do to the events.
LEMMA DeliverFacts ==
  ASSUME TypeOK, NEW e \in Events
  PROVE  /\ DeliverCheck(e) =>
              /\ stage[e] = "delivering" /\ target[e] = None /\ todo[e] # <<>>
              /\ todo' = [todo EXCEPT ![e] = Tail(@)]
              /\ UNCHANGED <<eventCh, wpc, wev, stage, phase>>
              /\ Head(todo[e]) \in Subs
              /\ \/ UNCHANGED fate /\ target' = [target EXCEPT ![e] = Head(todo[e])]
                 \/ UNCHANGED target /\ Moves(Head(todo[e]), e, "refused")
         /\ DeliverSend(e) =>
              /\ target[e] \in Subs /\ target' = [target EXCEPT ![e] = None]
              /\ eventCh' = [eventCh EXCEPT ![target[e]] = Append(@, e)]
              /\ Moves(target[e], e, "queued")
              /\ UNCHANGED <<todo, wpc, wev, stage, phase>>
         /\ DeliverRefuse(e) =>
              /\ target[e] \in Subs /\ target' = [target EXCEPT ![e] = None]
              /\ Moves(target[e], e, "refused")
              /\ UNCHANGED <<eventCh, todo, wpc, wev, stage, phase>>
<1> USE DEF TypeOK, TaskTypes
<1>1. ASSUME DeliverCheck(e)
      PROVE  /\ stage[e] = "delivering" /\ target[e] = None /\ todo[e] # <<>>
             /\ todo' = [todo EXCEPT ![e] = Tail(@)]
             /\ UNCHANGED <<eventCh, wpc, wev, stage, phase>>
             /\ Head(todo[e]) \in Subs
             /\ \/ UNCHANGED fate /\ target' = [target EXCEPT ![e] = Head(todo[e])]
                \/ UNCHANGED target /\ Moves(Head(todo[e]), e, "refused")
  <2>1. Head(todo[e]) \in Subs  BY <1>1 DEF DeliverCheck
  <2>2. \/ UNCHANGED fate /\ target' = [target EXCEPT ![e] = Head(todo[e])]
        \/ UNCHANGED target /\ Settle(Head(todo[e]), e, "refused")
    BY <1>1 DEF DeliverCheck
  <2> QED  BY <1>1, <2>1, <2>2, SettleMoves DEF DeliverCheck, workVars, subVars
<1>2. ASSUME DeliverSend(e)
      PROVE  /\ target[e] \in Subs /\ target' = [target EXCEPT ![e] = None]
             /\ eventCh' = [eventCh EXCEPT ![target[e]] = Append(@, e)]
             /\ Moves(target[e], e, "queued")
             /\ UNCHANGED <<todo, wpc, wev, stage, phase>>
  <2>1. target[e] \in Subs  BY <1>2 DEF DeliverSend
  <2> QED  BY <1>2, <2>1, SettleMoves DEF DeliverSend, Delivered, workVars, subVars
<1>3. ASSUME DeliverRefuse(e)
      PROVE  /\ target[e] \in Subs /\ target' = [target EXCEPT ![e] = None]
             /\ Moves(target[e], e, "refused")
             /\ UNCHANGED <<eventCh, todo, wpc, wev, stage, phase>>
  <2>1. target[e] \in Subs  BY <1>3 DEF DeliverRefuse
  <2> QED  BY <1>3, <2>1, SettleMoves DEF DeliverRefuse, workVars, subVars
<1> QED  BY <1>1, <1>2, <1>3

\* The two ways of a worker to an event: a handoff and a receive.
LEMMA TakeFacts ==
  ASSUME TypeOK, NEW w \in Workers
  PROVE  /\ w[1] \in Subs
         /\ \A e \in Events : DeliverHandoff(e, w) =>
              /\ target[e] = w[1] /\ target' = [target EXCEPT ![e] = None]
              /\ wpc[w] = "select" /\ Takes(w, e)
              /\ UNCHANGED <<eventCh, todo, stage, phase>>
         /\ WorkerReceive(w) =>
              /\ eventCh[w[1]] # <<>> /\ Head(eventCh[w[1]]) \in Events
              /\ eventCh' = [eventCh EXCEPT ![w[1]] = Tail(@)]
              /\ wpc[w] = "select" /\ Takes(w, Head(eventCh[w[1]]))
              /\ UNCHANGED <<todo, target, stage, phase>>
<1>1. w[1] \in Subs  BY DEF Workers
<1>2. ASSUME NEW e \in Events, DeliverHandoff(e, w)
      PROVE  /\ target[e] = w[1] /\ target' = [target EXCEPT ![e] = None]
             /\ wpc[w] = "select" /\ Takes(w, e)
             /\ UNCHANGED <<eventCh, todo, stage, phase>>
  BY <1>2, TakeTakes DEF DeliverHandoff, Delivered, subVars
<1>3. ASSUME WorkerReceive(w)
      PROVE  /\ eventCh[w[1]] # <<>> /\ Head(eventCh[w[1]]) \in Events
             /\ eventCh' = [eventCh EXCEPT ![w[1]] = Tail(@)]
             /\ wpc[w] = "select" /\ Takes(w, Head(eventCh[w[1]]))
             /\ UNCHANGED <<todo, target, stage, phase>>
  <2>1. Head(eventCh[w[1]]) \in Events  BY <1>1, <1>3 DEF WorkerReceive, TypeOK, SubTypes
  <2> QED  BY <1>3, <2>1, TakeTakes DEF WorkerReceive, subVars, taskVars
<1> QED  BY <1>1, <1>2, <1>3

------------------------------------------------------------------------------
(* The parts of FateInv *)

\* Workers that keep what they hold keep HandInv, unless handling itself changes.
LEMMA HandsKeep ==
  ASSUME HandInv, HandsKept({}),
         \A s \in Subs, e \in Events : fate'[s][e] = "handling" <=> fate[s][e] = "handling",
         WorkTypes
  PROVE  HandInv'
<1>1. \A w \in Workers : /\ wpc'[w] \in Hand <=> wpc[w] \in Hand
                         /\ wev'[w] = wev[w] /\ w[1] \in Subs
                         /\ wpc[w] \in Hand => wev[w] \in Events
  BY DEF HandsKept, WorkTypes, Hand, Workers
<1> QED  BY <1>1 DEF HandInv

\* A worker may take an event that is not being handled.
LEMMA TakeKeepsHands ==
  ASSUME HandInv, WorkTypes, NEW w \in Workers, NEW e \in Events, Takes(w, e),
         fate[w[1]][e] # "handling"
  PROVE  HandInv'
<1> USE DEF HandInv
<1>0. \A v \in Workers : v[1] \in Subs /\ (wpc[v] \in Hand => wev[v] \in Events)
  BY DEF Workers, WorkTypes, Hand
<1>1. CASE HandsKept({}) /\ Moves(w[1], e, "failed")
  <2>1. \A s \in Subs, d \in Events : fate'[s][d] = "handling" <=> fate[s][d] = "handling"
    BY <1>1 DEF Moves
  <2> QED  BY <1>1, <2>1, HandsKeep
<1>2. CASE /\ wpc[w] \notin Hand /\ wpc'[w] \in Hand /\ wev'[w] = e /\ HandsKept({w})
           /\ Moves(w[1], e, "handling")
  <2>1. \A v \in Workers \ {w} : (wpc'[v] \in Hand <=> wpc[v] \in Hand) /\ wev'[v] = wev[v]
    BY <1>2 DEF HandsKept
  <2>2. \A s \in Subs, d \in Events :
          fate'[s][d] = IF s = w[1] /\ d = e THEN "handling" ELSE fate[s][d]
    BY <1>2 DEF Moves
  <2>3. \A v \in Workers : IF wpc'[v] \in Hand THEN fate'[v[1]][wev'[v]] = "handling"
                                               ELSE wev'[v] = None
    BY <1>0, <1>2, <2>1, <2>2
  <2>4. \A v \in Workers : wpc[v] \in Hand /\ v[1] = w[1] => wev[v] # e
    OBVIOUS
  <2>5. \A v, u \in Workers :
          wpc'[v] \in Hand /\ wpc'[u] \in Hand /\ v[1] = u[1] /\ wev'[v] = wev'[u] => v = u
    BY <1>2, <2>1, <2>4
  <2>6. ASSUME NEW s \in Subs, NEW d \in Events, fate'[s][d] = "handling"
        PROVE  \E v \in Workers : v[1] = s /\ wpc'[v] \in Hand /\ wev'[v] = d
    <3>1. CASE s = w[1] /\ d = e  BY <1>2, <3>1
    <3>2. CASE ~(s = w[1] /\ d = e)
      <4>1. fate[s][d] = "handling"  BY <2>2, <2>6, <3>2
      <4>2. PICK v \in Workers : v[1] = s /\ wpc[v] \in Hand /\ wev[v] = d  BY <4>1
      <4>3. v # w  BY <1>2, <4>2
      <4> QED  BY <2>1, <4>2, <4>3
    <3> QED  BY <3>1, <3>2
  <2> QED  BY <2>3, <2>5, <2>6
<1> QED  BY <1>1, <1>2 DEF Takes

\* A worker may be done with its event.
LEMMA EndKeepsHands ==
  ASSUME HandInv, WorkTypes, NEW w \in Workers, Ends(w)
  PROVE  HandInv'
<1> USE DEF HandInv
<1>0. \A v \in Workers : v[1] \in Subs /\ (wpc[v] \in Hand => wev[v] \in Events)
  BY DEF Workers, WorkTypes, Hand
<1>1. /\ wpc[w] \in Hand /\ wpc'[w] \notin Hand /\ wev'[w] = None
      /\ \A v \in Workers \ {w} : (wpc'[v] \in Hand <=> wpc[v] \in Hand) /\ wev'[v] = wev[v]
  BY DEF Ends, HandsKept
<1>2. PICK f \in Terminal : \A s \in Subs, d \in Events :
        fate'[s][d] = IF s = w[1] /\ d = wev[w] THEN f ELSE fate[s][d]
  BY DEF Ends, Moves
<1>3. f # "handling"  BY DEF Terminal
<1>4. \A v \in Workers : IF wpc'[v] \in Hand THEN fate'[v[1]][wev'[v]] = "handling"
                                             ELSE wev'[v] = None
  BY <1>0, <1>1, <1>2
<1>5. \A v, u \in Workers :
        wpc'[v] \in Hand /\ wpc'[u] \in Hand /\ v[1] = u[1] /\ wev'[v] = wev'[u] => v = u
  BY <1>1
<1>6. ASSUME NEW s \in Subs, NEW d \in Events, fate'[s][d] = "handling"
      PROVE  \E v \in Workers : v[1] = s /\ wpc'[v] \in Hand /\ wev'[v] = d
  <2>1. fate[s][d] = "handling" /\ ~(s = w[1] /\ d = wev[w])  BY <1>2, <1>3, <1>6
  <2>2. PICK v \in Workers : v[1] = s /\ wpc[v] \in Hand /\ wev[v] = d  BY <2>1
  <2> QED  BY <1>1, <2>1, <2>2
<1> QED  BY <1>4, <1>5, <1>6

\* How a fate may change: from none on the way to s, or from the event being at s.
Leaves(s, e, f) ==
  /\ Moves(s, e, f)
  /\ \/ /\ fate[s][e] = "none" /\ Routed(s, e) /\ stage[e] \notin Early
        /\ f # "none"
     \/ fate[s][e] = "queued" /\ f \in {"handling"} \cup Terminal
     \/ fate[s][e] = "handling" /\ f \in Terminal

\* A delivery decides about subscriptions that it has not served before.
LEMMA DeliverFates ==
  ASSUME TypeOK, RouteInv, NEW e \in Events
  PROVE  /\ DeliverCheck(e) =>
              \/ UNCHANGED fate
              \/ Leaves(Head(todo[e]), e, "refused") /\ fate[Head(todo[e])][e] = "none"
         /\ DeliverSend(e) => Leaves(target[e], e, "queued") /\ fate[target[e]][e] = "none"
         /\ DeliverRefuse(e) => Leaves(target[e], e, "refused") /\ fate[target[e]][e] = "none"
<1>1. ASSUME DeliverCheck(e)
      PROVE  \/ UNCHANGED fate
             \/ Leaves(Head(todo[e]), e, "refused") /\ fate[Head(todo[e])][e] = "none"
  <2>1. todo[e] \in Seq(Subs) /\ todo[e] # <<>> /\ stage[e] = "delivering"
    BY <1>1, DeliverFacts DEF TypeOK, TaskTypes
  <2>2. Head(todo[e]) \in Range(todo[e])
    <3>1. Head(todo[e]) = todo[e][1] /\ 1 \in DOMAIN todo[e]  BY <2>1
    <3> QED  BY <3>1 DEF Range
  <2>3. Routed(Head(todo[e]), e) /\ fate[Head(todo[e])][e] = "none"
    BY <2>2 DEF RouteInv
  <2> QED  BY <1>1, <2>1, <2>3, DeliverFacts DEF Leaves, Early
<1>2. ASSUME DeliverSend(e) \/ DeliverRefuse(e)
      PROVE  /\ Routed(target[e], e) /\ fate[target[e]][e] = "none" /\ stage[e] = "delivering"
  <2>1. target[e] # None  BY <1>2 DEF DeliverSend, DeliverRefuse
  <2> QED  BY <2>1 DEF RouteInv
<1> QED  BY <1>1, <1>2, DeliverFacts DEF Leaves, Early

\* Who takes an event takes one that was on its way, or queued.
LEMMA TakeFates ==
  ASSUME TypeOK, RouteInv, QueueInv, NEW w \in Workers
  PROVE  /\ \A e \in Events : DeliverHandoff(e, w) =>
              /\ fate[w[1]][e] = "none" /\ Routed(w[1], e) /\ stage[e] = "delivering"
         /\ WorkerReceive(w) => fate[w[1]][Head(eventCh[w[1]])] = "queued"
<1>1. ASSUME NEW e \in Events, DeliverHandoff(e, w)
      PROVE  fate[w[1]][e] = "none" /\ Routed(w[1], e) /\ stage[e] = "delivering"
  <2>1. target[e] = w[1] /\ w[1] \in Subs  BY <1>1, TakeFacts
  <2>2. target[e] # None  BY <2>1, Sizes
  <2> QED  BY <2>1, <2>2 DEF RouteInv
<1>2. ASSUME WorkerReceive(w) PROVE fate[w[1]][Head(eventCh[w[1]])] = "queued"
  <2>1. w[1] \in Subs /\ eventCh[w[1]] # <<>> /\ eventCh[w[1]] \in Seq(Events)
    BY <1>2, TakeFacts DEF TypeOK, SubTypes
  <2>2. Head(eventCh[w[1]]) = eventCh[w[1]][1] /\ 1 \in DOMAIN eventCh[w[1]]  BY <2>1
  <2>3. Head(eventCh[w[1]]) \in Range(eventCh[w[1]])  BY <2>2 DEF Range
  <2> QED  BY <2>1, <2>3 DEF QueueInv
<1> QED  BY <1>1, <1>2

\* One fate changes at a time, and none that is terminal.
LEMMA FateStep ==
  ASSUME TypeOK, HandInv, QueueInv, RouteInv, Kinds
  PROVE  UNCHANGED fate \/ \E s \in Subs, e \in Events, f \in {"queued", "handling"} \cup Terminal :
                             Leaves(s, e, f)
<1> USE DEF Terminal
<1>1. CASE Still \/ \E p \in Callers : EmitLookup(p)
  BY <1>1 DEF Still, EmitLookup
<1>2. ASSUME NEW e \in Events, DeliverCheck(e) \/ DeliverSend(e) \/ DeliverRefuse(e)
      PROVE  UNCHANGED fate \/ \E s \in Subs, f \in {"queued", "refused"} : Leaves(s, e, f)
  BY <1>2, DeliverFacts, DeliverFates
<1>3. ASSUME NEW e \in Events, NEW w \in Workers, DeliverHandoff(e, w)
      PROVE  Leaves(w[1], e, "handling") \/ Leaves(w[1], e, "failed")
  BY <1>3, TakeFacts, TakeFates DEF Takes, Leaves, Early
<1>4. ASSUME NEW w \in Workers, WorkerReceive(w)
      PROVE  LET e == Head(eventCh[w[1]])
             IN  Leaves(w[1], e, "handling") \/ Leaves(w[1], e, "failed")
  BY <1>4, TakeFacts, TakeFates DEF Takes, Leaves
<1>5. ASSUME NEW w \in Workers, Ends(w)
      PROVE  \E f \in Terminal : Leaves(w[1], wev[w], f)
  BY <1>5 DEF Ends, Leaves, HandInv
<1>6. \A w \in Workers : w[1] \in Subs /\ (wpc[w] \in Hand => wev[w] \in Events)
  BY DEF Workers, TypeOK, WorkTypes, Hand
<1>7. ASSUME NEW w \in Workers, WorkerReceive(w)
      PROVE  \E e \in Events, f \in {"handling", "failed"} : Leaves(w[1], e, f)
  BY <1>4, <1>7, TakeFacts
<1>8. ASSUME NEW w \in Workers, Ends(w)
      PROVE  \E e \in Events, f \in Terminal : Leaves(w[1], e, f)
  BY <1>5, <1>6, <1>8 DEF Ends
<1> QED  BY <1>1, <1>2, <1>3, <1>6, <1>7, <1>8 DEF Kinds

\* Every step keeps HandInv.
LEMMA HandStep ==
  ASSUME TypeOK, HandInv, QueueInv, RouteInv, Kinds
  PROVE  HandInv'
<1>0. WorkTypes  BY DEF TypeOK
<1>1. CASE Still
  BY <1>0, <1>1, HandsKeep DEF Still
<1>2. ASSUME NEW p \in Callers, EmitLookup(p) PROVE HandInv'
  BY <1>0, <1>2, HandsKeep DEF EmitLookup, workVars, HandsKept
<1>3. ASSUME NEW e \in Events, DeliverCheck(e) \/ DeliverSend(e) \/ DeliverRefuse(e)
      PROVE  HandInv'
  <2>1. \/ UNCHANGED fate
        \/ \E s \in Subs, f \in {"refused", "queued"} : fate[s][e] = "none" /\ Moves(s, e, f)
    BY <1>3, DeliverFacts, DeliverFates DEF Leaves
  <2>2. HandsKept({})  BY <1>3, DeliverFacts DEF HandsKept
  <2>3. \A s \in Subs, d \in Events : fate'[s][d] = "handling" <=> fate[s][d] = "handling"
    BY <2>1 DEF Moves
  <2> QED  BY <1>0, <2>2, <2>3, HandsKeep
<1>4. ASSUME NEW e \in Events, NEW w \in Workers, DeliverHandoff(e, w) PROVE HandInv'
  BY <1>0, <1>4, TakeFacts, TakeFates, TakeKeepsHands
<1>5. ASSUME NEW w \in Workers, WorkerReceive(w) PROVE HandInv'
  BY <1>0, <1>5, TakeFacts, TakeFates, TakeKeepsHands
<1>6. ASSUME NEW w \in Workers, Ends(w) PROVE HandInv'
  BY <1>0, <1>6, EndKeepsHands
<1> QED  BY <1>1, <1>2, <1>3, <1>4, <1>5, <1>6 DEF Kinds

\* What only moves events that are not queued keeps the buffers as they are.
LEMMA QueueKeep ==
  ASSUME QueueInv, SubTypes, UNCHANGED eventCh,
         UNCHANGED fate \/ \E s \in Subs, e \in Events : \E f :
           Moves(s, e, f) /\ fate[s][e] # "queued" /\ f # "queued"
  PROVE  QueueInv'
<1>1. \A s \in Subs : Range(eventCh[s]) \subseteq Events
  BY DEF SubTypes, Range
<1>2. \A s \in Subs, e \in Events : fate[s][e] = "queued" <=> fate'[s][e] = "queued"
  BY DEF Moves
<1> QED  BY <1>1, <1>2 DEF QueueInv

\* Every step keeps QueueInv.
LEMMA QueueStep ==
  ASSUME TypeOK, HandInv, QueueInv, RouteInv, Kinds
  PROVE  QueueInv'
<1>0. SubTypes /\ \A s \in Subs : eventCh[s] \in Seq(Events) /\ Range(eventCh[s]) \subseteq Events
  BY DEF TypeOK, SubTypes, Range
<1>1. CASE Still \/ \E p \in Callers : EmitLookup(p)
  BY <1>0, <1>1, QueueKeep DEF Still, EmitLookup
<1>2. ASSUME NEW e \in Events, DeliverCheck(e) \/ DeliverRefuse(e) PROVE QueueInv'
  BY <1>0, <1>2, DeliverFacts, DeliverFates, QueueKeep DEF Leaves
<1>3. ASSUME NEW e \in Events, DeliverSend(e) PROVE QueueInv'
  <2> DEFINE s == target[e]
  <2>1. /\ s \in Subs /\ eventCh' = [eventCh EXCEPT ![s] = Append(@, e)]
        /\ fate[s][e] = "none"
        /\ \A r \in Subs, d \in Events : fate'[r][d] = IF r = s /\ d = e THEN "queued" ELSE fate[r][d]
    BY <1>3, DeliverFacts, DeliverFates DEF Moves
  <2> HIDE DEF s
  <2>2. e \notin Range(eventCh[s])  BY <2>1 DEF QueueInv
  <2>3. eventCh'[s] = Append(eventCh[s], e)  BY <2>1 DEF TypeOK, SubTypes
  <2>4. IsInjective(eventCh'[s])
    BY <1>0, <2>1, <2>2, <2>3, AppendDistinct DEF QueueInv
  <2>5. Range(eventCh'[s]) = Range(eventCh[s]) \cup {e}
    BY <1>0, <2>1, <2>2, <2>3, AppendDistinct DEF QueueInv
  <2>6. \A r \in Subs \ {s} : eventCh'[r] = eventCh[r]  BY <2>1 DEF TypeOK, SubTypes
  <2>7. \A r \in Subs : IsInjective(eventCh'[r])
    BY <2>4, <2>6 DEF QueueInv
  <2>8. \A r \in Subs, d \in Events : d \in Range(eventCh'[r]) <=> fate'[r][d] = "queued"
    BY <2>1, <2>5, <2>6 DEF QueueInv
  <2> QED  BY <2>7, <2>8 DEF QueueInv
<1>4. ASSUME NEW e \in Events, NEW w \in Workers, DeliverHandoff(e, w) PROVE QueueInv'
  BY <1>0, <1>4, TakeFacts, TakeFates, QueueKeep DEF Takes
<1>5. ASSUME NEW w \in Workers, WorkerReceive(w) PROVE QueueInv'
  <2> DEFINE s == w[1]
             e == Head(eventCh[s])
  <2>1. /\ s \in Subs /\ eventCh[s] # <<>> /\ e \in Events
        /\ eventCh' = [eventCh EXCEPT ![s] = Tail(@)]
    BY <1>5, TakeFacts
  <2>2. PICK f \in {"handling", "failed"} :
           \A r \in Subs, d \in Events : fate'[r][d] = IF r = s /\ d = e THEN f ELSE fate[r][d]
    <3>1. \E f \in {"handling", "failed"} : Moves(s, e, f)  BY <1>5, TakeFacts DEF Takes
    <3> HIDE DEF s, e
    <3> QED  BY <3>1 DEF Moves
  <2>3. IsInjective(Tail(eventCh[s])) /\ Range(Tail(eventCh[s])) = Range(eventCh[s]) \ {e}
    BY <1>0, <2>1, TailDistinct DEF QueueInv
  <2> HIDE DEF e, s
  <2>4. eventCh'[s] = Tail(eventCh[s]) /\ \A r \in Subs \ {s} : eventCh'[r] = eventCh[r]
    BY <2>1 DEF TypeOK, SubTypes
  <2>5. \A r \in Subs : IsInjective(eventCh'[r])  BY <2>3, <2>4 DEF QueueInv
  <2>6. \A r \in Subs, d \in Events : d \in Range(eventCh'[r]) <=> fate'[r][d] = "queued"
    BY <2>1, <2>2, <2>3, <2>4 DEF QueueInv
  <2> QED  BY <2>5, <2>6 DEF QueueInv
<1>6. ASSUME NEW w \in Workers, Ends(w) PROVE QueueInv'
  <2>1. w[1] \in Subs /\ wev[w] \in Events /\ fate[w[1]][wev[w]] = "handling"
    BY <1>6 DEF Ends, Workers, TypeOK, WorkTypes, Hand, HandInv
  <2> QED  BY <1>0, <1>6, <2>1, QueueKeep DEF Ends, Terminal
<1> QED  BY <1>1, <1>2, <1>3, <1>4, <1>5, <1>6 DEF Kinds

\* What RouteInv says of the list and the target of e, after a step.
RouteOf(e) ==
  /\ IsInjective(todo'[e])
  /\ \A s \in Range(todo'[e]) : Routed(s, e) /\ fate'[s][e] = "none"
  /\ target'[e] # None => /\ Routed(target'[e], e) /\ fate'[target'[e]][e] = "none"
                          /\ target'[e] \notin Range(todo'[e])
                          /\ stage'[e] = "delivering"

\* A delivery that keeps to its list and target keeps RouteInv, unless what it has
\* yet to serve is served by others.
LEMMA RouteKeep ==
  ASSUME RouteInv, TypeOK, NEW e \in Events, todo'[e] = todo[e],
         target'[e] # None => target'[e] = target[e]
           /\ (stage[e] = "delivering" => stage'[e] = "delivering"),
         \A s \in Subs : s \in Range(todo[e]) \/ s = target'[e] =>
           (fate[s][e] = "none" => fate'[s][e] = "none")
  PROVE  RouteOf(e)
<1>1. Range(todo[e]) \subseteq Subs /\ target[e] \in Subs \cup {None}
  BY DEF TypeOK, TaskTypes, Range
<1> QED  BY <1>1 DEF RouteInv, RouteOf

\* Every kind of step keeps what RouteInv says of an event's list and target.
LEMMA RouteKinds ==
  ASSUME TypeOK, HandInv, QueueInv, ListInv, RouteInv, EmitInv, PublishInv, Kinds,
         NEW e \in Events
  PROVE  RouteOf(e)
<1>0. /\ todo[e] \in Seq(Subs) /\ Range(todo[e]) \subseteq Subs
      /\ target[e] \in Subs \cup {None} /\ None \notin Subs
      /\ todo \in [Events -> Seq(Subs)] /\ target \in [Events -> Subs \cup {None}]
  BY Sizes DEF TypeOK, TaskTypes, Range
<1>1. CASE Still
  BY <1>1, RouteKeep DEF Still
<1>2. ASSUME NEW p \in Callers, EmitLookup(p) PROVE RouteOf(e)
  <2>0. ev[p] \in Events /\ stage[ev[p]] = "emitting"
    BY <1>2 DEF EmitLookup, EmitPC, EmitInv, TypeOK, CallTypes
  <2>1. CASE e = ev[p]
    <3>1. /\ todo'[e] = subscribers[EventTopic[e]] /\ EventTopic[e] \in Topics
          /\ UNCHANGED <<target, fate>> /\ subscribers[EventTopic[e]] \in Seq(Subs)
      BY <1>0, <1>2, <2>0, <2>1, Sizes DEF EmitLookup, TypeOK, BusTypes
    <3>2. \A s \in Subs : fate[s][e] = "none"
      BY <2>0, <2>1 DEF RouteInv, Early
    <3>3. target[e] = None  BY <2>0, <2>1 DEF RouteInv
    <3>4. Range(subscribers[EventTopic[e]]) \subseteq Subs  BY <3>1 DEF Range
    <3>5. IsInjective(todo'[e]) /\ \A s \in Range(todo'[e]) : Routed(s, e)
      BY <3>1 DEF ListInv, PublishInv, Routed
    <3> QED  BY <3>1, <3>2, <3>3, <3>4, <3>5 DEF RouteOf
  <2>2. CASE e # ev[p]
    BY <1>0, <1>2, <2>0, <2>2, RouteKeep DEF EmitLookup, TypeOK, TaskTypes
  <2> QED  BY <2>1, <2>2
<1>3. ASSUME NEW d \in Events, DeliverCheck(d) PROVE RouteOf(e)
  <2>0. /\ todo[d] # <<>> /\ todo' = [todo EXCEPT ![d] = Tail(@)] /\ UNCHANGED stage
        /\ stage[d] = "delivering"
        /\ \/ UNCHANGED fate /\ target' = [target EXCEPT ![d] = Head(todo[d])]
           \/ UNCHANGED target /\ Moves(Head(todo[d]), d, "refused")
        /\ target[d] = None
    BY <1>3, DeliverFacts
  <2>1. CASE e = d
    <3>1. /\ IsInjective(Tail(todo[e])) /\ Range(Tail(todo[e])) \subseteq Range(todo[e])
          /\ Head(todo[e]) \in Range(todo[e]) /\ Head(todo[e]) \notin Range(Tail(todo[e]))
      BY <1>0, <2>0, <2>1, TailDistinct DEF RouteInv
    <3>2. \A s \in Range(todo[e]) : s \in Subs /\ Routed(s, e) /\ fate[s][e] = "none"
      BY <1>0 DEF RouteInv
    <3>3. todo'[e] = Tail(todo[e])  BY <1>0, <2>0, <2>1
    <3>4. CASE UNCHANGED fate /\ target' = [target EXCEPT ![d] = Head(todo[d])]
      <4>1. target'[e] = Head(todo[e])  BY <1>0, <2>1, <3>4
      <4> QED  BY <2>0, <2>1, <3>1, <3>2, <3>3, <3>4, <4>1 DEF RouteOf
    <3>5. CASE UNCHANGED target /\ Moves(Head(todo[d]), d, "refused")
      <4>1. \A s \in Range(Tail(todo[e])) : fate'[s][e] = "none"
        BY <2>1, <3>1, <3>2, <3>5 DEF Moves
      <4> QED  BY <2>0, <2>1, <3>1, <3>2, <3>3, <3>5, <4>1 DEF RouteOf
    <3> QED  BY <2>0, <3>4, <3>5
  <2>2. CASE e # d
    <3>1. todo'[e] = todo[e] /\ target'[e] = target[e] /\ UNCHANGED stage
      BY <1>0, <2>0, <2>2
    <3>2. \A s \in Subs : fate'[s][e] = fate[s][e]  BY <2>0, <2>2 DEF Moves
    <3> QED  BY <3>1, <3>2, RouteKeep
  <2> QED  BY <2>1, <2>2
<1>4. ASSUME NEW d \in Events, NEW f, target[d] \in Subs, target' = [target EXCEPT ![d] = None],
             Moves(target[d], d, f), UNCHANGED <<todo, stage>>
      PROVE  RouteOf(e)
  <2>1. CASE e = d
    <3>1. target'[e] = None /\ target[e] \notin Range(todo[e])
      BY <1>0, <1>4, <2>1 DEF RouteInv
    <3>2. \A s \in Range(todo[e]) : fate'[s][e] = fate[s][e]
      BY <1>0, <1>4, <2>1, <3>1 DEF Moves
    <3> QED  BY <1>0, <1>4, <3>1, <3>2, RouteKeep
  <2>2. CASE e # d
    <3>1. target'[e] = target[e]  BY <1>0, <1>4, <2>2
    <3>2. \A s \in Subs : fate'[s][e] = fate[s][e]  BY <1>4, <2>2 DEF Moves
    <3> QED  BY <1>4, <3>1, <3>2, RouteKeep
  <2> QED  BY <2>1, <2>2
<1>5. ASSUME NEW d \in Events, DeliverSend(d) \/ DeliverRefuse(d) PROVE RouteOf(e)
  BY <1>4, <1>5, DeliverFacts
<1>6. ASSUME NEW d \in Events, NEW w \in Workers, DeliverHandoff(d, w) PROVE RouteOf(e)
  BY <1>4, <1>6, TakeFacts DEF Takes
<1>7. ASSUME NEW w \in Workers, WorkerReceive(w) PROVE RouteOf(e)
  <2>1. /\ UNCHANGED <<todo, target, stage>> /\ Takes(w, Head(eventCh[w[1]]))
        /\ fate[w[1]][Head(eventCh[w[1]])] = "queued"
    BY <1>7, TakeFacts, TakeFates
  <2>2. \A s \in Subs : fate[s][e] = "none" => fate'[s][e] = "none"
    BY <2>1 DEF Takes, Moves
  <2> QED  BY <2>1, <2>2, RouteKeep
<1>8. ASSUME NEW w \in Workers, Ends(w) PROVE RouteOf(e)
  <2>1. \A s \in Subs : fate[s][e] = "none" => fate'[s][e] = "none"
    BY <1>8 DEF Ends, Moves, HandInv
  <2> QED  BY <1>8, <2>1, RouteKeep DEF Ends
<1> QED  BY <1>1, <1>2, <1>3, <1>5, <1>6, <1>7, <1>8 DEF Kinds

\* Every step keeps RouteInv.
LEMMA RouteStep ==
  ASSUME TypeOK, TypeOK', HandInv, QueueInv, ListInv, RouteInv, EmitInv, PublishInv, Next, Kinds
  PROVE  RouteInv'
<1>1. \A s \in Subs, e \in Events : Routed(s, e) => Routed(s, e)'
  BY OneWay DEF Routed
<1>2. \A e \in Events : stage[e] \notin Early => stage'[e] \notin Early
  BY OneWay
<1>3. \A s \in Subs, e \in Events : fate'[s][e] # "none" => Routed(s, e) /\ stage[e] \notin Early
  BY FateStep DEF Leaves, Moves, RouteInv
<1>4. \A e \in Events : Range(todo'[e]) \subseteq Subs /\ target'[e] \in Subs \cup {None}
  BY DEF TypeOK, TaskTypes, Range
<1>5. \A e \in Events : RouteOf(e)  BY RouteKinds
<1> QED  BY <1>1, <1>2, <1>3, <1>4, <1>5 DEF RouteInv, RouteOf

------------------------------------------------------------------------------
\* Only OnAdd and OffRemove touch the manager's lists.
LEMMA ListStep ==
  ASSUME TypeOK, ListInv, StartInv, PublishInv, Next
  PROVE  ListInv'
<1>0. /\ subscribers \in [Topics -> Seq(Subs)]
      /\ \A t \in Topics : Range(subscribers[t]) \subseteq Subs
      /\ SubTopic \in [Subs -> Topics]
  BY Sizes DEF TypeOK, BusTypes, Range
<1>1. ASSUME UNCHANGED subscribers PROVE ListInv'
  BY <1>1 DEF ListInv
<1>2. ASSUME NEW t \in Topics, NEW q, subscribers' = [subscribers EXCEPT ![t] = q],
             IsInjective(q), \A s \in Range(q) : SubTopic[s] = t
      PROVE  ListInv'
  <2>1. \A u \in Topics : subscribers'[u] = IF u = t THEN q ELSE subscribers[u]
    BY <1>0, <1>2
  <2> QED  BY <1>2, <2>1 DEF ListInv
<1>3. ASSUME NEW p \in Callers, OnAdd(p) PROVE ListInv'
  <2> DEFINE s == sub[p]
             t == SubTopic[s]
             q == subscribers[t]
  <2>1. s \in Subs /\ phase[s] = "starting" /\ subscribers' = [subscribers EXCEPT ![t] = Append(q, s)]
    BY <1>0, <1>3 DEF OnAdd, StartInv, StartPC, TypeOK, CallTypes, OnPC
  <2>2. t \in Topics /\ q \in Seq(Subs) /\ SubTopic[s] = t /\ IsInjective(q)
        /\ \A r \in Range(q) : SubTopic[r] = t /\ phase[r] \in Published
    BY <1>0, <2>1 DEF ListInv, PublishInv
  <2> HIDE DEF q, t, s
  <2>3. s \notin Range(q)  BY <2>1, <2>2 DEF Published
  <2>4. IsInjective(Append(q, s))  BY <2>1, <2>2, <2>3, AppendDistinct
  <2>5. Range(Append(q, s)) \subseteq Range(q) \cup {s}  BY <2>1, <2>2, AppendRange
  <2>6. \A r \in Range(Append(q, s)) : SubTopic[r] = t  BY <2>2, <2>5
  <2> QED  BY <1>2, <2>1, <2>2, <2>4, <2>6
<1>4. ASSUME NEW p \in Callers, OffRemove(p) PROVE ListInv'
  <2> DEFINE s == sub[p]
             t == SubTopic[s]
             q == subscribers[t]
  <2>1. s \in Subs /\ subscribers' = [subscribers EXCEPT ![t] = Without(q, s)]
    BY <1>0, <1>4 DEF OffRemove, TypeOK, CallTypes, OffPC
  <2>2. t \in Topics /\ q \in Seq(Subs) /\ IsInjective(q) /\ \A r \in Range(q) : SubTopic[r] = t
    BY <1>0, <2>1 DEF ListInv
  <2> HIDE DEF q, t, s
  <2>3. IsInjective(Without(q, s))  BY <2>2, WithoutDistinct
  <2>4. Range(Without(q, s)) \subseteq Range(q)  BY <2>2, WithoutRange
  <2> QED  BY <1>2, <2>1, <2>2, <2>3, <2>4
<1>5. ASSUME NEW p \in Callers, CallBegin(p) \/ EmitNext(p) \/ StopNext(p) \/ CloseNextStep(p)
      PROVE  UNCHANGED subscribers
  BY <1>5 DEF CallBegin, EmitBegin, OnBegin, OffBegin, CloseBegin, EmitNext, EmitRecord, EmitCount,
     EmitLookup, EmitSubmit, EmitAcquire, StopNext, StopCas, StopSignal, StopWait, CloseNextStep,
     CloseCollect, CloseNext, CloseRelease, busVars
<1>6. ASSUME NEW p \in Callers, OnSubmit(p) \/ OnAcquire(p) \/ OnCount(p) \/ OffCount(p)
      PROVE  UNCHANGED subscribers
  BY <1>6 DEF OnSubmit, OnAcquire, OnCount, OffCount, busVars
<1>7. ASSUME NEW e \in Events, DeliverNext(e) PROVE UNCHANGED subscribers
  BY <1>7 DEF DeliverNext, DeliverCheck, DeliverSend, DeliverRefuse, DeliverPanic, DeliverDone,
              DeliverHandoff, Delivered, busVars
<1>8. ASSUME NEW w \in Workers, LoopStep(w) \/ HandlerStep(w) \/ HandlerPanics(w)
      PROVE  UNCHANGED subscribers
  BY <1>8 DEF LoopStep, HandlerStep, WorkerReceive, WorkerQuit, BackoffElapses, BackoffStopped,
              HandlerSucceeds, HandlerFails, HandlerPanics, Exit, busVars
<1>9. ASSUME Rest PROVE UNCHANGED subscribers
  BY <1>9 DEF Rest, vars, busVars
<1>10. ASSUME NEW p \in Callers, PoolSleep(p) \/ PoolWakes(p) PROVE UNCHANGED subscribers
  BY <1>10 DEF PoolSleep, PoolWakes
<1> QED
  BY <1>1, <1>3, <1>4, <1>5, <1>6, <1>7, <1>8, <1>9, <1>10 DEF Next, CallStep, OnNext, OffNext

\* Every step keeps EmitInv.
LEMMA EmitStep ==
  ASSUME TypeOK, EmitInv, StartInv, RouteInv, Next
  PROVE  EmitInv'
<1> DEFINE Stays == /\ \A p \in Callers : pc'[p] \in EmitPC => pc[p] \in EmitPC
                    /\ \A p \in Callers : pc[p] \in EmitPC => ev'[p] = ev[p]
                    /\ \A p \in Callers : pc'[p] \in EmitPC => stage'[ev[p]] = stage[ev[p]]
           Born == \A s \in Subs : phase'[s] = "fresh" => phase[s] = "fresh" /\ active'[s] = active[s]
<1>0. /\ \A p \in Callers : pc[p] \in EmitPC => ev[p] \in Events
      /\ pc \in [Callers -> {"idle"} \cup EmitPC \cup OnPC \cup StopPC \cup OffPC \cup ClosePC]
      /\ \A p \in Callers : pc[p] \in OnPC \cup StopPC \cup OffPC => sub[p] \in Subs
      /\ phase \in [Subs -> {"fresh", "starting", "added", "open"}] /\ active \in [Subs -> BOOLEAN]
      /\ stage \in [Events -> {"new", "emitting", "delivering", "done", "rejected", "aborted"}]
      /\ ev \in [Callers -> Events \cup {None}]
  BY DEF TypeOK, CallTypes, SubTypes, TaskTypes
<1>a. ASSUME Stays, Born PROVE EmitInv'
  BY <1>a, <1>0 DEF EmitInv
<1> HIDE DEF Stays, Born
<1>b. ASSUME UNCHANGED <<pc, ev>>, \A e \in Events : stage[e] = "emitting" => stage'[e] = "emitting"
      PROVE  Stays
  BY <1>0, <1>b DEF EmitInv, Stays
<1>c. ASSUME NEW p \in Callers, NEW l \in {"idle"} \cup OnPC \cup StopPC \cup OffPC \cup ClosePC,
             Goto(p, l), UNCHANGED <<ev, stage>>
      PROVE  Stays
  BY <1>0, <1>c DEF Stays, EmitPC, OnPC, StartPC, StopPC, OffPC, ClosePC
<1>d. ASSUME UNCHANGED <<phase, active>> PROVE Born
  BY <1>d DEF Born
<1>1. ASSUME NEW p \in Callers, NEW e \in Events, EmitBegin(p, e) PROVE EmitInv'
  <2>1. /\ pc' = [pc EXCEPT ![p] = "emit.record"] /\ ev' = [ev EXCEPT ![p] = e]
        /\ stage[e] = "new" /\ stage' = [stage EXCEPT ![e] = "emitting"] /\ UNCHANGED <<phase, active>>
    BY <1>1 DEF EmitBegin, subVars
  <2>2. \A q \in Callers \ {p} : pc'[q] = pc[q] /\ ev'[q] = ev[q] /\ (pc[q] \in EmitPC => ev[q] # e)
    BY <1>0, <2>1 DEF EmitInv
  <2>3. ev'[p] = e /\ stage'[e] = "emitting" /\ \A d \in Events \ {e} : stage'[d] = stage[d]
    BY <1>0, <2>1
  <2>4. \A q \in Callers : pc'[q] \in EmitPC => stage'[ev'[q]] = "emitting"
    BY <1>0, <2>2, <2>3 DEF EmitInv
  <2>5. \A q, r \in Callers : pc'[q] \in EmitPC /\ pc'[r] \in EmitPC /\ ev'[q] = ev'[r] => q = r
    BY <2>2, <2>3 DEF EmitInv
  <2> QED  BY <2>1, <2>4, <2>5 DEF EmitInv
<1>2. ASSUME NEW p \in Callers, EmitNext(p) PROVE Stays /\ Born
  <2>1. CASE EmitRecord(p) \/ EmitCount(p)
    BY <1>0, <2>1, <1>d DEF EmitRecord, EmitCount, EmitPC, Stays, taskVars, subVars
  <2>2. CASE EmitLookup(p) \/ EmitSubmit(p) \/ EmitAcquire(p)
    <3>1. /\ pc[p] \in EmitPC /\ UNCHANGED <<ev, phase, active>>
          /\ \E l \in {"idle"} \cup EmitPC : pc' = [pc EXCEPT ![p] = l] /\ (l = "idle" \/ UNCHANGED stage)
          /\ \A d \in Events : d # ev[p] => stage'[d] = stage[d]
      BY <1>0, <2>2 DEF EmitLookup, EmitSubmit, EmitAcquire, EmitPC, subVars
    <3>2. \A q \in Callers \ {p} : pc'[q] = pc[q] /\ (pc[q] \in EmitPC => ev[q] # ev[p])
      BY <1>0, <3>1 DEF EmitInv
    <3>3. pc'[p] \in EmitPC => UNCHANGED stage
      BY <1>0, <3>1 DEF EmitPC
    <3>4. \A q \in Callers : pc'[q] \in EmitPC => pc[q] \in EmitPC /\ stage'[ev[q]] = stage[ev[q]]
      BY <1>0, <3>1, <3>2, <3>3
    <3> QED  BY <3>1, <3>4, <1>d DEF Stays
  <2> QED  BY <1>2, <2>1, <2>2 DEF EmitNext
<1>3. ASSUME NEW p \in Callers, NEW s \in Subs, OnBegin(p, s) PROVE Stays /\ Born
  <2>1. Stays  BY <1>3, <1>c DEF OnBegin, OnPC, StartPC, taskVars
  <2> QED  BY <1>0, <1>3, <2>1 DEF OnBegin, Born
<1>4. ASSUME NEW p \in Callers, OnNext(p) PROVE Stays /\ Born
  <2>1. Stays
    <3>1. UNCHANGED <<ev, stage>> /\ (UNCHANGED pc \/ \E l \in {"idle"} \cup OnPC : Goto(p, l))
      BY <1>4 DEF OnNext, OnSubmit, OnAcquire, OnAdd, OnCount, OnPC, StartPC, taskVars
    <3> QED  BY <3>1, <1>b, <1>c
  <2>2. Born
    <3>1. UNCHANGED active /\ \A s \in Subs : phase'[s] = "fresh" => phase[s] = "fresh"
      BY <1>0, <1>4 DEF OnNext, OnSubmit, OnAcquire, OnAdd, OnCount
    <3> QED  BY <3>1 DEF Born
  <2> QED  BY <2>1, <2>2
<1>5. ASSUME NEW p \in Callers, StopNext(p) PROVE Stays /\ Born
  <2>1. Stays
    <3>1. UNCHANGED <<ev, stage>>
             /\ \E l \in {"idle"} \cup StopPC \cup OffPC \cup ClosePC : Goto(p, l)
      BY <1>5 DEF StopNext, StopCas, StopSignal, StopWait, AfterStop, StopPC, OffPC, ClosePC, taskVars
    <3> QED  BY <3>1, <1>c
  <2>2. UNCHANGED phase /\ \A s \in Subs : active'[s] # active[s] => phase[s] \in Published
    BY <1>0, <1>5 DEF StopNext, StopCas, StopSignal, StopWait, StopPC, StartInv
  <2> QED  BY <2>1, <2>2 DEF Born, Published
<1>6. ASSUME NEW p \in Callers, OffNext(p) \/ CloseNextStep(p) \/ CloseBegin(p) \/ \E s \in Subs : OffBegin(p, s)
      PROVE  Stays /\ Born
  <2>1. UNCHANGED <<ev, stage, phase, active>>
          /\ \E l \in {"idle"} \cup StopPC \cup OffPC \cup ClosePC : Goto(p, l)
    BY <1>6 DEF OffNext, OffRemove, OffCount, CloseNextStep, CloseCollect, CloseNext, CloseRelease,
                CloseBegin, OffBegin, StopPC, OffPC, ClosePC, taskVars, subVars
  <2> QED  BY <2>1, <1>c, <1>d
<1>7. ASSUME NEW e \in Events, DeliverNext(e) PROVE Stays /\ Born
  <2>1. UNCHANGED <<pc, ev, phase, active>>
    BY <1>7 DEF DeliverNext, DeliverCheck, DeliverSend, DeliverRefuse, DeliverPanic, DeliverDone,
                DeliverHandoff, Delivered, subVars, callVars
  <2>2. UNCHANGED stage \/ (stage[e] = "delivering" /\ \A d \in Events : d # e => stage'[d] = stage[d])
    BY <1>0, <1>7 DEF DeliverNext, DeliverCheck, DeliverSend, DeliverRefuse, DeliverPanic, DeliverDone,
                DeliverHandoff, Delivered, RouteInv
  <2> QED  BY <2>1, <2>2, <1>b, <1>d
<1>8. ASSUME NEW w \in Workers, LoopStep(w) \/ HandlerStep(w) \/ HandlerPanics(w) PROVE Stays /\ Born
  <2>1. UNCHANGED <<pc, ev, phase, active, stage>>
    BY <1>8 DEF LoopStep, HandlerStep, WorkerReceive, WorkerQuit, BackoffElapses, BackoffStopped,
                HandlerSucceeds, HandlerFails, HandlerPanics, Exit, subVars, callVars, taskVars
  <2> QED  BY <2>1, <1>b, <1>d
<1>9. ASSUME Rest PROVE Stays /\ Born
  <2>1. UNCHANGED <<subVars, callVars, taskVars>>  BY <1>9 DEF Rest, vars
  <2> QED  BY <2>1, <1>b, <1>d DEF subVars, callVars, taskVars
<1>10. ASSUME NEW p \in Callers, PoolSleep(p) \/ PoolWakes(p) PROVE Stays /\ Born
  <2>1. UNCHANGED <<subVars, callVars, taskVars>>  BY <1>10 DEF PoolSleep, PoolWakes
  <2> QED  BY <2>1, <1>b, <1>d DEF subVars, callVars, taskVars
<1> QED
  BY <1>a, <1>1, <1>2, <1>3, <1>4, <1>5, <1>6, <1>7, <1>8, <1>9, <1>10 DEF Next, CallBegin, CallStep

------------------------------------------------------------------------------
(* The invariant *)

\* FateInv holds at first.
LEMMA InitFate == Init => FateInv
<1> SUFFICES ASSUME Init PROVE FateInv
  OBVIOUS
<1> USE DEF Init
<1>1. HandInv  BY DEF HandInv, Hand
<1>2. QueueInv  BY DEF QueueInv, IsInjective, Range
<1>3. ListInv  BY DEF ListInv, IsInjective, Range
<1>4. RouteInv  BY DEF RouteInv, IsInjective, Range
<1>5. EmitInv  BY DEF EmitInv, EmitPC
<1> QED  BY <1>1, <1>2, <1>3, <1>4, <1>5 DEF FateInv

\* Every step keeps FateInv, where StopInv holds.
LEMMA NextFate == StopInv /\ FateInv /\ [Next]_vars => FateInv'
<1> SUFFICES ASSUME StopInv, FateInv, [Next]_vars PROVE FateInv'
  OBVIOUS
<1>0. TypeOK /\ StartInv /\ PublishInv /\ HandInv /\ QueueInv /\ ListInv /\ RouteInv /\ EmitInv
  BY DEF StopInv, FateInv
<1>1. CASE Next
  <2>1. TypeOK'  BY <1>0, <1>1, NextTypes
  <2>2. Kinds  BY <1>0, <1>1, KindOfStep
  <2>3. HandInv'  BY <1>0, <2>2, HandStep
  <2>4. QueueInv'  BY <1>0, <2>2, QueueStep
  <2>5. ListInv'  BY <1>0, <1>1, ListStep
  <2>6. RouteInv'  BY <1>0, <1>1, <2>1, <2>2, RouteStep
  <2>7. EmitInv'  BY <1>0, <1>1, EmitStep
  <2> QED  BY <2>3, <2>4, <2>5, <2>6, <2>7 DEF FateInv
<1>2. CASE UNCHANGED vars
  <2>1. UNCHANGED <<subscribers, phase, active, eventCh, pc, ev, wpc, wev, stage, todo, target, fate>>
    BY <1>2 DEF vars, busVars, subVars, callVars, workVars, taskVars
  <2>2. HandInv'  BY <1>0, <2>1 DEF HandInv
  <2>3. QueueInv'  BY <1>0, <2>1 DEF QueueInv
  <2>4. ListInv'  BY <1>0, <2>1 DEF ListInv
  <2>5. RouteInv'  BY <1>0, <2>1 DEF RouteInv, Routed
  <2>6. EmitInv'  BY <1>0, <2>1 DEF EmitInv
  <2> QED  BY <2>2, <2>3, <2>4, <2>5, <2>6 DEF FateInv
<1> QED  BY <1>1, <1>2

------------------------------------------------------------------------------
(* The theorems *)

\* Wherever the calls, deliveries and workers stand, every event is accounted for
\* at every subscription: on its way to it, in its buffer once, or in the hands of
\* one worker.
THEOREM FateInvariant == Spec => []FateInv
BY InitFate, NextFate, StopInvariant, PTL DEF Spec

\* Where FateInv holds, an unsettled event is in one place, and any other in none.
LEMMA FatePlaces == TypeOK /\ FateInv => FateConsistent
<1> SUFFICES ASSUME TypeOK, FateInv, NEW s \in Subs, NEW e \in Events
             PROVE  Cardinality({i \in DOMAIN eventCh[s] : eventCh[s][i] = e})
                      + Cardinality({w \in Workers : w[1] = s /\ wev[w] = e})
                        = IF fate[s][e] \in {"queued", "handling"} THEN 1 ELSE 0
  BY DEF FateConsistent
<1> DEFINE buffered == {i \in DOMAIN eventCh[s] : eventCh[s][i] = e}
           held == {w \in Workers : w[1] = s /\ wev[w] = e}
<1>1. HandInv /\ QueueInv /\ WorkTypes /\ None # e
  BY Sizes DEF TypeOK, FateInv
<1>2. \A w \in Workers : wev[w] = e => wpc[w] \in Hand
  BY <1>1 DEF HandInv
<1>3. Cardinality(buffered) = IF fate[s][e] = "queued" THEN 1 ELSE 0
  <2>1. CASE fate[s][e] = "queued"
    <3>1. PICK i \in DOMAIN eventCh[s] : eventCh[s][i] = e
      BY <1>1, <2>1 DEF QueueInv, Range
    <3>2. buffered = {i}
      BY <1>1, <3>1 DEF QueueInv, IsInjective
    <3> QED  BY <2>1, <3>2, FS_Singleton
  <2>2. CASE fate[s][e] # "queued"
    <3>1. buffered = {}  BY <1>1, <2>2 DEF QueueInv, Range
    <3> QED  BY <2>2, <3>1, FS_EmptySet
  <2> QED  BY <2>1, <2>2
<1>4. Cardinality(held) = IF fate[s][e] = "handling" THEN 1 ELSE 0
  <2>1. CASE fate[s][e] = "handling"
    <3>1. PICK w \in Workers : w[1] = s /\ wpc[w] \in Hand /\ wev[w] = e
      BY <1>1, <2>1 DEF HandInv
    <3>2. held = {w}
      BY <1>1, <1>2, <3>1 DEF HandInv
    <3> QED  BY <2>1, <3>2, FS_Singleton
  <2>2. CASE fate[s][e] # "handling"
    <3>1. held = {}  BY <1>1, <1>2, <2>2 DEF HandInv
    <3> QED  BY <2>2, <3>1, FS_EmptySet
  <2> QED  BY <2>1, <2>2
<1> HIDE DEF buffered, held
<1>5. Cardinality(buffered) + Cardinality(held) = IF fate[s][e] \in {"queued", "handling"} THEN 1 ELSE 0
  BY <1>3, <1>4
<1> QED  BY <1>5 DEF buffered, held

\* No event is lost inside the bus, or held twice: an accepted one is in the buffer
\* of its subscription once, or with one of its workers, until it is settled.
THEOREM NoneLostNoneDoubled == Spec => []FateConsistent
<1>1. StopInv => TypeOK  BY DEF StopInv
<1> QED  BY <1>1, FatePlaces, StopInvariant, FateInvariant, PTL

\* Emit's copy of the list, and the manager's lists, keep the topics apart: an event
\* reaches only subscriptions of its own topic.
THEOREM TopicsIsolated == Spec => []TopicIsolation
<1>1. FateInv => TopicIsolation
  BY DEF FateInv, RouteInv, Routed, TopicIsolation
<1> QED  BY <1>1, FateInvariant, PTL

\* An event is never delivered again to a subscription that has refused it, dropped
\* it or handled it.
THEOREM FateIsFinal == Spec => FateFinal
<1> DEFINE Final == \A s \in Subs, e \in Events : fate[s][e] \in Terminal => fate'[s][e] = fate[s][e]
<1>1. StopInv /\ FateInv /\ [Next]_vars => [Final]_vars
  <2> SUFFICES ASSUME StopInv, FateInv, Next PROVE Final
    OBVIOUS
  <2>1. TypeOK /\ StartInv /\ HandInv /\ QueueInv /\ RouteInv /\ EmitInv
    BY DEF StopInv, FateInv
  <2>2. UNCHANGED fate \/ \E s \in Subs, e \in Events, f \in {"queued", "handling"} \cup Terminal :
                             Leaves(s, e, f)
    BY <2>1, KindOfStep, FateStep
  <2> QED  BY <2>2 DEF Leaves, Moves, Terminal
<1> QED  BY <1>1, StopInvariant, FateInvariant, PTL DEF Spec, FateFinal

------------------------------------------------------------------------------
(* The memory bus implements EventBus *)

\* To its clients the bus stands still, but perhaps for one event at one subscription.
Quiet ==
  /\ \A e \in Events : stage'[e] = "new" <=> stage[e] = "new"
  /\ \A s \in Subs : phase'[s] = "fresh" <=> phase[s] = "fresh"
  /\ UNCHANGED <<active, chClosed>>

\* Only the beginnings of Emit and On and two steps of stop are more than that.
LEMMA QuietOrNot ==
  ASSUME TypeOK, StartInv, EmitInv, RouteInv, Next
  PROVE  \/ Quiet
         \/ \E p \in Callers, e \in Events : EmitBegin(p, e)
         \/ \E p \in Callers, s \in Subs : OnBegin(p, s)
         \/ \E p \in Callers : StopCas(p) \/ StopWait(p)
<1>0. /\ \A p \in Callers : pc[p] \in EmitPC => ev[p] \in Events /\ stage[ev[p]] = "emitting"
      /\ \A p \in Callers : pc[p] \in StartPC \cup {"on.count"} =>
           sub[p] \in Subs /\ phase[sub[p]] # "fresh"
      /\ phase \in [Subs -> {"fresh", "starting", "added", "open"}]
      /\ stage \in [Events -> {"new", "emitting", "delivering", "done", "rejected", "aborted"}]
  BY DEF TypeOK, CallTypes, SubTypes, TaskTypes, EmitInv, StartInv, StartPC, OnPC, Published
<1>1. ASSUME NEW p \in Callers, EmitNext(p) PROVE Quiet
  <2>1. pc[p] \in EmitPC /\ UNCHANGED <<phase, active, chClosed>>
          /\ \E l \in {"emitting", "done", "rejected", "delivering"} :
               stage' = stage \/ stage' = [stage EXCEPT ![ev[p]] = l]
    BY <1>1 DEF EmitNext, EmitRecord, EmitCount, EmitLookup, EmitSubmit, EmitAcquire, EmitPC,
                subVars, taskVars
  <2> QED  BY <1>0, <2>1 DEF Quiet
<1>2. ASSUME NEW p \in Callers, OnNext(p) PROVE Quiet
  <2>1. pc[p] \in StartPC \cup {"on.count"} /\ UNCHANGED <<stage, active, chClosed>>
          /\ \E l \in {"starting", "added", "open"} :
               phase' = phase \/ phase' = [phase EXCEPT ![sub[p]] = l]
    BY <1>2 DEF OnNext, OnSubmit, OnAcquire, OnAdd, OnCount, StartPC, taskVars
  <2> QED  BY <1>0, <2>1 DEF Quiet
<1>3. ASSUME NEW p \in Callers,
             \/ StopSignal(p) \/ OffNext(p) \/ CloseNextStep(p) \/ CloseBegin(p)
             \/ \E s \in Subs : OffBegin(p, s)
      PROVE  Quiet
  BY <1>3 DEF Quiet, StopSignal, OffNext, OffRemove, OffCount, CloseNextStep, CloseCollect, CloseNext,
              CloseRelease, CloseBegin, OffBegin, subVars, taskVars
<1>4. ASSUME NEW e \in Events, DeliverNext(e) PROVE Quiet
  <2>1. UNCHANGED <<phase, active, chClosed>>
    BY <1>4 DEF DeliverNext, DeliverCheck, DeliverSend, DeliverRefuse, DeliverPanic, DeliverDone,
                DeliverHandoff, Delivered, subVars
  <2>2. \/ UNCHANGED stage
        \/ stage[e] = "delivering" /\ \E l \in {"done", "aborted"} : stage' = [stage EXCEPT ![e] = l]
    BY <1>4 DEF DeliverNext, DeliverCheck, DeliverSend, DeliverRefuse, DeliverPanic, DeliverDone,
                DeliverHandoff, Delivered, RouteInv
  <2> QED  BY <1>0, <2>1, <2>2 DEF Quiet
<1>5. ASSUME NEW w \in Workers, LoopStep(w) \/ HandlerStep(w) \/ HandlerPanics(w) PROVE Quiet
  BY <1>5 DEF Quiet, LoopStep, HandlerStep, WorkerReceive, WorkerQuit, BackoffElapses, BackoffStopped,
              HandlerSucceeds, HandlerFails, HandlerPanics, Exit, subVars, taskVars
<1>6. ASSUME Rest PROVE Quiet
  <2>1. UNCHANGED <<subVars, taskVars>>  BY <1>6 DEF Rest, vars
  <2> QED  BY <2>1 DEF Quiet, subVars, taskVars
<1>7. ASSUME NEW p \in Callers, PoolSleep(p) \/ PoolWakes(p) PROVE Quiet
  BY <1>7 DEF PoolSleep, PoolWakes, Quiet, subVars, taskVars
<1> QED
  BY <1>1, <1>2, <1>3, <1>4, <1>5, <1>6, <1>7 DEF Next, CallBegin, CallStep, StopNext

\* A handler begins to run in a worker of its subscription.
LEMMA BeginsInWorker ==
  ASSUME TypeOK, HandInv, QueueInv, RouteInv, Kinds,
         NEW s \in Subs, NEW e \in Events, fate[s][e] # "handling", fate'[s][e] = "handling"
  PROVE  Live(s) # {}
<1>1. CASE Still \/ \E p \in Callers : EmitLookup(p)
  BY <1>1 DEF Still, EmitLookup
<1>2. ASSUME NEW d \in Events, DeliverCheck(d) \/ DeliverSend(d) \/ DeliverRefuse(d) PROVE FALSE
  BY <1>2, DeliverFacts DEF Moves
<1>3. ASSUME NEW w \in Workers, NEW d \in Events, wpc[w] = "select", Takes(w, d) PROVE Live(s) # {}
  <2>1. w[1] = s  BY <1>3 DEF Takes, Moves
  <2> QED  BY <1>3, <2>1 DEF Live, LivePC
<1>4. ASSUME NEW w \in Workers, Ends(w) PROVE FALSE
  BY <1>4 DEF Ends, Moves, Terminal
<1> QED  BY <1>1, <1>2, <1>3, <1>4, TakeFacts DEF Kinds

\* How the bus sees one change of a fate.
LEMMA FateSeen ==
  ASSUME TypeOK, NEW s \in Subs, NEW e \in Events, NEW f \in {"queued", "handling"} \cup Terminal,
         Moves(s, e, f)
  PROVE  \A r \in Subs, d \in Events : BusFate(r, d)' =
           IF r = s /\ d = e
           THEN IF f = "queued" THEN "none" ELSE IF f = "handling" THEN "running" ELSE "over"
           ELSE BusFate(r, d)
<1> SUFFICES ASSUME NEW r \in Subs, NEW d \in Events
             PROVE  BusFate(r, d)' =
                      IF r = s /\ d = e
                      THEN IF f = "queued" THEN "none" ELSE IF f = "handling" THEN "running" ELSE "over"
                      ELSE BusFate(r, d)
  OBVIOUS
<1>1. fate'[r][d] = IF r = s /\ d = e THEN f ELSE fate[r][d]  BY DEF Moves
<1> QED  BY <1>1 DEF BusFate, Terminal

\* The initial state is one of EventBus.
LEMMA InitBus == Init => Bus!Init
BY DEF Init, Bus!Init, BusState, BusFate

\* One change of a fate is a step of EventBus, or none.
LEMMA FateIsSeen ==
  ASSUME StopInv, FateInv, Next, Kinds, Quiet,
         NEW s \in Subs, NEW e \in Events, NEW f \in {"queued", "handling"} \cup Terminal,
         Leaves(s, e, f)
  PROVE  Bus!Next \/ UNCHANGED Bus!vars
<1>0. TypeOK /\ HandInv /\ QueueInv /\ RouteInv /\ Quiesced
  BY StopQuiets DEF StopInv, FateInv
<1>1. /\ \A r \in Subs : BusState(r)' = BusState(r)
      /\ {d \in Events : stage[d] # "new"}' = {d \in Events : stage[d] # "new"}
  BY DEF Quiet, BusState
<1>2. \A r \in Subs, d \in Events : BusFate(r, d)' =
           IF r = s /\ d = e
           THEN IF f = "queued" THEN "none" ELSE IF f = "handling" THEN "running" ELSE "over"
           ELSE BusFate(r, d)
  BY <1>0, FateSeen DEF Leaves
<1>3. Routed(s, e) /\ stage[e] \notin Early
  BY <1>0 DEF Leaves, RouteInv
<1>4. SubTopic[s] = EventTopic[e] /\ stage[e] # "new" /\ phase[s] # "fresh"
  BY <1>3 DEF Routed, Early, Published
<1>5. BusState(s) # "fresh"  BY <1>4 DEF BusState
<1>6. CASE f = "queued"
  <2>1. BusFate(s, e) = "none"
    BY <1>6 DEF Leaves, BusFate, Terminal
  <2> QED  BY <1>1, <1>2, <1>6, <2>1 DEF Bus!vars
<1>7. CASE f = "handling"
  <2>1. fate[s][e] # "handling" /\ BusFate(s, e) = "none"
    BY <1>7 DEF Leaves, BusFate, Terminal
  <2>2. fate'[s][e] = "handling"  BY <1>7 DEF Leaves, Moves
  <2>3. Live(s) # {}  BY <1>0, <2>1, <2>2, BeginsInWorker
  <2>4. BusState(s) \in {"open", "stopping"}
    BY <1>0, <1>4, <2>3 DEF BusState, Quiesced
  <2>5. Bus!Settle(s, e, "running")
    BY <1>2, <1>7 DEF Bus!Settle
  <2>6. Bus!Passes(s, e)  BY <1>1, <1>4, <2>1 DEF Bus!Passes
  <2>7. Bus!Start(s, e)  BY <2>4, <2>5, <2>6 DEF Bus!Start
  <2> QED  BY <2>7 DEF Bus!Next
<1>8. CASE f \in Terminal
  <2>1. f # "queued" /\ f # "handling"  BY <1>8 DEF Terminal
  <2>2. Bus!Settle(s, e, "over")  BY <1>2, <2>1 DEF Bus!Settle
  <2>3. CASE fate[s][e] = "handling"
    <3>1. BusFate(s, e) = "running"  BY <2>3 DEF BusFate
    <3>2. Bus!Finish(s, e)  BY <1>1, <2>2, <3>1 DEF Bus!Finish
    <3> QED  BY <3>2 DEF Bus!Next
  <2>4. CASE fate[s][e] # "handling"
    <3>1. BusFate(s, e) = "none"  BY <2>4 DEF Leaves, BusFate
    <3>2. Bus!Passes(s, e)  BY <1>1, <1>4, <3>1 DEF Bus!Passes
    <3>3. Bus!Discard(s, e)  BY <1>5, <2>2, <3>2 DEF Bus!Discard
    <3> QED  BY <3>3 DEF Bus!Next
  <2> QED  BY <2>3, <2>4
<1> QED  BY <1>6, <1>7, <1>8

\* Every step is one of EventBus, or changes nothing there.
LEMMA NextBus == StopInv /\ FateInv /\ [Next]_vars => [Bus!Next]_(Bus!vars)
<1> SUFFICES ASSUME StopInv, FateInv, Next PROVE Bus!Next \/ UNCHANGED Bus!vars
  <2>1. ASSUME UNCHANGED vars PROVE UNCHANGED Bus!vars
    <3>1. UNCHANGED <<phase, active, chClosed, stage, fate>>
      BY <2>1 DEF vars, subVars, taskVars
    <3> QED  BY <3>1 DEF Bus!vars, BusState, BusFate
  <2> QED  BY <2>1
<1>0. /\ TypeOK /\ StartInv /\ EmitInv /\ HandInv /\ QueueInv /\ RouteInv /\ FlagInv
      /\ StopExclusive /\ WorkerAccounting /\ Kinds
  BY KindOfStep DEF StopInv, FateInv
<1>1. ASSUME NEW p \in Callers, NEW e \in Events, EmitBegin(p, e) PROVE Bus!Emit(e)
  <2>1. stage[e] = "new" /\ stage' = [stage EXCEPT ![e] = "emitting"]
          /\ UNCHANGED <<phase, active, chClosed, fate>>
    BY <1>1 DEF EmitBegin, subVars
  <2>2. {d \in Events : stage[d] # "new"}' = {d \in Events : stage[d] # "new"} \cup {e}
    BY <1>0, <2>1 DEF TypeOK, TaskTypes
  <2> QED  BY <2>1, <2>2 DEF Bus!Emit, BusState, BusFate
<1>2. ASSUME NEW p \in Callers, NEW s \in Subs, OnBegin(p, s) PROVE Bus!Open(s)
  <2>1. phase[s] = "fresh" /\ phase' = [phase EXCEPT ![s] = "starting"]
          /\ active' = [active EXCEPT ![s] = TRUE] /\ UNCHANGED <<chClosed, stage, fate>>
    BY <1>2 DEF OnBegin, taskVars
  <2>2. ~active[s] /\ ~chClosed[s]
    BY <1>0, <2>1 DEF EmitInv, FlagInv, Published
  <2>3. BusState(s) = "fresh"  BY <2>1, <2>2 DEF BusState
  <2>4. \A r \in Subs : BusState(r)' = IF r = s THEN "open" ELSE BusState(r)
    BY <1>0, <2>1, <2>2 DEF BusState, TypeOK, SubTypes
  <2> QED  BY <2>1, <2>3, <2>4 DEF Bus!Open, Bus!Becomes, BusFate
<1>3. ASSUME NEW p \in Callers, StopCas(p) PROVE Bus!Next \/ UNCHANGED Bus!vars
  <2> DEFINE s == sub[p]
  <2>1. s \in Subs /\ phase[s] \in Published /\ active' = [active EXCEPT ![s] = FALSE]
          /\ UNCHANGED <<phase, chClosed, stage, fate>>
    BY <1>0, <1>3 DEF StopCas, StartInv, StopPC, TypeOK, CallTypes, taskVars
  <2> HIDE DEF s
  <2>2. CASE active[s]
    <3>1. ~chClosed[s]  BY <1>0, <2>1, <2>2 DEF FlagInv
    <3>2. BusState(s) = "open"  BY <2>2, <3>1 DEF BusState
    <3>3. \A r \in Subs : BusState(r)' = IF r = s THEN "stopping" ELSE BusState(r)
      BY <1>0, <2>1, <3>1 DEF BusState, TypeOK, SubTypes, Published
    <3>4. Bus!Stop(s)  BY <2>1, <3>2, <3>3 DEF Bus!Stop, Bus!Becomes, BusFate
    <3> QED  BY <2>1, <3>4 DEF Bus!Next
  <2>3. CASE ~active[s]
    <3>1. UNCHANGED active  BY <1>0, <2>1, <2>3 DEF TypeOK, SubTypes
    <3> QED  BY <2>1, <3>1 DEF Bus!vars, BusState, BusFate
  <2> QED  BY <2>2, <2>3
<1>4. ASSUME NEW p \in Callers, StopWait(p) PROVE Bus!Next
  <2> DEFINE s == sub[p]
  <2>1. /\ s \in Subs /\ phase[s] \in Published /\ wg[s] = 0 /\ Stopping(p, s)
        /\ chClosed' = [chClosed EXCEPT ![s] = TRUE]
        /\ UNCHANGED <<phase, active, stage, fate>>
    BY <1>0, <1>4 DEF StopWait, StartInv, StopPC, TypeOK, CallTypes, taskVars, Stopping
  <2> HIDE DEF s
  <2>2. ~active[s] /\ ~chClosed[s]  BY <1>0, <2>1 DEF StopExclusive
  <2>3. BusState(s) = "stopping"  BY <2>1, <2>2 DEF BusState, Published
  <2>4. \A r \in Subs : BusState(r)' = IF r = s THEN "stopped" ELSE BusState(r)
    BY <1>0, <2>1 DEF BusState, TypeOK, SubTypes
  <2>5. \A e \in Events : fate[s][e] # "handling"
    <3> SUFFICES ASSUME NEW e \in Events, fate[s][e] = "handling" PROVE FALSE
      OBVIOUS
    <3>1. PICK w \in Workers : w[1] = s /\ wpc[w] \in Hand  BY <1>0, <2>1 DEF HandInv
    <3>2. wg[s] > 0  BY <1>0, <3>1, LiveCounted DEF Hand, LivePC
    <3> QED  BY <2>1, <3>2
  <2>6. \A e \in Events : BusFate(s, e) # "running"  BY <2>5 DEF BusFate
  <2>7. Bus!Stopped(s)  BY <2>1, <2>3, <2>4, <2>6 DEF Bus!Stopped, Bus!Becomes, BusFate
  <2> QED  BY <2>1, <2>7 DEF Bus!Next
<1>5. CASE Quiet
  <2>1. CASE UNCHANGED fate
    BY <1>5, <2>1 DEF Quiet, Bus!vars, BusState, BusFate
  <2>2. CASE ~UNCHANGED fate
    BY <1>0, <1>5, <2>2, FateStep, FateIsSeen
  <2> QED  BY <2>1, <2>2
<1> QED  BY <1>0, <1>1, <1>2, <1>3, <1>4, <1>5, QuietOrNot DEF Bus!Next

\* The memory bus is an event bus: handlers run only for emitted events of their
\* topic, once for each, and none runs when its subscription has been stopped.
THEOREM Implements == Spec => ImplementsEventBus
BY InitBus, NextBus, StopInvariant, FateInvariant, PTL DEF Spec, ImplementsEventBus, Bus!Spec

===============================================================================
