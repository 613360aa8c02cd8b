--------------------------- MODULE MemoryBusProofs ---------------------------
(***************************************************************************)
(* Type correctness of MemoryBus, and that stopping a subscription is safe,*)
(* whatever the number of clients, subscriptions, events and workers, the  *)
(* calls that overlap and the calls that handlers make: StopExclusive,     *)
(* Quiesced and WorkerAccounting.  The types need StartInv, because a      *)
(* worker count that start is handing to the pool stays in range only      *)
(* while one On call owns the subscription; so both are proved together,   *)
(* as the inductive invariant StopInv.                                     *)
(***************************************************************************)
EXTENDS MemoryBus, FiniteSetTheorems, TLAPS

USE DEF At, Goto

\* The facts about the constants that the typing of a step needs.
LEMMA Sizes ==
  /\ Concurrency \in Nat /\ PoolSize \in Nat /\ MaxOffCalls \in Nat
  /\ MaxHistorySize \in Nat \ {0}
  /\ SubTopic \in [Subs -> Topics] /\ EventTopic \in [Events -> Topics]
  /\ None \notin Subs \cup Events \cup Callers
BY BusAssumption DEF BusAssumption

\* HistoryAdd keeps a sequence of events one, and within the capacity.
LEMMA HistoryAddType ==
  ASSUME NEW S, NEW q \in Seq(S), NEW x \in S, NEW n \in Nat \ {0}
  PROVE  HistoryAdd(q, n, x) \in Seq(S)
BY DEF HistoryAdd

\* Cutting an entry out of a list of subscriptions leaves a list of entries of it.
LEMMA WithoutType ==
  ASSUME NEW S, NEW q \in Seq(S), NEW x
  PROVE  Without(q, x) \in Seq(S)
BY DEF Without

\* The initial state has the declared types.
LEMMA InitTypes == Init => TypeOK
<1> SUFFICES ASSUME Init PROVE TypeOK
  OBVIOUS
<1> USE BusAssumption DEF Init, BusAssumption
<1>1. BusTypes
  <2>1. subscribers \in [Topics -> Seq(Subs)]
    OBVIOUS
  <2> QED  BY <2>1 DEF BusTypes
<1>2. SubTypes  BY DEF SubTypes
<1>3. CallTypes  BY DEF CallTypes, EmitPC, OnPC, StartPC, StopPC, OffPC
<1>4. WorkTypes  BY DEF WorkTypes
<1>5. TaskTypes  BY DEF TaskTypes
<1>6. ObsTypes
  <2>1. fate \in [Subs -> [Events -> {"none"} \cup Accepted \cup Terminal]]
    OBVIOUS
  <2> QED  BY <2>1 DEF ObsTypes
<1> QED  BY <1>1, <1>2, <1>3, <1>4, <1>5, <1>6 DEF TypeOK

\* Settling an event keeps the type of fate.
LEMMA SettleType ==
  ASSUME fate \in [Subs -> [Events -> {"none"} \cup Accepted \cup Terminal]],
         NEW s \in Subs, NEW e \in Events, NEW f \in Accepted \cup Terminal
  PROVE  [fate EXCEPT ![s][e] = f] \in [Subs -> [Events -> {"none"} \cup Accepted \cup Terminal]]
OBVIOUS

\* A worker that takes an event keeps the types of its own state.
LEMMA TakeTypes ==
  ASSUME WorkTypes, fate \in [Subs -> [Events -> {"none"} \cup Accepted \cup Terminal]],
         NEW w \in Workers, NEW e \in Events, Take(w, e)
  PROVE  WorkTypes' /\ fate' \in [Subs -> [Events -> {"none"} \cup Accepted \cup Terminal]]
<1>1. w[1] \in Subs  BY DEF Workers
<1>2. WorkTypes'  BY DEF Take, WorkTypes, workVars, LivePC
<1>3. fate' \in [Subs -> [Events -> {"none"} \cup Accepted \cup Terminal]]
  BY <1>1 DEF Take, Settle, Accepted, Terminal
<1> QED  BY <1>2, <1>3

\* What the pool has callers do stays in its type when it wakes some of them.
LEMMA WakeType ==
  ASSUME BusTypes
  PROVE  /\ \A woken : Wake(woken) => wait' \in [Callers -> {"no", "asleep", "woken"}]
         /\ Freed => wait' \in [Callers -> {"no", "asleep", "woken"}]
BY DEF BusTypes, Wake, Freed

\* Every step keeps the types.
LEMMA NextTypes == TypeOK /\ StartInv /\ Next => TypeOK'
<1> SUFFICES ASSUME TypeOK, StartInv, Next PROVE TypeOK'
  OBVIOUS
<1> DEFINE Handing(p) == At(p, "on.acquire") => launched[sub[p]] < Concurrency
<1> USE Sizes DEF busVars, subVars, callVars, workVars, taskVars,
      obsVars, EmitPC, OnPC, StartPC, StopPC, OffPC, ClosePC
<1>1. ASSUME NEW p \in Callers, NEW e \in Events, EmitBegin(p, e) PROVE TypeOK'
  <2>1. CallTypes'
    BY <1>1 DEF EmitBegin, TypeOK, CallTypes
  <2>2. TaskTypes'
    BY <1>1 DEF EmitBegin, TypeOK, TaskTypes
  <2>3. \A q \in Callers : Handing(q)'
    BY <1>1 DEF EmitBegin, TypeOK, CallTypes, SubTypes
  <2> QED  BY <1>1, <2>1, <2>2, <2>3 DEF EmitBegin, TypeOK, BusTypes, SubTypes, WorkTypes, ObsTypes
<1>2. ASSUME NEW p \in Callers, EmitRecord(p) PROVE TypeOK'
  <2>1. history' \in Seq(Events)
    BY <1>2, HistoryAddType DEF EmitRecord, TypeOK, CallTypes, ObsTypes
  <2>2. CallTypes'
    BY <1>2, <2>1 DEF EmitRecord, TypeOK, CallTypes
  <2>3. ObsTypes'
    BY <1>2, <2>1 DEF EmitRecord, TypeOK, ObsTypes
  <2>4. \A q \in Callers : Handing(q)'
    BY <1>2 DEF EmitRecord, TypeOK, CallTypes, SubTypes
  <2> QED  BY <1>2, <2>2, <2>3, <2>4 DEF EmitRecord, TypeOK, BusTypes, SubTypes, WorkTypes, TaskTypes
<1>3. ASSUME NEW p \in Callers, EmitCount(p) PROVE TypeOK'
  <2>1. EventTopic[ev[p]] \in Topics
    BY <1>3 DEF EmitCount, TypeOK, CallTypes
  <2>2. CallTypes'
    BY <1>3, <2>1 DEF EmitCount, TypeOK, CallTypes
  <2>3. ObsTypes'
    BY <1>3, <2>1 DEF EmitCount, TypeOK, ObsTypes
  <2>4. \A q \in Callers : Handing(q)'
    BY <1>3 DEF EmitCount, TypeOK, CallTypes, SubTypes
  <2> QED  BY <1>3, <2>2, <2>3, <2>4 DEF EmitCount, TypeOK, BusTypes, SubTypes, WorkTypes, TaskTypes
<1>4. ASSUME NEW p \in Callers, EmitLookup(p) PROVE TypeOK'
  <2>1. ev[p] \in Events /\ subscribers[EventTopic[ev[p]]] \in Seq(Subs)
    BY <1>4 DEF EmitLookup, TypeOK, CallTypes, BusTypes
  <2>2. CallTypes'
    BY <1>4, <2>1 DEF EmitLookup, TypeOK, CallTypes
  <2>3. TaskTypes'
    BY <1>4, <2>1 DEF EmitLookup, TypeOK, TaskTypes
  <2>4. \A q \in Callers : Handing(q)'
    BY <1>4 DEF EmitLookup, TypeOK, CallTypes, SubTypes
  <2> QED  BY <1>4, <2>2, <2>3, <2>4 DEF EmitLookup, TypeOK, BusTypes, SubTypes, WorkTypes, ObsTypes
<1>5. ASSUME NEW p \in Callers, EmitSubmit(p) PROVE TypeOK'
  <2>1. CallTypes'
    BY <1>5 DEF EmitSubmit, TypeOK, CallTypes
  <2>2. TaskTypes'
    BY <1>5 DEF EmitSubmit, TypeOK, TaskTypes
  <2>3. \A q \in Callers : Handing(q)'
    BY <1>5 DEF EmitSubmit, TypeOK, CallTypes, SubTypes
  <2> QED  BY <1>5, <2>1, <2>2, <2>3 DEF EmitSubmit, TypeOK, BusTypes, SubTypes, WorkTypes, ObsTypes
<1>6. ASSUME NEW p \in Callers, EmitAcquire(p) PROVE TypeOK'
  <2>1. CallTypes'
    BY <1>6 DEF EmitAcquire, TypeOK, CallTypes
  <2>2. TaskTypes'
    BY <1>6 DEF EmitAcquire, TypeOK, TaskTypes
  <2>3. \A q \in Callers : Handing(q)'
    BY <1>6 DEF EmitAcquire, TypeOK, CallTypes, SubTypes
  <2>4. BusTypes'
    BY <1>6 DEF EmitAcquire, Served, TypeOK, BusTypes
  <2> QED  BY <1>6, <2>1, <2>2, <2>3, <2>4 DEF EmitAcquire, TypeOK, SubTypes, WorkTypes, ObsTypes
<1>7. ASSUME NEW p \in Callers, NEW s \in Subs, OnBegin(p, s) PROVE TypeOK'
  <2>1. CallTypes'
    BY <1>7 DEF OnBegin, TypeOK, CallTypes
  <2>2. SubTypes'
    BY <1>7 DEF OnBegin, TypeOK, SubTypes
  <2>3. \A q \in Callers : Handing(q)'
    BY <1>7 DEF OnBegin, TypeOK, CallTypes, SubTypes
  <2> QED  BY <1>7, <2>1, <2>2, <2>3 DEF OnBegin, TypeOK, BusTypes, WorkTypes, TaskTypes, ObsTypes
<1>8. ASSUME NEW p \in Callers, OnSubmit(p) PROVE TypeOK'
  <2>1. sub[p] \in Subs
    BY <1>8 DEF OnSubmit, TypeOK, CallTypes
  <2>2. wg' \in [Subs -> Int]
    BY <1>8, <2>1 DEF OnSubmit, TypeOK, SubTypes
  <2>3. launched' = launched \/ (launched[sub[p]] < Concurrency /\ launched' = [launched EXCEPT ![sub[p]] = @ + 1])
    BY <1>8, <2>1, <2>2 DEF OnSubmit, TypeOK, SubTypes
  <2>4. launched' \in [Subs -> 0..Concurrency]
    <3>1. CASE launched' = launched
      BY <3>1 DEF TypeOK, SubTypes
    <3>2. CASE launched[sub[p]] < Concurrency /\ launched' = [launched EXCEPT ![sub[p]] = @ + 1]
      BY <2>1, <3>2 DEF TypeOK, SubTypes
    <3> QED  BY <2>3, <3>1, <3>2
  <2>5. CallTypes'
    BY <1>8, <2>1 DEF OnSubmit, TypeOK, CallTypes
  <2>6. SubTypes'
    BY <1>8, <2>2, <2>4 DEF OnSubmit, TypeOK, SubTypes
  <2>7. \A q \in Callers : Handing(q)'
    BY <1>8, <2>1, <2>2, <2>3, <2>4 DEF OnSubmit, TypeOK, CallTypes, SubTypes, StartInv
  <2> QED  BY <1>8, <2>5, <2>6, <2>7 DEF OnSubmit, TypeOK, BusTypes, WorkTypes, TaskTypes, ObsTypes
<1>9. ASSUME NEW p \in Callers, OnAcquire(p) PROVE TypeOK'
  <2>1. sub[p] \in Subs /\ launched[sub[p]] + 1 \in 1..Concurrency
    BY <1>9 DEF OnAcquire, TypeOK, CallTypes, SubTypes
  <2>2. CallTypes'
    BY <1>9, <2>1 DEF OnAcquire, TypeOK, CallTypes
  <2>3. SubTypes'
    <3>1. SubTypes /\ sub[p] \in Subs
      BY <2>1 DEF TypeOK
    <3>2. launched' = [launched EXCEPT ![sub[p]] = launched[sub[p]] + 1]
          /\ UNCHANGED <<phase, active, stopCh, chClosed, eventCh, offCalls>>
      BY <1>9 DEF OnAcquire
    <3>3. launched' \in [Subs -> 0..Concurrency]
      BY <2>1, <3>1, <3>2 DEF SubTypes
    <3>4. wg' = wg \/ wg' = [wg EXCEPT ![sub[p]] = wg[sub[p]] - 1]
      BY <1>9 DEF OnAcquire
    <3>5. wg' \in [Subs -> Int]
      BY <3>1, <3>4 DEF SubTypes
    <3> QED BY <3>1, <3>2, <3>3, <3>5 DEF SubTypes
  <2>4. WorkTypes'
    BY <1>9, <2>1 DEF OnAcquire, TypeOK, WorkTypes, LivePC
  <2>5. \A q \in Callers : Handing(q)'
    BY <1>9, <2>1 DEF OnAcquire, TypeOK, CallTypes, SubTypes, StartInv
  <2>6. BusTypes'
    BY <1>9 DEF OnAcquire, Served, TypeOK, BusTypes
  <2> QED  BY <1>9, <2>2, <2>3, <2>4, <2>5, <2>6 DEF OnAcquire, TypeOK, TaskTypes, ObsTypes
<1>10. ASSUME NEW p \in Callers, OnAdd(p) PROVE TypeOK'
  <2>1. sub[p] \in Subs /\ SubTopic[sub[p]] \in Topics
    BY <1>10 DEF OnAdd, TypeOK, CallTypes
  <2>2. CallTypes'
    BY <1>10, <2>1 DEF OnAdd, TypeOK, CallTypes
  <2>3. BusTypes'
    BY <1>10, <2>1 DEF OnAdd, TypeOK, BusTypes
  <2>4. SubTypes'
    BY <1>10, <2>1 DEF OnAdd, TypeOK, SubTypes
  <2>5. \A q \in Callers : Handing(q)'
    BY <1>10 DEF OnAdd, TypeOK, CallTypes, SubTypes
  <2> QED  BY <1>10, <2>2, <2>3, <2>4, <2>5 DEF OnAdd, TypeOK, WorkTypes, TaskTypes, ObsTypes
<1>11. ASSUME NEW p \in Callers, OnCount(p) PROVE TypeOK'
  <2>1. sub[p] \in Subs /\ SubTopic[sub[p]] \in Topics
    BY <1>11 DEF OnCount, TypeOK, CallTypes
  <2>2. CallTypes'
    BY <1>11, <2>1 DEF OnCount, TypeOK, CallTypes
  <2>3. SubTypes'
    BY <1>11, <2>1 DEF OnCount, TypeOK, SubTypes
  <2>4. ObsTypes'
    BY <1>11, <2>1 DEF OnCount, TypeOK, ObsTypes
  <2>5. \A q \in Callers : Handing(q)'
    BY <1>11 DEF OnCount, TypeOK, CallTypes, SubTypes
  <2> QED  BY <1>11, <2>2, <2>3, <2>4, <2>5 DEF OnCount, TypeOK, BusTypes, WorkTypes, TaskTypes
<1>12. ASSUME NEW p \in Callers, NEW s \in Subs, OffBegin(p, s) PROVE TypeOK'
  <2>1. CallTypes'
    BY <1>12 DEF OffBegin, TypeOK, CallTypes
  <2>2. SubTypes'
    BY <1>12 DEF OffBegin, TypeOK, SubTypes
  <2>3. \A q \in Callers : Handing(q)'
    BY <1>12 DEF OffBegin, TypeOK, CallTypes, SubTypes
  <2> QED  BY <1>12, <2>1, <2>2, <2>3 DEF OffBegin, TypeOK, BusTypes, WorkTypes, TaskTypes, ObsTypes
<1>13. ASSUME NEW p \in Callers, StopCas(p) PROVE TypeOK'
  <2>1. sub[p] \in Subs
    BY <1>13 DEF StopCas, TypeOK, CallTypes
  <2>2. CallTypes'
    BY <1>13, <2>1 DEF StopCas, TypeOK, CallTypes, AfterStop
  <2>3. SubTypes'
    BY <1>13, <2>1 DEF StopCas, TypeOK, SubTypes
  <2>4. \A q \in Callers : Handing(q)'
    BY <1>13 DEF StopCas, TypeOK, CallTypes, SubTypes, AfterStop
  <2> QED  BY <1>13, <2>2, <2>3, <2>4 DEF StopCas, TypeOK, BusTypes, WorkTypes, TaskTypes, ObsTypes
<1>14. ASSUME NEW p \in Callers, StopSignal(p) PROVE TypeOK'
  <2>1. sub[p] \in Subs
    BY <1>14 DEF StopSignal, TypeOK, CallTypes
  <2>2. CallTypes'
    BY <1>14, <2>1 DEF StopSignal, TypeOK, CallTypes
  <2>3. SubTypes'
    BY <1>14, <2>1 DEF StopSignal, TypeOK, SubTypes
  <2>4. \A q \in Callers : Handing(q)'
    BY <1>14 DEF StopSignal, TypeOK, CallTypes, SubTypes
  <2> QED  BY <1>14, <2>2, <2>3, <2>4 DEF StopSignal, TypeOK, BusTypes, WorkTypes, TaskTypes, ObsTypes
<1>15. ASSUME NEW p \in Callers, StopWait(p) PROVE TypeOK'
  <2>1. sub[p] \in Subs
    BY <1>15 DEF StopWait, TypeOK, CallTypes
  <2>2. CallTypes'
    BY <1>15, <2>1 DEF StopWait, TypeOK, CallTypes, AfterStop
  <2>3. SubTypes'
    BY <1>15, <2>1 DEF StopWait, TypeOK, SubTypes
  <2>4. \A q \in Callers : Handing(q)'
    BY <1>15 DEF StopWait, TypeOK, CallTypes, SubTypes, AfterStop
  <2> QED  BY <1>15, <2>2, <2>3, <2>4 DEF StopWait, TypeOK, BusTypes, WorkTypes, TaskTypes, ObsTypes
<1>16. ASSUME NEW p \in Callers, OffRemove(p) PROVE TypeOK'
  <2>1. subscribers' \in [Topics -> Seq(Subs)]
    BY <1>16, WithoutType DEF OffRemove, TypeOK, CallTypes, BusTypes
  <2>2. CallTypes'
    BY <1>16, <2>1 DEF OffRemove, TypeOK, CallTypes
  <2>3. BusTypes'
    BY <1>16, <2>1 DEF OffRemove, TypeOK, BusTypes
  <2>4. \A q \in Callers : Handing(q)'
    BY <1>16 DEF OffRemove, TypeOK, CallTypes, SubTypes
  <2> QED  BY <1>16, <2>2, <2>3, <2>4 DEF OffRemove, TypeOK, SubTypes, WorkTypes, TaskTypes, ObsTypes
<1>17. ASSUME NEW p \in Callers, OffCount(p) PROVE TypeOK'
  <2>1. SubTopic[sub[p]] \in Topics
    BY <1>17 DEF OffCount, TypeOK, CallTypes
  <2>2. CallTypes'
    BY <1>17, <2>1 DEF OffCount, TypeOK, CallTypes
  <2>3. ObsTypes'
    BY <1>17, <2>1 DEF OffCount, TypeOK, ObsTypes
  <2>4. \A q \in Callers : Handing(q)'
    BY <1>17 DEF OffCount, TypeOK, CallTypes, SubTypes
  <2> QED  BY <1>17, <2>2, <2>3, <2>4 DEF OffCount, TypeOK, BusTypes, SubTypes, WorkTypes, TaskTypes
<1>18. ASSUME NEW p \in Callers, CloseBegin(p) PROVE TypeOK'
  <2>1. CallTypes'
    BY <1>18 DEF CloseBegin, TypeOK, CallTypes
  <2>2. BusTypes'
    BY <1>18 DEF CloseBegin, TypeOK, BusTypes
  <2>3. \A q \in Callers : Handing(q)'
    BY <1>18 DEF CloseBegin, TypeOK, CallTypes, SubTypes
  <2> QED  BY <1>18, <2>1, <2>2, <2>3 DEF CloseBegin, TypeOK, SubTypes, WorkTypes, TaskTypes, ObsTypes
<1>19. ASSUME NEW p \in Callers, CloseCollect(p) PROVE TypeOK'
  <2>1. closing' \subseteq Subs
    BY <1>19 DEF CloseCollect, TypeOK, BusTypes, Range
  <2>2. CallTypes'
    BY <1>19, <2>1 DEF CloseCollect, TypeOK, CallTypes
  <2>3. BusTypes'
    BY <1>19, <2>1 DEF CloseCollect, TypeOK, BusTypes
  <2>4. \A q \in Callers : Handing(q)'
    BY <1>19 DEF CloseCollect, TypeOK, CallTypes, SubTypes
  <2> QED  BY <1>19, <2>2, <2>3, <2>4 DEF CloseCollect, TypeOK, SubTypes, WorkTypes, TaskTypes, ObsTypes
<1>20. ASSUME NEW p \in Callers, CloseNext(p) PROVE TypeOK'
  <2>1. sub' \in [Callers -> Subs \cup {None}]
    BY <1>20 DEF CloseNext, TypeOK, CallTypes, BusTypes
  <2>2. pc'[p] = "stop.cas" => sub'[p] \in Subs
    BY <1>20, <2>1 DEF CloseNext, TypeOK, CallTypes, BusTypes
  <2>3. CallTypes'
    BY <1>20, <2>1, <2>2 DEF CloseNext, TypeOK, CallTypes
  <2>4. BusTypes'
    BY <1>20, <2>1, <2>2 DEF CloseNext, TypeOK, BusTypes
  <2>5. \A q \in Callers : Handing(q)'
    BY <1>20 DEF CloseNext, TypeOK, CallTypes, SubTypes
  <2> QED  BY <1>20, <2>3, <2>4, <2>5 DEF CloseNext, TypeOK, SubTypes, WorkTypes, TaskTypes, ObsTypes
<1>21. ASSUME NEW p \in Callers, CloseRelease(p) PROVE TypeOK'
  <2>1. CallTypes'
    BY <1>21 DEF CloseRelease, TypeOK, CallTypes
  <2>2. BusTypes'
    BY <1>21, WakeType DEF CloseRelease, TypeOK, BusTypes
  <2>3. \A q \in Callers : Handing(q)'
    BY <1>21 DEF CloseRelease, TypeOK, CallTypes, SubTypes
  <2> QED  BY <1>21, <2>1, <2>2, <2>3 DEF CloseRelease, TypeOK, SubTypes, WorkTypes, TaskTypes, ObsTypes
<1>22. ASSUME NEW e \in Events, DeliverCheck(e) PROVE TypeOK'
  <2>1. Head(todo[e]) \in Subs /\ Tail(todo[e]) \in Seq(Subs)
    BY <1>22 DEF DeliverCheck, TypeOK, TaskTypes
  <2>2. fate' = fate \/ fate' = [fate EXCEPT ![Head(todo[e])][e] = "refused"]
    BY <1>22, <2>1 DEF DeliverCheck, TypeOK, Settle
  <2>3. fate' \in [Subs -> [Events -> {"none"} \cup Accepted \cup Terminal]]
    <3>1. CASE fate' = fate
      BY <3>1 DEF TypeOK, ObsTypes
    <3>2. CASE fate' = [fate EXCEPT ![Head(todo[e])][e] = "refused"]
      <4>1. "refused" \in Accepted \cup Terminal  BY DEF Terminal
      <4> QED  BY <3>2, <4>1, <2>1, SettleType DEF TypeOK, ObsTypes
    <3> QED  BY <2>2, <3>1, <3>2
  <2>4. TaskTypes'
    BY <1>22, <2>1 DEF DeliverCheck, TypeOK, TaskTypes
  <2>5. ObsTypes'
    BY <1>22, <2>3 DEF DeliverCheck, TypeOK, ObsTypes
  <2>6. \A q \in Callers : Handing(q)'
    BY <1>22 DEF DeliverCheck, TypeOK, CallTypes, SubTypes
  <2> QED  BY <1>22, <2>4, <2>5, <2>6 DEF DeliverCheck, TypeOK, BusTypes, SubTypes, CallTypes, WorkTypes
<1>23. ASSUME NEW e \in Events, DeliverSend(e) PROVE TypeOK'
  <2>1. target[e] \in Subs
    BY <1>23 DEF DeliverSend, TypeOK, TaskTypes
  <2>2. Append(eventCh[target[e]], e) \in Seq(Events)
    BY <1>23, <2>1 DEF DeliverSend, TypeOK, SubTypes
  <2>3. SubTypes'
    BY <1>23, <2>1, <2>2 DEF DeliverSend, TypeOK, SubTypes, Delivered
  <2>4. TaskTypes'
    BY <1>23, <2>1, <2>2 DEF DeliverSend, TypeOK, TaskTypes, Delivered
  <2>5. ObsTypes'
    BY <1>23, <2>1, <2>2 DEF DeliverSend, TypeOK, ObsTypes, Settle, Delivered, Accepted
  <2>6. \A q \in Callers : Handing(q)'
    BY <1>23 DEF DeliverSend, TypeOK, CallTypes, SubTypes, Delivered
  <2> QED  BY <1>23, <2>3, <2>4, <2>5, <2>6 DEF DeliverSend, TypeOK, BusTypes, CallTypes, WorkTypes, Delivered
<1>24. ASSUME NEW e \in Events, NEW w \in Workers, DeliverHandoff(e, w) PROVE TypeOK'
  <2>1. WorkTypes' /\ fate' \in [Subs -> [Events -> {"none"} \cup Accepted \cup Terminal]]
    BY <1>24, TakeTypes DEF DeliverHandoff, TypeOK, WorkTypes, ObsTypes
  <2>2. TaskTypes'
    BY <1>24, <2>1 DEF DeliverHandoff, TypeOK, TaskTypes, Delivered
  <2>3. ObsTypes'
    BY <1>24, <2>1 DEF DeliverHandoff, TypeOK, ObsTypes, Delivered
  <2>4. \A q \in Callers : Handing(q)'
    BY <1>24 DEF DeliverHandoff, TypeOK, CallTypes, SubTypes, Delivered
  <2> QED  BY <1>24, <2>1, <2>2, <2>3, <2>4 DEF DeliverHandoff, TypeOK, BusTypes, SubTypes, CallTypes, Delivered
<1>25. ASSUME NEW e \in Events, DeliverRefuse(e) PROVE TypeOK'
  <2>1. target[e] \in Subs
    BY <1>25 DEF DeliverRefuse, TypeOK, TaskTypes
  <2>2. TaskTypes'
    BY <1>25, <2>1 DEF DeliverRefuse, TypeOK, TaskTypes
  <2>3. ObsTypes'
    BY <1>25, <2>1 DEF DeliverRefuse, TypeOK, ObsTypes, Settle, Terminal
  <2>4. \A q \in Callers : Handing(q)'
    BY <1>25 DEF DeliverRefuse, TypeOK, CallTypes, SubTypes
  <2> QED  BY <1>25, <2>2, <2>3, <2>4 DEF DeliverRefuse, TypeOK, BusTypes, SubTypes, CallTypes, WorkTypes
<1>26. ASSUME NEW e \in Events, DeliverPanic(e) PROVE TypeOK'
  <2>1. TaskTypes'
    BY <1>26 DEF DeliverPanic, TypeOK, TaskTypes
  <2>2. \A q \in Callers : Handing(q)'
    BY <1>26 DEF DeliverPanic, TypeOK, CallTypes, SubTypes
  <2>3. BusTypes'
    BY <1>26, WakeType DEF DeliverPanic, TypeOK, BusTypes
  <2> QED  BY <1>26, <2>1, <2>2, <2>3 DEF DeliverPanic, TypeOK, SubTypes, CallTypes, WorkTypes, ObsTypes
<1>27. ASSUME NEW e \in Events, DeliverDone(e) PROVE TypeOK'
  <2>1. EventTopic[e] \in Topics /\ hits[e] \in Nat
    BY <1>27 DEF DeliverDone, TypeOK, TaskTypes
  <2>2. delivered' \in [Topics -> Nat]
    BY <1>27, <2>1 DEF DeliverDone, TypeOK, ObsTypes
  <2>3. TaskTypes'
    BY <1>27, <2>1, <2>2 DEF DeliverDone, TypeOK, TaskTypes
  <2>4. ObsTypes'
    BY <1>27, <2>1, <2>2 DEF DeliverDone, TypeOK, ObsTypes
  <2>5. \A q \in Callers : Handing(q)'
    BY <1>27 DEF DeliverDone, TypeOK, CallTypes, SubTypes
  <2>6. BusTypes'
    BY <1>27, WakeType DEF DeliverDone, TypeOK, BusTypes
  <2> QED  BY <1>27, <2>3, <2>4, <2>5, <2>6 DEF DeliverDone, TypeOK, SubTypes, CallTypes, WorkTypes
<1>28. ASSUME NEW w \in Workers, WorkerReceive(w) PROVE TypeOK'
  <2>1. w[1] \in Subs /\ Head(eventCh[w[1]]) \in Events /\ Tail(eventCh[w[1]]) \in Seq(Events)
    BY <1>28 DEF WorkerReceive, TypeOK, SubTypes, Workers
  <2>2. WorkTypes' /\ fate' \in [Subs -> [Events -> {"none"} \cup Accepted \cup Terminal]]
    BY <1>28, <2>1, TakeTypes DEF WorkerReceive, TypeOK, WorkTypes, ObsTypes
  <2>3. SubTypes'
    BY <1>28, <2>1, <2>2 DEF WorkerReceive, TypeOK, SubTypes
  <2>4. ObsTypes'
    BY <1>28, <2>1, <2>2 DEF WorkerReceive, TypeOK, ObsTypes
  <2>5. \A q \in Callers : Handing(q)'
    BY <1>28 DEF WorkerReceive, TypeOK, CallTypes, SubTypes
  <2> QED  BY <1>28, <2>1, <2>2, <2>3, <2>4, <2>5 DEF WorkerReceive, TypeOK, BusTypes, CallTypes, TaskTypes
<1>29. ASSUME NEW w \in Workers, WorkerQuit(w) PROVE TypeOK'
  <2>1. WorkTypes'
    BY <1>29 DEF WorkerQuit, TypeOK, WorkTypes, Exit
  <2>2. SubTypes'
    BY <1>29 DEF WorkerQuit, TypeOK, SubTypes, Exit, Workers
  <2>3. \A q \in Callers : Handing(q)'
    BY <1>29 DEF WorkerQuit, TypeOK, CallTypes, SubTypes, Exit
  <2>4. BusTypes'
    BY <1>29, WakeType DEF WorkerQuit, Exit, TypeOK, BusTypes
  <2> QED  BY <1>29, <2>1, <2>2, <2>3, <2>4 DEF WorkerQuit, TypeOK, CallTypes, TaskTypes, ObsTypes, Exit
<1>30. ASSUME NEW w \in Workers, HandlerSucceeds(w) PROVE TypeOK'
  <2>1. WorkTypes'
    BY <1>30 DEF HandlerSucceeds, TypeOK, WorkTypes, Finish, InHandler, LivePC
  <2>2. ObsTypes'
    BY <1>30 DEF HandlerSucceeds, TypeOK, ObsTypes, Finish, InHandler, Settle, Terminal, WorkTypes, Workers
  <2>3. \A q \in Callers : Handing(q)'
    BY <1>30 DEF HandlerSucceeds, TypeOK, CallTypes, SubTypes, Finish
  <2> QED  BY <1>30, <2>1, <2>2, <2>3 DEF HandlerSucceeds, TypeOK, BusTypes, SubTypes, CallTypes, TaskTypes, Finish
<1>31. ASSUME NEW w \in Workers, HandlerFails(w) PROVE TypeOK'
  <2>1. w[1] \in Subs /\ wev[w] \in Events
    BY <1>31 DEF HandlerFails, TypeOK, WorkTypes, InHandler, Workers
  <2>2. fate' = fate \/ fate' = [fate EXCEPT ![w[1]][wev[w]] = "failed"]
    BY <1>31, <2>1 DEF HandlerFails, TypeOK, Finish, Settle
  <2>3. fate' \in [Subs -> [Events -> {"none"} \cup Accepted \cup Terminal]]
    <3>1. CASE fate' = fate
      BY <3>1 DEF TypeOK, ObsTypes
    <3>2. CASE fate' = [fate EXCEPT ![w[1]][wev[w]] = "failed"]
      <4>1. "failed" \in Accepted \cup Terminal  BY DEF Terminal
      <4> QED  BY <3>2, <4>1, <2>1, SettleType DEF TypeOK, ObsTypes
    <3> QED  BY <2>2, <3>1, <3>2
  <2>4. WorkTypes'
    BY <1>31 DEF HandlerFails, TypeOK, WorkTypes, Finish, InHandler, LivePC
  <2>5. ObsTypes'
    BY <1>31, <2>3 DEF HandlerFails, TypeOK, ObsTypes, Finish
  <2>6. \A q \in Callers : Handing(q)'
    BY <1>31 DEF HandlerFails, TypeOK, CallTypes, SubTypes, Finish
  <2> QED  BY <1>31, <2>4, <2>5, <2>6 DEF HandlerFails, TypeOK, BusTypes, SubTypes, CallTypes, TaskTypes, Finish
<1>32. ASSUME NEW w \in Workers, HandlerPanics(w) PROVE TypeOK'
  <2>1. WorkTypes'
    BY <1>32 DEF HandlerPanics, TypeOK, WorkTypes, Exit
  <2>2. SubTypes'
    BY <1>32 DEF HandlerPanics, TypeOK, SubTypes, Exit, Workers
  <2>3. ObsTypes'
    BY <1>32 DEF HandlerPanics, TypeOK, ObsTypes, Exit, InHandler, Settle, Terminal, WorkTypes, Workers
  <2>4. \A q \in Callers : Handing(q)'
    BY <1>32 DEF HandlerPanics, TypeOK, CallTypes, SubTypes, Exit
  <2>5. BusTypes'
    BY <1>32, WakeType DEF HandlerPanics, Exit, TypeOK, BusTypes
  <2> QED  BY <1>32, <2>1, <2>2, <2>3, <2>4, <2>5 DEF HandlerPanics, TypeOK, CallTypes, TaskTypes, Exit
<1>33. ASSUME NEW w \in Workers, BackoffElapses(w) PROVE TypeOK'
  <2>1. WorkTypes'
    BY <1>33 DEF BackoffElapses, TypeOK, WorkTypes, LivePC
  <2>2. \A q \in Callers : Handing(q)'
    BY <1>33 DEF BackoffElapses, TypeOK, CallTypes, SubTypes
  <2> QED  BY <1>33, <2>1, <2>2 DEF BackoffElapses, TypeOK, BusTypes, SubTypes, CallTypes, TaskTypes, ObsTypes
<1>34. ASSUME NEW w \in Workers, BackoffStopped(w) PROVE TypeOK'
  <2>1. WorkTypes'
    BY <1>34 DEF BackoffStopped, TypeOK, WorkTypes, Finish, LivePC
  <2>2. ObsTypes'
    BY <1>34 DEF BackoffStopped, TypeOK, ObsTypes, Finish, Settle, Terminal, WorkTypes, Workers
  <2>3. \A q \in Callers : Handing(q)'
    BY <1>34 DEF BackoffStopped, TypeOK, CallTypes, SubTypes, Finish
  <2> QED  BY <1>34, <2>1, <2>2, <2>3 DEF BackoffStopped, TypeOK, BusTypes, SubTypes, CallTypes, TaskTypes, Finish
<1>35. CASE Rest
  BY <1>35 DEF Rest, vars, TypeOK, BusTypes, SubTypes, CallTypes, WorkTypes, TaskTypes, ObsTypes
<1>36. ASSUME NEW p \in Callers, PoolSleep(p) \/ PoolWakes(p) PROVE TypeOK'
  <2>1. BusTypes'
    BY <1>36, WakeType DEF PoolSleep, PoolWakes, TypeOK, BusTypes
  <2>2. \A q \in Callers : Handing(q)'
    BY <1>36 DEF PoolSleep, PoolWakes, TypeOK, CallTypes, SubTypes
  <2> QED  BY <1>36, <2>1, <2>2 DEF PoolSleep, PoolWakes, TypeOK, SubTypes, CallTypes, WorkTypes, TaskTypes, ObsTypes
<1> QED
  BY <1>1, <1>2, <1>3, <1>4, <1>5, <1>6, <1>7, <1>8, <1>9, <1>10, <1>11, <1>12, <1>13, <1>14, <1>15, <1>16, <1>17, <1>18, <1>19, <1>20, <1>21, <1>22, <1>23, <1>24, <1>25, <1>26, <1>27, <1>28, <1>29, <1>30, <1>31, <1>32, <1>33, <1>34, <1>35, <1>36
  DEF Next, CallBegin, CallStep, EmitNext, OnNext, StopNext, OffNext, CloseNextStep,
      DeliverNext, LoopStep, HandlerStep

------------------------------------------------------------------------------
(* The stop of a subscription *)


\* The labels StopInv speaks about.
Busy == StartPC \cup StopPC \cup {"on.count"}

\* A step that moves no subscription and no worker through its life.
Calm ==
  /\ UNCHANGED <<sub, phase, active, stopCh, chClosed, wg, launched>>
  /\ \A q \in Callers : pc'[q] = pc[q] \/ (pc[q] \notin Busy /\ pc'[q] \notin Busy)
  /\ \A w \in Workers : wpc'[w] = wpc[w] \/ (wpc[w] \in LivePC /\ wpc'[w] \in LivePC)
  /\ \A t \in Topics : Range(subscribers'[t]) \subseteq Range(subscribers[t])
  /\ \A s \in closing' : s \in closing \/ \E t \in Topics : s \in Range(subscribers[t])

\* A step of a call that moves a subscription through its life, and a worker's end.
Stirring(p) ==
  \/ OnSubmit(p) \/ OnAcquire(p) \/ OnAdd(p) \/ OnCount(p)
  \/ StopCas(p) \/ StopSignal(p) \/ StopWait(p) \/ CloseNext(p)
  \/ \E s \in Subs : OnBegin(p, s) \/ OffBegin(p, s)
Ending(w) == WorkerQuit(w) \/ HandlerPanics(w)

\* Cutting an entry out of a list adds none.
LEMMA WithoutRange ==
  ASSUME NEW S, NEW q \in Seq(S), NEW x
  PROVE  Range(Without(q, x)) \subseteq Range(q)
<1>1. CASE \E i \in DOMAIN q : q[i] = x
  <2> DEFINE k == CHOOSE i \in DOMAIN q : q[i] = x
  <2>1. k \in 1..Len(q)  BY <1>1
  <2>2. Without(q, x) = SubSeq(q, 1, k - 1) \o SubSeq(q, k + 1, Len(q))  BY <1>1 DEF Without
  <2> HIDE DEF k
  <2>3. ASSUME NEW i \in DOMAIN Without(q, x)
        PROVE  \E j \in DOMAIN q : Without(q, x)[i] = q[j]
    <3> DEFINE front == SubSeq(q, 1, k - 1)
               back == SubSeq(q, k + 1, Len(q))
    <3>1. front \in Seq(S) /\ Len(front) = k - 1 /\ \A j \in 1..(k - 1) : front[j] = q[j]
      BY <2>1
    <3>2. back \in Seq(S) /\ Len(back) = Len(q) - k
            /\ \A j \in 1..(Len(q) - k) : back[j] = q[j + k]
      BY <2>1
    <3> HIDE DEF front, back
    <3>3. Without(q, x) = front \o back  BY <2>2 DEF front, back
    <3>4. i \in 1..(Len(front) + Len(back))  BY <3>1, <3>2, <3>3
    <3>5. CASE i <= k - 1
      BY <2>1, <3>1, <3>2, <3>3, <3>4, <3>5
    <3>6. CASE i > k - 1
      <4>1. Without(q, x)[i] = back[i - (k - 1)]
        BY <2>1, <3>1, <3>2, <3>3, <3>4, <3>6
      <4>2. i - (k - 1) \in 1..(Len(q) - k)  BY <2>1, <3>1, <3>2, <3>4, <3>6
      <4>3. back[i - (k - 1)] = q[(i - (k - 1)) + k]  BY <3>2, <4>2
      <4>4. (i - (k - 1)) + k \in DOMAIN q  BY <2>1, <4>2
      <4> QED  BY <4>1, <4>3, <4>4
    <3> QED  BY <2>1, <3>4, <3>5, <3>6, <3>1, <3>2
  <2> QED  BY <2>3 DEF Range
<1>2. CASE ~ \E i \in DOMAIN q : q[i] = x
  BY <1>2 DEF Without
<1> QED  BY <1>1, <1>2

\* Appending an entry to a list adds that entry only.
LEMMA AppendRange ==
  ASSUME NEW S, NEW q \in Seq(S), NEW x \in S
  PROVE  Range(Append(q, x)) \subseteq Range(q) \cup {x}
<1>1. ASSUME NEW j \in DOMAIN Append(q, x)
      PROVE  Append(q, x)[j] = x \/ (j \in DOMAIN q /\ Append(q, x)[j] = q[j])
  <2>1. j \in 1..(Len(q) + 1)  OBVIOUS
  <2>2. CASE j = Len(q) + 1  BY <2>2
  <2>3. CASE j # Len(q) + 1  BY <2>1, <2>3
  <2> QED  BY <2>2, <2>3
<1> QED  BY <1>1 DEF Range

\* Every step of the bus is calm, stirs one subscription, or ends one worker.
LEMMA Cases ==
  ASSUME TypeOK, Next
  PROVE  Calm \/ (\E p \in Callers : Stirring(p)) \/ (\E w \in Workers : Ending(w))
<1> USE DEF Calm, Busy, TypeOK, CallTypes, WorkTypes, LivePC, StartPC, StopPC, busVars, subVars,
      callVars
<1>1. ASSUME NEW p \in Callers, NEW e \in Events, EmitBegin(p, e) PROVE Calm
  BY <1>1 DEF EmitBegin, MayCall, workVars
<1>2. ASSUME NEW p \in Callers, EmitRecord(p) PROVE Calm
  BY <1>2 DEF EmitRecord, workVars
<1>3. ASSUME NEW p \in Callers, EmitCount(p) PROVE Calm
  BY <1>3 DEF EmitCount, workVars
<1>4. ASSUME NEW p \in Callers, EmitLookup(p) PROVE Calm
  BY <1>4 DEF EmitLookup, workVars
<1>5. ASSUME NEW p \in Callers, EmitSubmit(p) PROVE Calm
  BY <1>5 DEF EmitSubmit, workVars
<1>6. ASSUME NEW p \in Callers, EmitAcquire(p) PROVE Calm
  BY <1>6 DEF EmitAcquire, workVars
<1>7. ASSUME NEW p \in Callers, OffRemove(p) PROVE Calm
  <2>1. sub[p] \in Subs /\ SubTopic[sub[p]] \in Topics
    BY <1>7, BusAssumption DEF OffRemove, OffPC, BusAssumption
  <2>2. \A t \in Topics : subscribers'[t] = subscribers[t]
                            \/ subscribers'[t] = Without(subscribers[t], sub[p])
    BY <1>7, <2>1 DEF OffRemove, BusTypes
  <2>3. \A t \in Topics : Range(subscribers'[t]) \subseteq Range(subscribers[t])
    BY <2>2, WithoutRange DEF BusTypes
  <2> QED  BY <1>7, <2>3 DEF OffRemove, workVars
<1>8. ASSUME NEW p \in Callers, OffCount(p) PROVE Calm
  BY <1>8 DEF OffCount, workVars
<1>9. ASSUME NEW p \in Callers, CloseBegin(p) PROVE Calm
  BY <1>9 DEF CloseBegin, MayCall, workVars
<1>10. ASSUME NEW p \in Callers, CloseCollect(p) PROVE Calm
  BY <1>10 DEF CloseCollect, workVars
<1>11. ASSUME NEW p \in Callers, CloseRelease(p) PROVE Calm
  BY <1>11 DEF CloseRelease, workVars
<1>12. ASSUME NEW e \in Events, DeliverCheck(e) PROVE Calm
  BY <1>12 DEF DeliverCheck, workVars
<1>13. ASSUME NEW e \in Events, DeliverSend(e) PROVE Calm
  BY <1>13 DEF DeliverSend, Delivered, workVars
<1>14. ASSUME NEW e \in Events, NEW w \in Workers, DeliverHandoff(e, w) PROVE Calm
  BY <1>14 DEF DeliverHandoff, Delivered, Take, workVars
<1>15. ASSUME NEW e \in Events, DeliverRefuse(e) PROVE Calm
  BY <1>15 DEF DeliverRefuse, workVars
<1>16. ASSUME NEW e \in Events, DeliverPanic(e) PROVE Calm
  BY <1>16 DEF DeliverPanic, workVars
<1>17. ASSUME NEW e \in Events, DeliverDone(e) PROVE Calm
  BY <1>17 DEF DeliverDone, workVars
<1>18. ASSUME NEW w \in Workers, WorkerReceive(w) PROVE Calm
  BY <1>18 DEF WorkerReceive, Take, workVars
<1>19. ASSUME NEW w \in Workers, HandlerSucceeds(w) PROVE Calm
  BY <1>19 DEF HandlerSucceeds, InHandler, Finish
<1>20. ASSUME NEW w \in Workers, HandlerFails(w) PROVE Calm
  BY <1>20 DEF HandlerFails, InHandler, Finish
<1>21. ASSUME NEW w \in Workers, BackoffElapses(w) PROVE Calm
  BY <1>21 DEF BackoffElapses
<1>22. ASSUME NEW w \in Workers, BackoffStopped(w) PROVE Calm
  BY <1>22 DEF BackoffStopped, Finish
<1>23. CASE Rest
  BY <1>23 DEF Rest, vars, workVars
<1>24. ASSUME NEW p \in Callers, PoolSleep(p) \/ PoolWakes(p) PROVE Calm
  BY <1>24 DEF PoolSleep, PoolWakes, workVars
<1> QED
  BY <1>1, <1>2, <1>3, <1>4, <1>5, <1>6, <1>7, <1>8, <1>9, <1>10, <1>11, <1>12, <1>13, <1>14, <1>15, <1>16, <1>17, <1>18, <1>19, <1>20, <1>21, <1>22, <1>23, <1>24
  DEF Next, CallBegin, CallStep, EmitNext, OnNext, StopNext, OffNext, CloseNextStep,
      DeliverNext, LoopStep, HandlerStep, Stirring, Ending

\* What the end of a worker does to the variables of StopInv.
LEMMA EndingFacts ==
  ASSUME NEW w \in Workers, Ending(w)
  PROVE  /\ wpc[w] \in LivePC
         /\ wpc' = [wpc EXCEPT ![w] = "exited"]
         /\ wg' = [wg EXCEPT ![w[1]] = @ - 1]
         /\ UNCHANGED <<phase, active, stopCh, chClosed, launched, pc, sub, subscribers, closing>>
BY DEF Ending, WorkerQuit, HandlerPanics, InHandler, Exit, LivePC, busVars, callVars

\* The workers of a subscription are finite in number.
LEMMA LiveFinite == ASSUME NEW s \in Subs PROVE IsFiniteSet(Live(s))
<1>1. IsFiniteSet(1..Concurrency)  BY FS_Interval, BusAssumption DEF BusAssumption
<1>2. IsFiniteSet(Workers)  BY <1>1, FS_Product, BusAssumption DEF BusAssumption, Workers
<1> QED  BY <1>2, FS_Subset DEF Live

\* The On calls that are handing a worker of s to the pool.
Handing(s) == {p \in Callers : At(p, "on.acquire") /\ sub[p] = s}

\* At most one call is: only the On call that created s starts workers for it.
LEMMA HandingAtMostOne ==
  ASSUME StartInv, NEW s \in Subs
  PROVE  IsFiniteSet(Handing(s)) /\ Cardinality(Handing(s)) \in {0, 1}
<1>1. CASE Handing(s) = {}  BY <1>1, FS_EmptySet
<1>2. CASE Handing(s) # {}
  <2>1. PICK p \in Handing(s) : TRUE  BY <1>2
  <2>2. Handing(s) = {p}  BY <2>1 DEF Handing, StartInv, StartPC
  <2> QED  BY <2>2, FS_Singleton
<1> QED  BY <1>1, <1>2

\* While a worker of s is live, the WaitGroup of s is not at zero.
LEMMA LiveCounted ==
  ASSUME TypeOK, StartInv, WorkerAccounting, NEW w \in Workers, wpc[w] \in LivePC
  PROVE  w[1] \in Subs /\ wg[w[1]] > 0
<1>1. w[1] \in Subs /\ w \in Live(w[1])  BY DEF Workers, Live
<1>2. Cardinality(Live(w[1])) \in Nat /\ Cardinality(Live(w[1])) # 0
  BY <1>1, LiveFinite, FS_EmptySet, FS_CardinalityType
<1>3. wg[w[1]] = Cardinality(Live(w[1])) + Cardinality(Handing(w[1]))
  BY <1>1 DEF WorkerAccounting, Handing
<1> QED  BY <1>1, <1>2, <1>3, HandingAtMostOne

\* Every step keeps StartInv.
LEMMA StartStep == StopInv /\ TypeOK' /\ Next => StartInv'
<1> SUFFICES ASSUME StopInv, TypeOK', Next PROVE StartInv'
  OBVIOUS
<1> USE Sizes DEF StopInv, StartInv, TypeOK, CallTypes, SubTypes, WorkTypes, Published, StartPC, StopPC
<1>1. CASE Calm
  <2>1. UNCHANGED <<sub, phase, launched>>
    BY <1>1 DEF Calm
  <2>2. \A q \in Callers : pc'[q] = pc[q] \/ (pc[q] \notin Busy /\ pc'[q] \notin Busy)
    BY <1>1 DEF Calm
  <2>3. \A w \in Workers : wpc'[w] = wpc[w] \/ wpc[w] \in LivePC
    BY <1>1 DEF Calm
  <2>4. \A w \in Workers : w[2] > launched'[w[1]] => wpc'[w] = "unstarted"
    BY <2>1, <2>3 DEF LivePC
  <2>5. \A q \in Callers : pc'[q] \in Busy => pc'[q] = pc[q]
    BY <2>2
  <2> QED  BY <2>1, <2>4, <2>5 DEF Busy
<1>2. ASSUME NEW p \in Callers, OnSubmit(p) PROVE StartInv'
  <2>1. sub[p] \in Subs /\ phase[sub[p]] = "starting" /\ UNCHANGED <<sub, phase, wpc>>
    BY <1>2 DEF OnSubmit, workVars, OnPC
  <2>2. \/ launched[sub[p]] = Concurrency /\ pc' = [pc EXCEPT ![p] = "on.add"] /\ launched' = launched
        \/ pc' = [pc EXCEPT ![p] = "on.acquire"] /\ launched' = launched
        \/ pc' = pc /\ launched' = [launched EXCEPT ![sub[p]] = @ + 1] /\ launched[sub[p]] < Concurrency
    BY <1>2 DEF OnSubmit
  <2>3. pc[p] = "on.submit"  BY <1>2 DEF OnSubmit
  <2>4. CASE launched[sub[p]] = Concurrency /\ pc' = [pc EXCEPT ![p] = "on.add"] /\ launched' = launched
    BY <2>1, <2>3, <2>4
  <2>5. CASE pc' = [pc EXCEPT ![p] = "on.acquire"] /\ launched' = launched
    BY <2>1, <2>3, <2>5
  <2>6. CASE pc' = pc /\ launched' = [launched EXCEPT ![sub[p]] = @ + 1] /\ launched[sub[p]] < Concurrency
    <3>1. \A r \in Subs : launched'[r] >= launched[r] /\ (launched'[r] # launched[r] => r = sub[p])
      <4>1. \A r \in Subs : launched[r] \in Nat
        OBVIOUS
      <4>2. \A r \in Subs : launched'[r] = IF r = sub[p] THEN launched[r] + 1 ELSE launched[r]
        BY <2>1, <2>6
      <4> HIDE DEF StopInv, TypeOK
      <4> QED  BY <4>1, <4>2
    <3>2. ASSUME NEW w \in Workers, w[2] > launched'[w[1]] PROVE w[2] > launched[w[1]]
      <4>1. w[1] \in Subs /\ w[2] \in Nat
        BY DEF Workers
      <4>2. launched'[w[1]] \in Nat /\ launched[w[1]] \in Nat
        BY <4>1
      <4> QED  BY <3>1, <3>2, <4>1, <4>2
    <3>3. \A r \in Subs : phase[r] \in Published => launched'[r] = Concurrency
      BY <2>1, <3>1
    <3>4. \A q \in Callers : At(q, "on.add") => launched'[sub[q]] = Concurrency
      <4>1. \A q \in Callers : At(q, "on.add") => sub[q] \in Subs /\ sub[q] # sub[p]
        BY <2>1, <2>3 DEF OnPC
      <4> QED  BY <3>1, <4>1
    <3>5. \A w \in Workers : w[2] > launched'[w[1]] => wpc[w] = "unstarted"
      BY <3>2
    <3> QED  BY <2>1, <2>6, <3>3, <3>4, <3>5
  <2> QED  BY <2>2, <2>4, <2>5, <2>6
<1>3. ASSUME NEW p \in Callers, OnAcquire(p) PROVE StartInv'
  <2>1. /\ sub[p] \in Subs /\ phase[sub[p]] = "starting" /\ pc[p] = "on.acquire"
        /\ launched' = [launched EXCEPT ![sub[p]] = launched[sub[p]] + 1]
        /\ pc' = [pc EXCEPT ![p] = "on.submit"]
        /\ UNCHANGED <<sub, phase>>
    BY <1>3 DEF OnAcquire, OnPC
  <2>2. \/ wpc' = wpc
        \/ wpc' = [wpc EXCEPT ![<<sub[p], launched[sub[p]] + 1>>] = "select"]
    BY <1>3 DEF OnAcquire
  <2>3. \A r \in Subs : /\ launched'[r] \in Nat /\ launched[r] \in Nat
                         /\ launched'[r] = IF r = sub[p] THEN launched[r] + 1 ELSE launched[r]
    BY <2>1
  <2>10. /\ StartInv /\ wpc \in [Workers -> LivePC \cup {"unstarted", "exited"}]
         /\ \A q \in Callers : pc[q] \in StartPC \cup StopPC => sub[q] \in Subs
         /\ pc = [q \in Callers |-> pc[q]]
    BY DEF OnPC
  <2> HIDE DEF StopInv, TypeOK, CallTypes, SubTypes, WorkTypes
  <2>4. ASSUME NEW w \in Workers, w[2] > launched'[w[1]] PROVE wpc'[w] = "unstarted"
    <3>1. w[1] \in Subs /\ w[2] \in Nat
      BY DEF Workers
    <3>2. w[2] > launched[w[1]] /\ w # <<sub[p], launched[sub[p]] + 1>>
      BY <2>1, <2>3, <2>4, <3>1
    <3>3. wpc[w] = "unstarted"
      BY <3>2, <2>10
    <3> QED  BY <2>2, <2>10, <3>2, <3>3
  <2>5. \A r \in Subs : phase'[r] \in Published => launched'[r] = Concurrency
    <3>1. \A r \in Subs : phase[r] \in Published => r # sub[p] /\ launched[r] = Concurrency
      BY <2>1, <2>10
    <3> QED  BY <2>1, <2>3, <3>1
  <2>6. \A q \in Callers : q # p /\ pc[q] \in StartPC => sub[q] # sub[p]
    BY <2>1, <2>10
  <2>7. \A q \in Callers : pc'[q] = IF q = p THEN "on.submit" ELSE pc[q]
    BY <2>1, <2>10
  <2>8. \A q \in Callers :
          /\ pc'[q] \in StartPC => phase'[sub'[q]] = "starting"
          /\ At(q, "on.add")' => launched'[sub'[q]] = Concurrency
          /\ pc'[q] \in StopPC \cup {"on.count"} => phase'[sub'[q]] \in Published
    <3> SUFFICES ASSUME NEW q \in Callers, q # p
                 PROVE  /\ pc'[q] \in StartPC => phase'[sub'[q]] = "starting"
                        /\ At(q, "on.add")' => launched'[sub'[q]] = Concurrency
                        /\ pc'[q] \in StopPC \cup {"on.count"} => phase'[sub'[q]] \in Published
      BY <2>1, <2>7
    <3>1. pc'[q] = pc[q] /\ sub'[q] = sub[q] /\ phase' = phase
      BY <2>1, <2>7
    <3>2. At(q, "on.add") => sub[q] \in Subs /\ launched'[sub[q]] = launched[sub[q]]
      BY <2>3, <2>6, <2>10
    <3> QED  BY <2>10, <3>1, <3>2
  <2>9. \A q, r \in Callers :
          pc'[q] \in StartPC /\ pc'[r] \in StartPC /\ sub'[q] = sub'[r] => q = r
    BY <2>1, <2>6, <2>7, <2>10
  <2> QED  BY <2>4, <2>5, <2>8, <2>9
<1>4. ASSUME NEW p \in Callers, OnAdd(p) PROVE StartInv'
  BY <1>4 DEF OnAdd, workVars
<1>5. ASSUME NEW p \in Callers, OnCount(p) PROVE StartInv'
  BY <1>5 DEF OnCount, busVars, workVars
<1>6. ASSUME NEW p \in Callers, StopCas(p) PROVE StartInv'
  BY <1>6 DEF StopCas, busVars, workVars, AfterStop
<1>7. ASSUME NEW p \in Callers, StopSignal(p) PROVE StartInv'
  BY <1>7 DEF StopSignal, busVars, workVars
<1>8. ASSUME NEW p \in Callers, StopWait(p) PROVE StartInv'
  BY <1>8 DEF StopWait, busVars, workVars, AfterStop
<1>9. ASSUME NEW p \in Callers, CloseNext(p) PROVE StartInv'
  <2>1. CASE closing = {} /\ pc' = [pc EXCEPT ![p] = "close.release"] /\ sub' = sub
    BY <1>9, <2>1 DEF CloseNext, workVars, subVars
  <2>2. ASSUME NEW s \in closing, sub' = [sub EXCEPT ![p] = s], pc' = [pc EXCEPT ![p] = "stop.cas"]
        PROVE  StartInv'
    BY <1>9, <2>2 DEF CloseNext, workVars, subVars, BusTypes, PublishInv
  <2> QED  BY <1>9, <2>1, <2>2 DEF CloseNext
<1>10. ASSUME NEW p \in Callers, NEW s \in Subs, OnBegin(p, s) PROVE StartInv'
  BY <1>10 DEF OnBegin, MayCall, busVars, workVars
<1>11. ASSUME NEW p \in Callers, NEW s \in Subs, OffBegin(p, s) PROVE StartInv'
  BY <1>11 DEF OffBegin, MayCall, busVars, workVars
<1>12. ASSUME NEW w \in Workers, Ending(w) PROVE StartInv'
  <2>1. wpc[w] # "unstarted" /\ wpc' = [wpc EXCEPT ![w] = "exited"]
    BY <1>12, EndingFacts DEF LivePC
  <2>2. UNCHANGED <<phase, launched, pc, sub>>  BY <1>12, EndingFacts
  <2> QED  BY <2>1, <2>2
<1> QED
  BY <1>1, <1>2, <1>3, <1>4, <1>5, <1>6, <1>7, <1>8, <1>9, <1>10, <1>11, <1>12, Cases DEF Stirring, StopInv

\* Every step keeps FlagInv.
LEMMA FlagStep == StopInv /\ TypeOK' /\ Next => FlagInv'
<1> SUFFICES ASSUME StopInv, TypeOK', Next PROVE FlagInv'
  OBVIOUS
<1> USE Sizes DEF StopInv, FlagInv, StartInv, TypeOK, CallTypes, SubTypes, Published, StartPC, StopPC
<1>1. CASE Calm
  BY <1>1 DEF Calm, Busy
<1>2. ASSUME NEW p \in Callers, OnSubmit(p) PROVE FlagInv'
  BY <1>2 DEF OnSubmit, busVars, workVars
<1>3. ASSUME NEW p \in Callers, OnAcquire(p) PROVE FlagInv'
  BY <1>3 DEF OnAcquire, busVars, Workers
<1>4. ASSUME NEW p \in Callers, OnAdd(p) PROVE FlagInv'
  BY <1>4 DEF OnAdd, workVars
<1>5. ASSUME NEW p \in Callers, OnCount(p) PROVE FlagInv'
  BY <1>5 DEF OnCount, busVars, workVars
<1>6. ASSUME NEW p \in Callers, StopCas(p) PROVE FlagInv'
  BY <1>6 DEF StopCas, busVars, workVars, AfterStop
<1>7. ASSUME NEW p \in Callers, StopSignal(p) PROVE FlagInv'
  <2>1. sub[p] \in Subs /\ ~active[sub[p]] /\ ~chClosed[sub[p]]
    BY <1>7 DEF StopSignal, StopExclusive, Stopping
  <2> QED  BY <1>7, <2>1 DEF StopSignal
<1>8. ASSUME NEW p \in Callers, StopWait(p) PROVE FlagInv'
  BY <1>8 DEF StopWait, busVars, workVars, AfterStop
<1>9. ASSUME NEW p \in Callers, CloseNext(p) PROVE FlagInv'
  BY <1>9 DEF CloseNext, workVars, subVars
<1>10. ASSUME NEW p \in Callers, NEW s \in Subs, OnBegin(p, s) PROVE FlagInv'
  BY <1>10 DEF OnBegin, MayCall, busVars, workVars
<1>11. ASSUME NEW p \in Callers, NEW s \in Subs, OffBegin(p, s) PROVE FlagInv'
  BY <1>11 DEF OffBegin, MayCall, busVars, workVars
<1>12. ASSUME NEW w \in Workers, Ending(w) PROVE FlagInv'
  <2>1. UNCHANGED <<phase, active, stopCh, chClosed, pc, sub>>  BY <1>12, EndingFacts
  <2>2. w[1] \in Subs /\ ~chClosed[w[1]]  BY <1>12, EndingFacts, LiveCounted
  <2>3. \A s \in Subs : chClosed[s] => wg'[s] = wg[s]  BY <1>12, <2>2, EndingFacts
  <2> QED  BY <2>1, <2>3
<1> QED
  BY <1>1, <1>2, <1>3, <1>4, <1>5, <1>6, <1>7, <1>8, <1>9, <1>10, <1>11, <1>12, Cases DEF Stirring, StopInv

\* Every step keeps StopExclusive.
LEMMA ExclusiveStep == StopInv /\ TypeOK' /\ Next => StopExclusive'
<1> SUFFICES ASSUME StopInv, TypeOK', Next PROVE StopExclusive'
  OBVIOUS
<1> USE Sizes DEF StopInv, StopExclusive, Stopping, FlagInv, StartInv, TypeOK, CallTypes, SubTypes, Published, StartPC, StopPC
<1>1. CASE Calm
  BY <1>1 DEF Calm, Busy
<1>2. ASSUME NEW p \in Callers, OnSubmit(p) PROVE StopExclusive'
  BY <1>2 DEF OnSubmit, busVars, workVars
<1>3. ASSUME NEW p \in Callers, OnAcquire(p) PROVE StopExclusive'
  BY <1>3 DEF OnAcquire, busVars, Workers
<1>4. ASSUME NEW p \in Callers, OnAdd(p) PROVE StopExclusive'
  BY <1>4 DEF OnAdd, workVars
<1>5. ASSUME NEW p \in Callers, OnCount(p) PROVE StopExclusive'
  BY <1>5 DEF OnCount, busVars, workVars
<1>6. ASSUME NEW p \in Callers, StopCas(p) PROVE StopExclusive'
  BY <1>6 DEF StopCas, busVars, workVars, AfterStop
<1>7. ASSUME NEW p \in Callers, StopSignal(p) PROVE StopExclusive'
  BY <1>7 DEF StopSignal, busVars, workVars
<1>8. ASSUME NEW p \in Callers, StopWait(p) PROVE StopExclusive'
  BY <1>8 DEF StopWait, busVars, workVars, AfterStop
<1>9. ASSUME NEW p \in Callers, CloseNext(p) PROVE StopExclusive'
  <2>1. CASE closing = {} /\ pc' = [pc EXCEPT ![p] = "close.release"] /\ sub' = sub
    BY <1>9, <2>1 DEF CloseNext, workVars, subVars
  <2>2. ASSUME NEW s \in closing, sub' = [sub EXCEPT ![p] = s], pc' = [pc EXCEPT ![p] = "stop.cas"]
        PROVE  StopExclusive'
    BY <1>9, <2>2 DEF CloseNext, workVars, subVars, BusTypes, PublishInv
  <2> QED  BY <1>9, <2>1, <2>2 DEF CloseNext
<1>10. ASSUME NEW p \in Callers, NEW s \in Subs, OnBegin(p, s) PROVE StopExclusive'
  <2>1. phase[s] = "fresh" /\ active' = [active EXCEPT ![s] = TRUE]
        /\ sub' = [sub EXCEPT ![p] = s] /\ pc' = [pc EXCEPT ![p] = "on.submit"]
        /\ UNCHANGED <<stopCh, chClosed>>
    BY <1>10 DEF OnBegin
  <2>2. ASSUME NEW q \in Callers, NEW r \in Subs, Stopping(q, r)'
        PROVE  Stopping(q, r) /\ r # s
    <3>1. q # p  BY <2>1, <2>2
    <3>2. Stopping(q, r)  BY <2>1, <2>2, <3>1
    <3>3. phase[r] \in Published  BY <3>2
    <3> QED  BY <2>1, <3>2, <3>3
  <2>3. ASSUME NEW r \in Subs, NEW q \in Callers, Stopping(q, r)'
        PROVE  /\ ~active'[r] /\ ~chClosed'[r]
               /\ pc'[q] = "stop.signal" => ~stopCh'[r]
               /\ \A o \in Callers : Stopping(o, r)' => o = q
    <3>1. Stopping(q, r) /\ r # s /\ q # p
      BY <2>1, <2>2, <2>3
    <3>2. pc'[q] = pc[q] /\ active'[r] = active[r]
      BY <2>1, <3>1
    <3>3. /\ ~active[r] /\ ~chClosed[r]
          /\ pc[q] = "stop.signal" => ~stopCh[r]
          /\ \A o \in Callers : Stopping(o, r) => o = q
      <4>1. StopExclusive
        OBVIOUS
      <4> HIDE DEF StopInv, TypeOK, Stopping
      <4> QED  BY <3>1, <4>1
    <3> HIDE DEF Stopping
    <3> QED  BY <2>1, <2>2, <3>2, <3>3
  <2> QED  BY <2>3
<1>11. ASSUME NEW p \in Callers, NEW s \in Subs, OffBegin(p, s) PROVE StopExclusive'
  BY <1>11 DEF OffBegin, MayCall, busVars, workVars
<1>12. ASSUME NEW w \in Workers, Ending(w) PROVE StopExclusive'
  BY <1>12, EndingFacts
<1> QED
  BY <1>1, <1>2, <1>3, <1>4, <1>5, <1>6, <1>7, <1>8, <1>9, <1>10, <1>11, <1>12, Cases DEF Stirring, StopInv

\* Every step keeps PublishInv.
LEMMA PublishStep == StopInv /\ TypeOK' /\ Next => PublishInv'
<1> SUFFICES ASSUME StopInv, TypeOK', Next PROVE PublishInv'
  OBVIOUS
<1> USE Sizes DEF StopInv, PublishInv, TypeOK, BusTypes, CallTypes, SubTypes, Published, OnPC, StartPC
<1>1. CASE Calm
  BY <1>1 DEF Calm
<1>2. ASSUME NEW p \in Callers, OnSubmit(p) PROVE PublishInv'
  BY <1>2 DEF OnSubmit, busVars
<1>3. ASSUME NEW p \in Callers, OnAcquire(p) PROVE PublishInv'
  BY <1>3 DEF OnAcquire, busVars
<1>4. ASSUME NEW p \in Callers, OnAdd(p) PROVE PublishInv'
  <2>1. sub[p] \in Subs /\ SubTopic[sub[p]] \in Topics /\ phase' = [phase EXCEPT ![sub[p]] = "added"]
    BY <1>4 DEF OnAdd, BusAssumption
  <2>2. subscribers' = [subscribers EXCEPT ![SubTopic[sub[p]]] = Append(@, sub[p])] /\ closing' = closing
    BY <1>4 DEF OnAdd
  <2>3. \A t \in Topics : subscribers'[t] = subscribers[t]
                            \/ subscribers'[t] = Append(subscribers[t], sub[p])
    BY <2>1, <2>2
  <2>4. \A t \in Topics : Range(subscribers'[t]) \subseteq Range(subscribers[t]) \cup {sub[p]}
    <3>1. \A t \in Topics : subscribers[t] \in Seq(Subs)  OBVIOUS
    <3>2. \A t \in Topics :
            Range(Append(subscribers[t], sub[p])) \subseteq Range(subscribers[t]) \cup {sub[p]}
      BY <2>1, <3>1, AppendRange
    <3> QED  BY <2>3, <3>2
  <2>5. \A r \in Subs : phase[r] \in Published => phase'[r] \in Published  BY <2>1
  <2>6. \A t \in Topics : Range(subscribers[t]) \subseteq Subs  BY DEF Range
  <2>7. \A t \in Topics : \A r \in Range(subscribers'[t]) : phase'[r] \in Published
    BY <2>1, <2>4, <2>5, <2>6
  <2>8. \A r \in closing' : phase'[r] \in Published  BY <2>2, <2>5
  <2> QED  BY <2>7, <2>8
<1>5. ASSUME NEW p \in Callers, OnCount(p) PROVE PublishInv'
  BY <1>5 DEF OnCount, busVars
<1>6. ASSUME NEW p \in Callers, StopCas(p) PROVE PublishInv'
  BY <1>6 DEF StopCas, busVars
<1>7. ASSUME NEW p \in Callers, StopSignal(p) PROVE PublishInv'
  BY <1>7 DEF StopSignal, busVars
<1>8. ASSUME NEW p \in Callers, StopWait(p) PROVE PublishInv'
  BY <1>8 DEF StopWait, busVars
<1>9. ASSUME NEW p \in Callers, CloseNext(p) PROVE PublishInv'
  BY <1>9 DEF CloseNext, subVars
<1>10. ASSUME NEW p \in Callers, NEW s \in Subs, OnBegin(p, s) PROVE PublishInv'
  BY <1>10 DEF OnBegin, busVars
<1>11. ASSUME NEW p \in Callers, NEW s \in Subs, OffBegin(p, s) PROVE PublishInv'
  BY <1>11 DEF OffBegin, busVars
<1>12. ASSUME NEW w \in Workers, Ending(w) PROVE PublishInv'
  BY <1>12, EndingFacts
<1> QED
  BY <1>1, <1>2, <1>3, <1>4, <1>5, <1>6, <1>7, <1>8, <1>9, <1>10, <1>11, <1>12, Cases DEF Stirring, StopInv

\* Nothing to count changes.
LEMMA SameCounts ==
  ASSUME WorkerAccounting, UNCHANGED <<wg, wpc>>, \A s \in Subs : Handing(s)' = Handing(s)
  PROVE  WorkerAccounting'
<1>1. \A s \in Subs : Live(s)' = Live(s)  BY DEF Live
<1> QED  BY <1>1 DEF WorkerAccounting, Handing

\* Every step keeps WorkerAccounting.
LEMMA AccountingStep == StopInv /\ TypeOK' /\ Next => WorkerAccounting'
<1> SUFFICES ASSUME StopInv, TypeOK', Next PROVE WorkerAccounting'
  OBVIOUS
<1> USE Sizes DEF StopInv
<1>0. /\ \A r \in Subs : wg[r] = Cardinality(Live(r)) + Cardinality(Handing(r))
      /\ \A r \in Subs : Cardinality(Live(r)) \in Nat /\ Cardinality(Handing(r)) \in Nat
      /\ wg \in [Subs -> Int]
  BY LiveFinite, HandingAtMostOne, FS_CardinalityType DEF WorkerAccounting, Handing, TypeOK, SubTypes
<1>1. CASE Calm
  <2>1. \A s \in Subs : Live(s)' = Live(s)  BY <1>1 DEF Calm, Live
  <2>2. \A s \in Subs : Handing(s)' = Handing(s)
    BY <1>1 DEF Calm, Handing, Busy, StartPC
  <2> QED  BY <1>1, <2>1, <2>2 DEF Calm, WorkerAccounting, Handing
<1>2. ASSUME NEW p \in Callers, OnSubmit(p) PROVE WorkerAccounting'
  <2>1. sub[p] \in Subs /\ pc[p] = "on.submit" /\ sub' = sub /\ wpc' = wpc
    BY <1>2 DEF OnSubmit, workVars, TypeOK, CallTypes, OnPC, StartPC
  <2>2. CASE wg' = wg /\ pc' = [pc EXCEPT ![p] = "on.add"]
    <3>1. \A s \in Subs : Handing(s)' = Handing(s)
      BY <2>1, <2>2 DEF Handing, TypeOK, CallTypes
    <3> QED  BY <2>1, <2>2, <3>1, SameCounts
  <2>3. CASE wg' = [wg EXCEPT ![sub[p]] = @ + 1] /\ pc' = [pc EXCEPT ![p] = "on.acquire"]
    <3>1. Handing(sub[p]) = {} /\ Handing(sub[p])' = {p}
      BY <2>1, <2>3 DEF Handing, StartInv, StartPC, TypeOK, CallTypes
    <3>2. \A s \in Subs \ {sub[p]} : Handing(s)' = Handing(s)
      BY <2>1, <2>3 DEF Handing, TypeOK, CallTypes
    <3>3. Cardinality(Handing(sub[p])) = 0 /\ Cardinality(Handing(sub[p])') = 1
      BY <3>1, FS_EmptySet, FS_Singleton
    <3>4. \A s \in Subs : Live(s)' = Live(s)  BY <2>1 DEF Live
    <3>6. \A s \in Subs : wg'[s] = Cardinality(Live(s)') + Cardinality(Handing(s)')
      BY <2>1, <2>3, <3>2, <3>3, <3>4, <1>0
    <3> QED  BY <3>6 DEF WorkerAccounting, Handing
  <2>4. CASE wg' = wg /\ pc' = pc
    <3>1. \A s \in Subs : Handing(s)' = Handing(s)  BY <2>1, <2>4 DEF Handing
    <3> QED  BY <2>1, <2>4, <3>1, SameCounts
  <2> QED  BY <1>2, <2>2, <2>3, <2>4 DEF OnSubmit
<1>3. ASSUME NEW p \in Callers, OnAcquire(p) PROVE WorkerAccounting'
  <2> DEFINE s == sub[p]
             w == <<sub[p], launched[sub[p]] + 1>>
  <2>1. s \in Subs /\ pc[p] = "on.acquire" /\ sub' = sub /\ pc' = [pc EXCEPT ![p] = "on.submit"]
    BY <1>3 DEF OnAcquire, TypeOK, CallTypes, OnPC, StartPC
  <2>2. Handing(s) = {p} /\ Handing(s)' = {}
    BY <2>1 DEF Handing, StartInv, StartPC, TypeOK, CallTypes
  <2>3. Cardinality(Handing(s)) = 1 /\ Cardinality(Handing(s)') = 0
    BY <2>2, FS_EmptySet, FS_Singleton
  <2>4. \A r \in Subs \ {s} : Handing(r)' = Handing(r)
    BY <2>1 DEF Handing, TypeOK, CallTypes
  <2>6. w \in Workers /\ wpc[w] = "unstarted"
    BY <2>1 DEF TypeOK, SubTypes, StartInv, Workers, BusAssumption
  <2>7. CASE wpc' = [wpc EXCEPT ![w] = "select"] /\ wg' = wg
    <3>1. Live(s)' = Live(s) \cup {w} /\ w \notin Live(s)
      <4>1. "select" \in LivePC /\ "unstarted" \notin LivePC  BY DEF LivePC
      <4>2. \A v \in Workers : wpc'[v] = IF v = w THEN "select" ELSE wpc[v]
        BY <2>7 DEF TypeOK, WorkTypes
      <4>3. w[1] = s  OBVIOUS
      <4> QED  BY <2>1, <2>6, <4>1, <4>2, <4>3 DEF Live
    <3>2. \A r \in Subs \ {s} : Live(r)' = Live(r)
      BY <2>6, <2>7 DEF Live, TypeOK, WorkTypes
    <3>3. Cardinality(Live(s)') = Cardinality(Live(s)) + 1
      BY <2>1, <3>1, LiveFinite, FS_AddElement
    <3>4. \A r \in Subs : wg'[r] = Cardinality(Live(r)') + Cardinality(Handing(r)')
      BY <2>1, <2>3, <2>4, <2>7, <3>2, <3>3, <1>0
    <3> QED  BY <3>4 DEF WorkerAccounting, Handing
  <2>8. CASE wpc' = wpc /\ wg' = [wg EXCEPT ![s] = @ - 1]
    <3>1. \A r \in Subs : Live(r)' = Live(r)  BY <2>8 DEF Live
    <3>2. \A r \in Subs : wg'[r] = Cardinality(Live(r)') + Cardinality(Handing(r)')
      BY <2>1, <2>3, <2>4, <2>8, <3>1, <1>0
    <3> QED  BY <3>2 DEF WorkerAccounting, Handing
  <2> QED  BY <1>3, <2>7, <2>8 DEF OnAcquire
<1>4. ASSUME NEW p \in Callers, OnAdd(p) PROVE WorkerAccounting'
  <2>1. \A r \in Subs : Handing(r)' = Handing(r)
    BY <1>4 DEF OnAdd, workVars, Handing, TypeOK, CallTypes
  <2> QED  BY <1>4, <2>1, SameCounts DEF OnAdd, workVars
<1>5. ASSUME NEW p \in Callers, OnCount(p) PROVE WorkerAccounting'
  <2>1. \A r \in Subs : Handing(r)' = Handing(r)
    BY <1>5 DEF OnCount, workVars, Handing, TypeOK, CallTypes
  <2> QED  BY <1>5, <2>1, SameCounts DEF OnCount, workVars
<1>6. ASSUME NEW p \in Callers, StopCas(p) PROVE WorkerAccounting'
  <2>1. \A r \in Subs : Handing(r)' = Handing(r)
    BY <1>6 DEF StopCas, workVars, AfterStop, Handing, TypeOK, CallTypes
  <2> QED  BY <1>6, <2>1, SameCounts DEF StopCas, workVars, AfterStop
<1>7. ASSUME NEW p \in Callers, StopSignal(p) PROVE WorkerAccounting'
  <2>1. \A r \in Subs : Handing(r)' = Handing(r)
    BY <1>7 DEF StopSignal, workVars, Handing, TypeOK, CallTypes
  <2> QED  BY <1>7, <2>1, SameCounts DEF StopSignal, workVars
<1>8. ASSUME NEW p \in Callers, StopWait(p) PROVE WorkerAccounting'
  <2>1. \A r \in Subs : Handing(r)' = Handing(r)
    BY <1>8 DEF StopWait, workVars, AfterStop, Handing, TypeOK, CallTypes
  <2> QED  BY <1>8, <2>1, SameCounts DEF StopWait, workVars, AfterStop
<1>9. ASSUME NEW p \in Callers, CloseNext(p) PROVE WorkerAccounting'
  <2>1. \A r \in Subs : Handing(r)' = Handing(r)
    BY <1>9 DEF CloseNext, workVars, subVars, Handing, TypeOK, CallTypes
  <2> QED  BY <1>9, <2>1, SameCounts DEF CloseNext, workVars, subVars
<1>10. ASSUME NEW p \in Callers, NEW s \in Subs, OnBegin(p, s) PROVE WorkerAccounting'
  <2>1. \A r \in Subs : Handing(r)' = Handing(r)
    BY <1>10 DEF OnBegin, workVars, MayCall, Handing, TypeOK, CallTypes
  <2> QED  BY <1>10, <2>1, SameCounts DEF OnBegin, workVars, MayCall
<1>11. ASSUME NEW p \in Callers, NEW s \in Subs, OffBegin(p, s) PROVE WorkerAccounting'
  <2>1. \A r \in Subs : Handing(r)' = Handing(r)
    BY <1>11 DEF OffBegin, workVars, MayCall, Handing, TypeOK, CallTypes
  <2> QED  BY <1>11, <2>1, SameCounts DEF OffBegin, workVars, MayCall
<1>12. ASSUME NEW w \in Workers, Ending(w) PROVE WorkerAccounting'
  <2>1. w[1] \in Subs /\ wpc[w] \in LivePC /\ wpc' = [wpc EXCEPT ![w] = "exited"]
        /\ wg' = [wg EXCEPT ![w[1]] = @ - 1] /\ pc' = pc /\ sub' = sub
    BY <1>12, EndingFacts DEF Workers
  <2>2. w \in Live(w[1]) /\ Live(w[1])' = Live(w[1]) \ {w}
    BY <2>1 DEF Live, LivePC, TypeOK, WorkTypes
  <2>3. Cardinality(Live(w[1])') = Cardinality(Live(w[1])) - 1
    <3>1. IsFiniteSet(Live(w[1]))  BY <2>1, LiveFinite
    <3>2. Cardinality(Live(w[1]) \ {w}) = Cardinality(Live(w[1])) - 1
      BY <2>2, <3>1, FS_RemoveElement
    <3> QED  BY <2>2, <3>2
  <2>4. \A r \in Subs \ {w[1]} : Live(r)' = Live(r)
    BY <2>1 DEF Live, TypeOK, WorkTypes
  <2>5. \A r \in Subs : Handing(r)' = Handing(r)  BY <2>1 DEF Handing
  <2>7. \A r \in Subs : wg'[r] = Cardinality(Live(r)') + Cardinality(Handing(r)')
    BY <2>1, <2>3, <2>4, <2>5, <1>0
  <2> QED  BY <2>7 DEF WorkerAccounting, Handing
<1> QED
  BY <1>1, <1>2, <1>3, <1>4, <1>5, <1>6, <1>7, <1>8, <1>9, <1>10, <1>11, <1>12, Cases
  DEF Stirring

------------------------------------------------------------------------------
(* The theorems *)

\* StopInv holds initially.
LEMMA InitStop == Init => StopInv
<1> SUFFICES ASSUME Init PROVE StopInv
  OBVIOUS
<1>1. TypeOK  BY InitTypes
<1>2. StartInv
  BY BusAssumption DEF Init, StartInv, StartPC, StopPC, Published, Workers, BusAssumption
<1>3. PublishInv  BY DEF Init, PublishInv, Range
<1>4. FlagInv  BY DEF Init, FlagInv
<1>5. StopExclusive  BY DEF Init, StopExclusive, Stopping
<1>6. WorkerAccounting
  <2>1. \A s \in Subs : Live(s) = {} /\ Handing(s) = {}
    BY DEF Init, Live, LivePC, Handing
  <2>2. \A s \in Subs : wg[s] = 0  BY DEF Init
  <2> QED  BY <2>1, <2>2, FS_EmptySet DEF WorkerAccounting, Handing
<1> QED  BY <1>1, <1>2, <1>3, <1>4, <1>5, <1>6 DEF StopInv

\* Every step and every stuttering step keeps StopInv.
LEMMA NextStop == StopInv /\ [Next]_vars => StopInv'
<1> SUFFICES ASSUME StopInv, [Next]_vars PROVE StopInv'
  OBVIOUS
<1>1. CASE Next
  <2>1. TypeOK'  BY <1>1, NextTypes DEF StopInv
  <2> QED
    BY <1>1, <2>1, StartStep, PublishStep, FlagStep, ExclusiveStep, AccountingStep DEF StopInv
<1>2. CASE UNCHANGED vars
  <2> USE <1>2 DEF vars, busVars, subVars, callVars, workVars, taskVars, obsVars
  <2>1. TypeOK'
    BY DEF StopInv, TypeOK, BusTypes, SubTypes, CallTypes, WorkTypes, TaskTypes, ObsTypes
  <2>2. StartInv' /\ PublishInv' /\ FlagInv'
    BY DEF StopInv, StartInv, PublishInv, FlagInv
  <2>3. StopExclusive'  BY DEF StopInv, StopExclusive, Stopping
  <2>4. WorkerAccounting'  BY DEF StopInv, WorkerAccounting, Live
  <2> QED  BY <2>1, <2>2, <2>3, <2>4 DEF StopInv
<1> QED  BY <1>1, <1>2

\* StopInv leaves no live worker to a subscription whose channel is closed.
LEMMA StopQuiets == StopInv => Quiesced
<1> SUFFICES ASSUME StopInv, NEW s \in Subs, chClosed[s]
             PROVE  ~active[s] /\ stopCh[s] /\ Live(s) = {} /\ launched[s] = Concurrency
  BY DEF Quiesced
<1>1. stopCh[s] /\ ~active[s] /\ phase[s] \in Published /\ wg[s] = 0
  BY DEF StopInv, FlagInv
<1>2. launched[s] = Concurrency  BY <1>1 DEF StopInv, StartInv
<1>3. Live(s) = {}
  <2>1. wg[s] = Cardinality(Live(s)) + Cardinality(Handing(s))
    BY DEF StopInv, WorkerAccounting, Handing
  <2>2. IsFiniteSet(Live(s)) /\ Cardinality(Live(s)) \in Nat
    BY LiveFinite, FS_CardinalityType
  <2>3. Cardinality(Handing(s)) \in {0, 1}  BY HandingAtMostOne DEF StopInv
  <2>4. Cardinality(Live(s)) = 0  BY <1>1, <2>1, <2>2, <2>3
  <2> QED  BY <2>2, <2>4, FS_EmptySet
<1> QED  BY <1>1, <1>2, <1>3

\* StopInv is an invariant of the bus.
THEOREM StopInvariant == Spec => []StopInv
BY InitStop, NextStop, PTL DEF Spec

\* The types of all variables hold in every state of the bus.
THEOREM TypeCorrect == Spec => []TypeOK
<1>1. StopInv => TypeOK  BY DEF StopInv
<1> QED  BY <1>1, StopInvariant, PTL

\* However many Off and Close calls overlap, one of them stops a subscription,
\* and no channel of it is closed twice.
THEOREM OneStopper == Spec => []StopExclusive
<1>1. StopInv => StopExclusive  BY DEF StopInv
<1> QED  BY <1>1, StopInvariant, PTL

\* The WaitGroup of a subscription always counts its workers.
THEOREM WaitGroupCounts == Spec => []WorkerAccounting
<1>1. StopInv => WorkerAccounting  BY DEF StopInv
<1> QED  BY <1>1, StopInvariant, PTL

\* Once stop has closed eventCh, no worker of the subscription runs: its handler is
\* not running and will not run again.
THEOREM StoppedIsQuiet == Spec => []Quiesced
BY StopQuiets, StopInvariant, PTL

==============================================================================
