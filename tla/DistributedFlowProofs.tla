-------------------------- MODULE DistributedFlowProofs --------------------------
(***************************************************************************)
(* Where every message is on the distributed bus: it is handled by one of  *)
(* the subscriptions that share a Kafka reader, and what RabbitMQ has not  *)
(* seen acknowledged comes back.  The inductive invariant is FlowInv, on   *)
(* top of LifeInv.  Without a clash of names (NameInv) the bus commits     *)
(* only what was handled, and with exact routing it implements EventBus.   *)
(* RestInv adds how pumps and loops end, and with it what the bus is left  *)
(* with at rest.                                                           *)
(***************************************************************************)
EXTENDS DistributedBusProofs, FiniteSetTheorems

USE DEF At, Goto, ReaderType

------------------------------------------------------------------------------
(* The inductive invariant behind FetchedIsOnce and HandledOrRedelivered       *)

\* Between the adapter and the handler: with the broker's delivery, the pump, the
\* channel and processMessages.
Waiting(s, e) ==
  e = delivery[s] \/ e = inHand[s] \/ e = held[s] \/ e \in Range(msgChan[s])
Given(s, e) == Waiting(s, e) \/ task[s][e] # "none"
Active(s, e) == Waiting(s, e) \/ task[s][e] \in {"handling", "acking"}

\* On its way a message is in one place at a time, a task acknowledges only what
\* its handler succeeded on, and nothing is given before the adapter's Subscribe.
PlaceOf(s) ==
  /\ IsInjective(msgChan[s])
  /\ \A e \in Range(msgChan[s]) : e # delivery[s] /\ e # inHand[s] /\ e # held[s]
  /\ \A e \in Events :
       /\ Waiting(s, e) => task[s][e] = "none"
       /\ e = delivery[s] => e # inHand[s] /\ e # held[s]
       /\ e = inHand[s] => e # held[s]
       /\ task[s][e] = "acking" => <<s, e>> \in succeeded
  /\ proc[s] = "none" => pump[s] = "none"
  /\ pump[s] = "none" => \A e \in Events : ~Given(s, e)
PlaceInv == \A s \in Subs : PlaceOf(s)

\* A log has each event of its topic once; a reader has handed out a part of it.
LogInv ==
  /\ \A t \in Topics :
       /\ IsInjective(log[t])
       /\ \A e \in Range(log[t]) : EventTopic[e] = t /\ stage[e] \in {"published", "failed"}
  /\ \A k \in Keys : readers[k] # None => readers[k].first <= readers[k].pos
                                            /\ readers[k].pos <= Len(log[readers[k].topic])
  /\ \A g \in Groups, t \in Topics : committed[<<g, t>>] <= Len(log[t])

\* Subscriptions that share a reader share what it has handed out.
KafkaOf(s) ==
  /\ pump[s] # "select" /\ channel[s] = "none" /\ delivery[s] = None
  /\ pump[s] # "none" => Reader(s) # None
  /\ \A e \in Events : Given(s, e) =>
       /\ e \in Fetched(KeyOf(s))
       /\ \A c \in Subs \ {s} : KeyOf(c) = KeyOf(s) => ~Given(c, e)
FetchedOf(k) == \A e \in Fetched(k) : \E c \in Subs : KeyOf(c) = k /\ Given(c, e)
KafkaInv == mq = "kafka" => /\ \A s \in Subs : KafkaOf(s)
                            /\ \A k \in Keys : FetchedOf(k)

\* What is unacknowledged on an open channel is all that its subscription works
\* on, and nobody else can be given it before the channel is closed.
RoutedTo(e, k) == \E t \in bound[k] : <<EventTopic[e], t>> \in Routes
QueueOf(k) ==
  /\ IsInjective(queue[k]) /\ Range(queue[k]) \subseteq routed[k]
  /\ \A e \in routed[k] : RoutedTo(e, k) /\ stage[e] = "published"
UnackedOf(s) ==
  unacked[s] # None =>
    /\ channel[s] = "open" /\ unacked[s] \in routed[KeyOf(s)]
    /\ unacked[s] \notin Range(queue[KeyOf(s)])
    /\ \A c \in Subs \ {s} : KeyOf(c) = KeyOf(s) => unacked[c] # unacked[s]
ConsumerOf(s) ==
  /\ channel[s] = "open" => conn
  /\ pump[s] = "none" => channel[s] = "none"
  /\ pump[s] # "check" /\ pump[s] # "fetch"
  /\ \A e \in Events : Given(s, e) =>
       /\ e \in routed[KeyOf(s)]
       /\ channel[s] = "open" =>
            /\ Active(s, e) => unacked[s] = e
            /\ e \notin Range(queue[KeyOf(s)])
            /\ \A c \in Subs \ {s} : KeyOf(c) = KeyOf(s) => unacked[c] # e
RabbitInv ==
  mq = "rabbit" => /\ \A k \in Keys : QueueOf(k)
                   /\ \A s \in Subs : UnackedOf(s) /\ ConsumerOf(s)

FlowInv ==
  /\ FlowTypes /\ KafkaTypes /\ RabbitTypes
  /\ PlaceInv /\ LogInv /\ KafkaInv /\ RabbitInv /\ HandledOrRedelivered

------------------------------------------------------------------------------
(* Moves: what passes a message on within one subscription *)

\* Nothing that subscription c holds is touched.
Same(c) ==
  /\ delivery'[c] = delivery[c] /\ inHand'[c] = inHand[c] /\ held'[c] = held[c]
  /\ msgChan'[c] = msgChan[c] /\ task'[c] = task[c]
  /\ pump'[c] = pump[c] /\ proc'[c] = proc[c]

\* Only s is touched, and it is given nothing and loses nothing.
Moved(s) ==
  /\ \A c \in Subs \ {s} : Same(c)
  /\ PlaceOf(s)'
  /\ \A e \in Events : (Given(s, e)' <=> Given(s, e)) /\ (Active(s, e)' => Active(s, e))
  /\ pump'[s] = "none" <=> pump[s] = "none"
  /\ pump'[s] \in {pump[s], "send", "done"} \cup (IF mq = "kafka" THEN {"check", "fetch"} ELSE {"select"})
  /\ succeeded \subseteq succeeded'

\* Where nothing is touched every message stays where it is.
LEMMA SameKeeps ==
  ASSUME NEW c \in Subs, Same(c), succeeded \subseteq succeeded', PlaceOf(c)
  PROVE  /\ PlaceOf(c)'
         /\ \A e \in Events : (Given(c, e)' <=> Given(c, e)) /\ (Active(c, e)' <=> Active(c, e))
<1>1. \A e : Waiting(c, e)' <=> Waiting(c, e)  BY DEF Waiting, Same
<1>2. \A e : (Given(c, e)' <=> Given(c, e)) /\ (Active(c, e)' <=> Active(c, e))
  BY <1>1 DEF Given, Active, Same
<1>3. PlaceOf(c)'  BY <1>1, <1>2 DEF PlaceOf, Same
<1> QED  BY <1>2, <1>3

\* The variables that messages move through, and their types.
LEMMA Types ==
  ASSUME BusTypes, FlowTypes, RabbitTypes
  PROVE  /\ pump \in [Subs -> {"none", "check", "fetch", "select", "send", "done"}]
         /\ inHand \in [Subs -> Events \cup {None}] /\ msgChan \in [Subs -> Seq(Events)]
         /\ held \in [Subs -> Events \cup {None}]
         /\ task \in [Subs -> [Events -> {"none", "handling", "acking"} \cup Outcomes]]
         /\ \A s \in Subs : (pump[s] = "send" <=> inHand[s] # None)
                              /\ (proc[s] = "acquire" <=> held[s] # None)
         /\ delivery \in [Subs -> Events \cup {None}]
         /\ unacked \in [Subs -> Events \cup {None}]
         /\ proc \in [Subs -> {"none", "receive", "acquire", "gone"}]
         /\ None \notin Events /\ None \notin Subs
         /\ \A s \in Subs, e \in Events : task[s][e] \in {"none", "handling", "acking"} \cup Outcomes
         /\ \A s \in Subs : Range(msgChan[s]) \subseteq Events
<1>1. \A s \in Subs : Range(msgChan[s]) \subseteq Events
  BY DEF FlowTypes, Range
<1> QED  BY <1>1, Sizes DEF BusTypes, FlowTypes, RabbitTypes

\* The pump's send puts the message in hand at the end of the channel.
LEMMA SendMoves ==
  ASSUME BusTypes, FlowTypes, RabbitTypes, PlaceInv, NEW s \in Subs, NEW cap, NEW next,
         next = IF mq = "kafka" THEN "check" ELSE "select",
         PumpSend(s, cap, next), UNCHANGED <<delivery, held, task, succeeded>>
  PROVE  Moved(s)
<1> USE Types
<1> DEFINE e == inHand[s]
           q == msgChan[s]
<1>1. pump[s] = "send" /\ e \in Events /\ q \in Seq(Events)
  BY DEF PumpSend
<1>2. /\ inHand'[s] = None /\ msgChan'[s] = Append(q, e) /\ pump'[s] = next
      /\ \A c \in Subs \ {s} : Same(c)
      /\ UNCHANGED proc
  BY DEF PumpSend, Same
<1>3. PlaceOf(s)  BY DEF PlaceInv
<1>4. IsInjective(q) /\ e \notin Range(q)  BY <1>3 DEF PlaceOf
<1>5. IsInjective(Append(q, e)) /\ Range(Append(q, e)) = Range(q) \cup {e}
  BY <1>1, <1>4, AppendDistinct
<1>6. \A x \in Events : Waiting(s, x)' <=> Waiting(s, x)
  BY <1>2, <1>5 DEF Waiting
<1>7. \A x \in Events : (Given(s, x)' <=> Given(s, x)) /\ (Active(s, x)' <=> Active(s, x))
  BY <1>6 DEF Given, Active
<1>8. UNCHANGED <<delivery[s], held[s], task[s]>>
  OBVIOUS
<1>9. \A x \in Range(msgChan'[s]) : x # delivery[s] /\ x # None /\ x # held[s]
  <2>1. \A x \in Range(q) : x # delivery[s] /\ x # None /\ x # held[s]
    BY <1>3 DEF PlaceOf
  <2>2. e # delivery[s] /\ e # None /\ e # held[s]
    BY <1>1, <1>3 DEF PlaceOf
  <2> QED  BY <1>2, <1>5, <2>1, <2>2
<1>10. \A x \in Events :
        /\ Waiting(s, x)' => task[s][x] = "none"
        /\ x = delivery[s] => x # held[s]
        /\ task[s][x] = "acking" => <<s, x>> \in succeeded'
  BY <1>3, <1>6 DEF PlaceOf
<1>11. PlaceOf(s)'
  BY <1>1, <1>2, <1>3, <1>5, <1>7, <1>9, <1>10 DEF PlaceOf
<1> QED  BY <1>1, <1>2, <1>7, <1>11 DEF Moved

\* The pump's select takes a delivery.
LEMMA TakeMoves ==
  ASSUME BusTypes, FlowTypes, RabbitTypes, PlaceInv, NEW s \in Subs, RabbitTake(s),
         mq = "rabbit", UNCHANGED <<held, task, succeeded>>
  PROVE  Moved(s)
<1> USE Types
<1> DEFINE e == delivery[s]
<1>1. pump[s] = "select" /\ e \in Events /\ inHand[s] = None
  BY DEF RabbitTake
<1>2. /\ inHand'[s] = e /\ delivery'[s] = None /\ pump'[s] = "send"
      /\ \A c \in Subs \ {s} : Same(c)
      /\ UNCHANGED <<proc, msgChan>>
  BY DEF RabbitTake, PumpHolds, Same
<1>3. PlaceOf(s)  BY DEF PlaceInv
<1>4. \A x \in Events : Waiting(s, x)' <=> Waiting(s, x)
  BY <1>1, <1>2 DEF Waiting
<1>5. \A x \in Events : (Given(s, x)' <=> Given(s, x)) /\ (Active(s, x)' <=> Active(s, x))
  BY <1>4 DEF Given, Active
<1>6. PlaceOf(s)'
  BY <1>1, <1>2, <1>3, <1>4, <1>5 DEF PlaceOf
<1> QED  BY <1>1, <1>2, <1>5, <1>6 DEF Moved

\* A pump that goes on, or returns, holding nothing.
LEMMA PumpMoves ==
  ASSUME BusTypes, FlowTypes, RabbitTypes, PlaceInv, NEW s \in Subs,
         \/ mq = "kafka" /\ (KafkaCheck(s) \/ KafkaFetchFails(s))
         \/ mq = "rabbit" /\ RabbitDisconnected(s),
         UNCHANGED <<held, task, succeeded, delivery>>
  PROVE  Moved(s)
<1> USE Types
<1>1. /\ pump[s] # "none" /\ pump' = [pump EXCEPT ![s] = pump'[s]]
      /\ pump'[s] = "done" \/ (mq = "kafka" /\ pump'[s] = "fetch")
      /\ UNCHANGED <<inHand, msgChan, proc>>
  BY DEF KafkaCheck, KafkaFetchFails, RabbitDisconnected, PumpReturns, chanVars
<1>2. \A c \in Subs \ {s} : Same(c)  BY <1>1 DEF Same
<1>3. \A x : Waiting(s, x)' <=> Waiting(s, x)  BY <1>1 DEF Waiting
<1>4. \A x : (Given(s, x)' <=> Given(s, x)) /\ (Active(s, x)' <=> Active(s, x))
  BY <1>3 DEF Given, Active
<1>5. PlaceOf(s)'  BY <1>1, <1>3, <1>4 DEF PlaceInv, PlaceOf
<1> QED  BY <1>1, <1>2, <1>4, <1>5 DEF Moved

\* processMessages takes a message from the channel, and keeps it or settles it.
LEMMA ReceiveMoves ==
  ASSUME BusTypes, FlowTypes, RabbitTypes, PlaceInv, NEW s \in Subs, ProcReceive(s)
  PROVE  Moved(s)
<1> USE Types
<1>0. PICK q \in Seq(Events) : q = msgChan[s]  OBVIOUS
<1>1. q \in Seq(Events) /\ q # <<>> /\ held[s] = None /\ proc[s] = "receive"
  BY <1>0 DEF ProcReceive
<1>e. PICK e \in Events : e = Head(q)  BY <1>1
<1>2. PlaceOf(s)  BY DEF PlaceInv
<1>3. /\ IsInjective(Tail(q)) /\ Range(Tail(q)) = Range(q) \ {e}
      /\ e \in Range(q)
  BY <1>0, <1>1, <1>2, <1>e, TailDistinct DEF PlaceOf
<1>4. e \in Events /\ task[s][e] = "none" /\ e # delivery[s] /\ e # inHand[s]
  BY <1>0, <1>2, <1>3, <1>e DEF PlaceOf, Waiting
<1>5. /\ msgChan'[s] = Tail(q) /\ proc'[s] # "none"
      /\ UNCHANGED <<delivery, inHand, pump, succeeded, mq>>
      /\ \A c \in Subs \ {s} : Same(c)
      /\ \/ held'[s] = e /\ task'[s] = task[s]
         \/ \E x \in Outcomes : held'[s] = None /\ task'[s] = [task[s] EXCEPT ![e] = x]
  <2>1. /\ msgChan'[s] = Tail(q) /\ proc'[s] # "none"
        /\ UNCHANGED <<delivery, inHand, pump, succeeded, mq>>
    BY <1>0, <1>1 DEF ProcReceive, rabbitVars, busVars
  <2>2. \A c \in Subs \ {s} : Same(c)
    BY <1>1 DEF ProcReceive, Settle, Same, rabbitVars
  <2>3. \/ held'[s] = e /\ task'[s] = task[s]
        \/ \E x \in Outcomes : held'[s] = None /\ task'[s] = [task[s] EXCEPT ![e] = x]
    BY <1>0, <1>1, <1>e DEF ProcReceive, Settle, Outcomes
  <2> QED  BY <2>1, <2>2, <2>3
<1>6. ASSUME held'[s] = e, task'[s] = task[s] PROVE Moved(s)
  <2>1. \A x \in Events : Waiting(s, x)' <=> Waiting(s, x)
    BY <1>0, <1>1, <1>3, <1>5, <1>6 DEF Waiting
  <2>2. \A x \in Events : (Given(s, x)' <=> Given(s, x)) /\ (Active(s, x)' <=> Active(s, x))
    BY <1>6, <2>1 DEF Given, Active
  <2>3. PlaceOf(s)'
    BY <1>0, <1>2, <1>3, <1>4, <1>5, <1>6, <2>1, <2>2 DEF PlaceOf
  <2> QED  BY <1>5, <2>2, <2>3 DEF Moved
<1>7. ASSUME NEW o \in Outcomes, held'[s] = None, task'[s] = [task[s] EXCEPT ![e] = o] PROVE Moved(s)
  <2>1. o \notin {"none", "handling", "acking"}  BY <1>7 DEF Outcomes
  <2>2. task'[s][e] = o /\ \A x \in Events \ {e} : task'[s][x] = task[s][x]
    BY <1>4, <1>7
  <2>3. ~Waiting(s, e)' /\ \A x \in Events \ {e} : Waiting(s, x)' <=> Waiting(s, x)
    BY <1>0, <1>1, <1>3, <1>4, <1>5, <1>7 DEF Waiting
  <2>4. Given(s, e)' /\ Given(s, e) /\ ~Active(s, e)'
    BY <1>0, <1>3, <2>1, <2>2, <2>3 DEF Given, Active, Waiting
  <2>5. \A x \in Events \ {e} : (Given(s, x)' <=> Given(s, x)) /\ (Active(s, x)' <=> Active(s, x))
    BY <2>2, <2>3 DEF Given, Active
  <2>6. \A x \in Events : Waiting(s, x)' => task'[s][x] = "none"
    BY <1>2, <2>2, <2>3 DEF PlaceOf
  <2>7. \A x \in Events : task'[s][x] = "acking" => <<s, x>> \in succeeded'
    BY <1>2, <1>5, <2>1, <2>2 DEF PlaceOf
  <2>8. PlaceOf(s)'
    BY <1>0, <1>2, <1>3, <1>4, <1>5, <1>7, <2>4, <2>5, <2>6, <2>7 DEF PlaceOf
  <2> QED  BY <1>5, <2>4, <2>5, <2>8 DEF Moved
<1> QED  BY <1>5, <1>6, <1>7

\* processMessages hands what it holds to a task, or drops it.
LEMMA AcquireMoves ==
  ASSUME BusTypes, FlowTypes, RabbitTypes, PlaceInv, NEW s \in Subs, ProcAcquire(s)
  PROVE  Moved(s)
<1> USE Types
<1>0. PICK e \in Events : e = held[s] /\ proc[s] = "acquire"
  BY DEF ProcAcquire
<1>1. PlaceOf(s)  BY DEF PlaceInv
<1>2. task[s][e] = "none" /\ e # delivery[s] /\ e # inHand[s] /\ e \notin Range(msgChan[s])
  BY <1>0, <1>1 DEF PlaceOf, Waiting
<1>3. PICK o \in {"handling", "dropped"} : task' = [task EXCEPT ![s][e] = o]
  BY <1>0 DEF ProcAcquire, Settle
<1>4. /\ held'[s] = None /\ proc'[s] = "receive"
      /\ UNCHANGED <<delivery, inHand, msgChan, pump, succeeded, mq>>
      /\ \A c \in Subs \ {s} : Same(c)
  <2>1. /\ held'[s] = None /\ proc'[s] = "receive"
        /\ UNCHANGED <<delivery, inHand, msgChan, pump, succeeded, mq>>
    BY DEF ProcAcquire, rabbitVars, busVars, chanVars
  <2>2. \A c \in Subs \ {s} : held'[c] = held[c] /\ proc'[c] = proc[c]
    BY DEF ProcAcquire
  <2> QED  BY <1>3, <2>1, <2>2 DEF Same
<1>5. task'[s][e] = o /\ \A x \in Events \ {e} : task'[s][x] = task[s][x]  BY <1>3
<1>6. ~Waiting(s, e)' /\ \A x \in Events \ {e} : Waiting(s, x)' <=> Waiting(s, x)
  BY <1>0, <1>2, <1>4 DEF Waiting
<1>7. Given(s, e)' /\ Given(s, e) /\ Active(s, e)
  BY <1>0, <1>5, <1>6 DEF Given, Active, Waiting
<1>8. \A x \in Events \ {e} : (Given(s, x)' <=> Given(s, x)) /\ (Active(s, x)' <=> Active(s, x))
  BY <1>5, <1>6 DEF Given, Active
<1>9. \A x \in Events : /\ Waiting(s, x)' => task'[s][x] = "none"
                        /\ task'[s][x] = "acking" => <<s, x>> \in succeeded'
  BY <1>1, <1>4, <1>5, <1>6 DEF PlaceOf
<1>10. PlaceOf(s)'
  BY <1>0, <1>1, <1>2, <1>4, <1>7, <1>8, <1>9 DEF PlaceOf
<1> QED  BY <1>4, <1>7, <1>8, <1>10 DEF Moved

\* The loop ends.
LEMMA EndsMoves ==
  ASSUME BusTypes, FlowTypes, RabbitTypes, PlaceInv, NEW s \in Subs, ProcEnds(s)
  PROVE  Moved(s)
<1> USE Types
<1>1. /\ proc[s] = "receive" /\ proc' = [proc EXCEPT ![s] = "gone"]
      /\ UNCHANGED <<delivery, inHand, held, msgChan, pump, task, succeeded, mq>>
  BY DEF ProcEnds, rabbitVars, busVars, procVars, chanVars
<1>2. \A c \in Subs \ {s} : Same(c)  BY <1>1 DEF Same
<1>3. \A x : (Waiting(s, x)' <=> Waiting(s, x)) /\ (Given(s, x)' <=> Given(s, x))
             /\ (Active(s, x)' <=> Active(s, x))
  BY <1>1 DEF Waiting, Given, Active
<1>4. PlaceOf(s)'  BY <1>1, <1>3 DEF PlaceInv, PlaceOf
<1> QED  BY <1>1, <1>2, <1>3, <1>4 DEF Moved

\* A task goes on from its handler to the acknowledgement, or ends.
LEMMA TaskMoves ==
  ASSUME BusTypes, FlowTypes, RabbitTypes, PlaceInv, NEW s \in Subs, NEW e \in Events,
         (\E ok \in BOOLEAN : HandlerReturns(s, e, ok)) \/ HandlerAcks(s, e)
  PROVE  Moved(s)
<1> USE Types
<1>1. /\ task[s][e] \in {"handling", "acking"}
      /\ \E o \in {"failed", "acking", "handled", "unacknowledged"} :
            /\ task' = [task EXCEPT ![s][e] = o]
            /\ o = "acking" => <<s, e>> \in succeeded'
  BY DEF HandlerReturns, HandlerAcks, Settle
<1>2. succeeded \subseteq succeeded'
  BY DEF HandlerReturns, HandlerAcks
<1>3. UNCHANGED <<delivery, inHand, held, msgChan, pump, proc, mq>>
  <2>1. CASE \E ok \in BOOLEAN : HandlerReturns(s, e, ok)
    BY <2>1 DEF HandlerReturns, busVars, mqVars, chanVars, rabbitVars
  <2>2. CASE HandlerAcks(s, e)
    BY <2>2 DEF HandlerAcks, Ack, Kafka, RabbitAck, busVars, chanVars, rabbitVars
  <2> QED  BY <2>1, <2>2
<1>4. PICK o \in {"failed", "acking", "handled", "unacknowledged"} :
        task' = [task EXCEPT ![s][e] = o] /\ (o = "acking" => <<s, e>> \in succeeded')
  BY <1>1
<1>5. task'[s][e] = o /\ \A x \in Events \ {e} : task'[s][x] = task[s][x]  BY <1>4
<1>6. PlaceOf(s)  BY DEF PlaceInv
<1>7. \A x : Waiting(s, x)' <=> Waiting(s, x)  BY <1>3 DEF Waiting
<1>8. Given(s, e)' /\ Given(s, e) /\ Active(s, e)
  BY <1>1, <1>5 DEF Given, Active
<1>9. \A x \in Events \ {e} : (Given(s, x)' <=> Given(s, x)) /\ (Active(s, x)' <=> Active(s, x))
  BY <1>5, <1>7 DEF Given, Active
<1>10. \A x \in Events : /\ Waiting(s, x)' => task'[s][x] = "none"
                         /\ task'[s][x] = "acking" => <<s, x>> \in succeeded'
  BY <1>1, <1>2, <1>4, <1>5, <1>6, <1>7 DEF PlaceOf
<1>11. PlaceOf(s)'  BY <1>3, <1>6, <1>8, <1>9, <1>10 DEF PlaceOf
<1>12. \A c \in Subs \ {s} : Same(c)  BY <1>3, <1>4 DEF Same
<1> QED  BY <1>2, <1>3, <1>8, <1>9, <1>11, <1>12 DEF Moved

------------------------------------------------------------------------------
(* What returns to a queue *)

\* SetToSeq lists a finite set, each element once.
LEMMA Listed ==
  ASSUME NEW S, IsFiniteSet(S)
  PROVE  SetToSeq(S) \in Seq(S) /\ IsInjective(SetToSeq(S)) /\ Range(SetToSeq(S)) = S
<1> DEFINE n == Cardinality(S)
<1>1. n \in Nat /\ ExistsBijection(1..n, S)  BY FS_CardinalityType
<1>2. PICK f \in Bijection(1..n, S) : TRUE  BY <1>1 DEF ExistsBijection
<1>3. f \in [1..n -> S] /\ IsInjective(f)  BY DEF Bijection, Injection
<1>4. SetToSeq(S) \in [1..n -> S] /\ IsInjective(SetToSeq(S))
  BY <1>3 DEF SetToSeq
<1> HIDE DEF n
<1>5. SetToSeq(S) \in Injection(1..n, S)  BY <1>4 DEF Injection
<1>6. SetToSeq(S) \in Surjection(1..n, S)
  <2>1. Cardinality(1..n) = n /\ IsFiniteSet(1..n)  BY <1>1, FS_Interval
  <2>2. Cardinality(1..n) = Cardinality(S)  BY <2>1 DEF n
  <2> QED  BY <1>5, <2>2, FS_Injection
<1> QED  BY <1>1, <1>4, <1>6 DEF Surjection, Range


\* What returns to a queue stands before what is in it.
LEMMA RequeuedOf ==
  ASSUME RabbitTypes, NEW k \in Keys, NEW S \in SUBSET Subs, IsInjective(queue[k]),
         \A s \in S : KeyOf(s) = k => unacked[s] \notin Range(queue[k])
  PROVE  /\ Requeued(k, S) \in Seq(Events) /\ IsInjective(Requeued(k, S))
         /\ Range(Requeued(k, S)) =
              Range(queue[k]) \cup ({unacked[s] : s \in {c \in S : KeyOf(c) = k}} \ {None})
<1> DEFINE U == {unacked[s] : s \in {c \in S : KeyOf(c) = k}} \ {None}
<1>1. U \subseteq Events /\ U \cap Range(queue[k]) = {}
  BY DEF RabbitTypes
<1>2. IsFiniteSet(U)
  BY <1>1, FS_Subset, AdapterAssumption DEF AdapterAssumption
<1> HIDE DEF U
<1>3. /\ SetToSeq(U) \in Seq(Events) /\ IsInjective(SetToSeq(U)) /\ Range(SetToSeq(U)) = U
  <2>1. SetToSeq(U) \in Seq(U) /\ IsInjective(SetToSeq(U)) /\ Range(SetToSeq(U)) = U
    BY <1>2, Listed
  <2> QED  BY <1>1, <2>1
<1>4. queue[k] \in Seq(Events)  BY DEF RabbitTypes
<1>5. LET r == SetToSeq(U) \o queue[k] IN
      r \in Seq(Events) /\ IsInjective(r) /\ Range(r) = U \cup Range(queue[k])
  BY <1>1, <1>3, <1>4, ConcatDistinct
<1> QED  BY <1>5 DEF Requeued, U

------------------------------------------------------------------------------
(* The steps, by what they do to the messages *)

\* Nothing that messages move through is touched.
Still ==
  /\ UNCHANGED <<mq, pump, inHand, msgChan, chanClosed, proc, procVars, kafkaVars, rabbitVars>>
  /\ \A e \in Events : stage'[e] = stage[e] \/ stage[e] = "new"

\* The pump, or processMessages, or a task passes a message on within the process.
Inner(s) ==
  \/ ProcStep(s) \/ \E e \in Events, ok \in BOOLEAN : HandlerReturns(s, e, ok)
  \/ /\ \/ Kafka /\ (KafkaCheck(s) \/ KafkaFetchFails(s) \/ KafkaSend(s))
        \/ Rabbit /\ (RabbitTake(s) \/ RabbitDisconnected(s) \/ RabbitSend(s))
     /\ UNCHANGED <<mq, stage, procVars>>

\* Something comes from the broker, or goes to it.
Outer ==
  \/ \E s \in Subs : /\ \/ Kafka /\ KafkaFetch(s)
                        \/ Rabbit /\ (RabbitStop(s) \/ RabbitDeliver(s))
                     /\ UNCHANGED <<mq, stage, procVars>>
  \/ \E s \in Subs, e \in Events : HandlerAcks(s, e)
  \/ \E p \in Clients : EmitPublish(p) \/ OnSubscribe(p) \/ CloseAdapter(p)

\* Every step leaves the messages alone, or moves some inside one subscription, or
\* meets the broker.
LEMMA KindOfFlow ==
  ASSUME BusTypes, [Next]_vars
  PROVE  Still \/ (\E s \in Subs : Inner(s)) \/ Outer
<1>1. ASSUME NEW p \in Clients, CallBegin(p) PROVE Still
  <2>1. ASSUME NEW e \in Events, EmitBegin(p, e) PROVE Still
    BY <2>1 DEF EmitBegin, Still, busVars, mqVars, chanVars, BusTypes
  <2>2. ASSUME NEW s \in Subs, OnBegin(p, s) PROVE Still
    BY <2>2 DEF OnBegin, Still, busVars, mqVars, chanVars
  <2>3. ASSUME NEW s \in Subs, OffBegin(p, s) PROVE Still
    BY <2>3 DEF OffBegin, Still, busVars, mqVars, chanVars
  <2>4. CASE CloseBegin(p)
    BY <2>4 DEF CloseBegin, Still, mqVars, chanVars
  <2> QED  BY <1>1, <2>1, <2>2, <2>3, <2>4 DEF CallBegin
<1>2. ASSUME NEW p \in Clients, CallStep(p) PROVE Still \/ Outer
  <2>1. CASE EmitCount(p) \/ OnAdd(p) \/ OnCount(p) \/ StopCas(p)
    BY <2>1 DEF EmitCount, OnAdd, OnCount, StopCas, Still, busVars, mqVars, chanVars
  <2>2. CASE StopClose(p) \/ OffRemove(p) \/ OffCount(p)
    BY <2>2 DEF StopClose, OffRemove, OffCount, Still, busVars, mqVars, chanVars
  <2>3. CASE CloseCollect(p) \/ CloseNext(p) \/ CloseRelease(p)
    BY <2>3 DEF CloseCollect, CloseNext, CloseRelease, Still, mqVars, chanVars
  <2> QED  BY <1>2, <2>1, <2>2, <2>3 DEF CallStep, Outer
<1>3. ASSUME NEW s \in Subs, ProcStep(s) \/ PumpStep(s) \/ PushStep(s) PROVE Inner(s) \/ Outer
  BY <1>3 DEF PumpStep, PushStep, KafkaPump, RabbitPump, RabbitPush, Inner, Outer, busVars
<1>4. ASSUME NEW s \in Subs, NEW e \in Events, HandlerStep(s, e) PROVE Inner(s) \/ Outer
  BY <1>4 DEF HandlerStep, Inner, Outer
<1>5. CASE Rest \/ UNCHANGED vars
  BY <1>5 DEF Rest, vars, Still, busVars, mqVars, chanVars
<1> QED  BY <1>1, <1>2, <1>3, <1>4, <1>5 DEF Next

\* What an inner step touches, and what it leaves alone.
Untouched == <<mq, stage, kafkaVars, queue, bound, routed, channel, unacked, conn>>

\* A step inside a subscription gives it no message and loses it none.
LEMMA InnerMoves ==
  ASSUME BusTypes, FlowTypes, RabbitTypes, PlaceInv, NEW s \in Subs, Inner(s)
  PROVE  Moved(s) /\ UNCHANGED Untouched
<1> USE DEF Untouched
<1>1. CASE ProcStep(s)
  <2>1. UNCHANGED Untouched
    BY <1>1 DEF ProcStep, ProcReceive, ProcAcquire, ProcEnds, busVars, rabbitVars
  <2> QED  BY <1>1, <2>1, ReceiveMoves, AcquireMoves, EndsMoves DEF ProcStep
<1>2. ASSUME NEW e \in Events, NEW ok \in BOOLEAN, HandlerReturns(s, e, ok)
      PROVE  Moved(s) /\ UNCHANGED Untouched
  <2>1. UNCHANGED Untouched
    BY <1>2 DEF HandlerReturns, busVars, mqVars, rabbitVars
  <2> QED  BY <1>2, <2>1, TaskMoves
<1>3. CASE Kafka /\ (KafkaCheck(s) \/ KafkaFetchFails(s)) /\ UNCHANGED <<mq, stage, procVars>>
  <2>1. UNCHANGED Untouched /\ UNCHANGED <<delivery, held, task, succeeded>>
    BY <1>3 DEF Kafka, KafkaCheck, KafkaFetchFails, rabbitVars, procVars
  <2> QED  BY <1>3, <2>1, PumpMoves DEF Kafka
<1>4. CASE Kafka /\ KafkaSend(s) /\ UNCHANGED <<mq, stage, procVars>>
  <2>1. UNCHANGED Untouched /\ UNCHANGED <<delivery, held, task, succeeded>>
    BY <1>4 DEF Kafka, KafkaSend, rabbitVars, procVars
  <2> QED  BY <1>4, <2>1, SendMoves DEF Kafka, KafkaSend
<1>5. CASE Rabbit /\ RabbitTake(s) /\ UNCHANGED <<mq, stage, procVars>>
  <2>1. UNCHANGED Untouched /\ UNCHANGED <<held, task, succeeded>>
    BY <1>5 DEF Rabbit, RabbitTake, procVars
  <2> QED  BY <1>5, <2>1, TakeMoves DEF Rabbit
<1>6. CASE Rabbit /\ RabbitDisconnected(s) /\ UNCHANGED <<mq, stage, procVars>>
  <2>1. UNCHANGED Untouched /\ UNCHANGED <<delivery, held, task, succeeded>>
    BY <1>6 DEF Rabbit, RabbitDisconnected, rabbitVars, procVars
  <2> QED  BY <1>6, <2>1, PumpMoves DEF Rabbit
<1>7. CASE Rabbit /\ RabbitSend(s) /\ UNCHANGED <<mq, stage, procVars>>
  <2>1. UNCHANGED Untouched /\ UNCHANGED <<delivery, held, task, succeeded>>
    BY <1>7 DEF Rabbit, RabbitSend, rabbitVars, procVars
  <2>2. mq # "kafka"  BY <1>7 DEF Rabbit
  <2> QED  BY <1>7, <2>1, <2>2, SendMoves DEF RabbitSend
<1> QED  BY <1>1, <1>2, <1>3, <1>4, <1>5, <1>6, <1>7 DEF Inner

------------------------------------------------------------------------------
(* Type correctness *)

\* An inner step keeps the types.
LEMMA InnerTypes ==
  ASSUME BusTypes, FlowTypes, RabbitTypes, NEW s \in Subs, Inner(s)
  PROVE  FlowTypes' /\ delivery' \in [Subs -> Events \cup {None}]
<1>0. /\ proc \in [Subs -> {"none", "receive", "acquire", "gone"}]
      /\ delivery \in [Subs -> Events \cup {None}] /\ None \notin Events
  BY Sizes DEF BusTypes, RabbitTypes
<1>1. CASE ProcReceive(s)
  <2>1. /\ held[s] = None /\ msgChan[s] \in Seq(Events) /\ msgChan[s] # <<>>
        /\ UNCHANGED <<pump, inHand, chanClosed, succeeded, delivery>>
    BY <1>0, <1>1 DEF ProcReceive, FlowTypes, rabbitVars
  <2>2. PICK e \in Events : e = Head(msgChan[s])  BY <2>1
  <2>3. Tail(msgChan[s]) \in Seq(Events)  BY <2>1
  <2>4. msgChan' \in [Subs -> Seq(Events)]  BY <1>1, <2>3 DEF ProcReceive, FlowTypes
  <2>5. task' \in [Subs -> [Events -> {"none", "handling", "acking"} \cup Outcomes]]
    <3>1. task' = task \/ \E o \in Outcomes : task' = [task EXCEPT ![s][e] = o]
      BY <1>1, <2>2 DEF ProcReceive, Settle, Outcomes
    <3>2. CASE task' = task  BY <3>2 DEF FlowTypes
    <3>3. ASSUME NEW o \in Outcomes, task' = [task EXCEPT ![s][e] = o]
          PROVE  task' \in [Subs -> [Events -> {"none", "handling", "acking"} \cup Outcomes]]
      BY <3>3 DEF FlowTypes
    <3> QED  BY <3>1, <3>2, <3>3
  <2>6. held' \in [Subs -> Events \cup {None}]
    BY <1>1, <2>2 DEF ProcReceive, FlowTypes
  <2>7. \A c \in Subs : proc'[c] = "acquire" <=> held'[c] # None
    BY <1>0, <1>1, <2>1, <2>2 DEF ProcReceive, FlowTypes
  <2> QED  BY <1>0, <2>1, <2>4, <2>5, <2>6, <2>7 DEF FlowTypes
<1>2. CASE ProcAcquire(s)
  <2>1. /\ held[s] \in Events
        /\ UNCHANGED <<pump, inHand, msgChan, chanClosed, succeeded, delivery>>
    BY <1>0, <1>2 DEF ProcAcquire, FlowTypes, rabbitVars, chanVars
  <2>2. task' \in [Subs -> [Events -> {"none", "handling", "acking"} \cup Outcomes]]
    <3>1. PICK o \in {"handling", "dropped"} : task' = [task EXCEPT ![s][held[s]] = o]
      BY <1>2 DEF ProcAcquire, Settle
    <3> QED  BY <2>1, <3>1 DEF FlowTypes, Outcomes
  <2>3. /\ held' \in [Subs -> Events \cup {None}]
        /\ \A c \in Subs : proc'[c] = "acquire" <=> held'[c] # None
    BY <1>0, <1>2 DEF ProcAcquire, FlowTypes
  <2> QED  BY <1>0, <2>1, <2>2, <2>3 DEF FlowTypes
<1>3. CASE ProcEnds(s)
  BY <1>0, <1>3 DEF ProcEnds, FlowTypes, rabbitVars, chanVars, procVars
<1>4. ASSUME NEW e \in Events, NEW ok \in BOOLEAN, HandlerReturns(s, e, ok)
      PROVE  FlowTypes' /\ delivery' \in [Subs -> Events \cup {None}]
  BY <1>0, <1>4 DEF HandlerReturns, Settle, FlowTypes, Outcomes, mqVars, rabbitVars, chanVars
<1>5. CASE /\ PumpSend(s, ChannelBuffer, "check") \/ PumpSend(s, 0, "select")
           /\ UNCHANGED <<procVars, delivery>>
  <2>1. inHand[s] \in Events /\ msgChan[s] \in Seq(Events)
    BY <1>0, <1>5 DEF PumpSend, FlowTypes
  <2>2. Append(msgChan[s], inHand[s]) \in Seq(Events)  BY <2>1
  <2>3. msgChan' \in [Subs -> Seq(Events)] /\ UNCHANGED <<chanClosed, proc>>
    BY <1>5, <2>2 DEF PumpSend, FlowTypes
  <2>4. \E next \in {"check", "select"} :
          inHand' = [inHand EXCEPT ![s] = None] /\ pump' = [pump EXCEPT ![s] = next]
    BY <1>5 DEF PumpSend
  <2>5. /\ inHand' \in [Subs -> Events \cup {None}]
        /\ pump' \in [Subs -> {"none", "check", "fetch", "select", "send", "done"}]
        /\ \A c \in Subs : pump'[c] = "send" <=> inHand'[c] # None
    BY <1>0, <2>4 DEF FlowTypes
  <2> QED  BY <1>0, <1>5, <2>3, <2>5 DEF FlowTypes, procVars
<1>6. CASE /\ KafkaCheck(s) \/ KafkaFetchFails(s) \/ RabbitDisconnected(s)
           /\ UNCHANGED <<procVars, delivery>>
  <2>1. /\ pump[s] # "send" /\ UNCHANGED <<inHand, msgChan, proc, held, task, succeeded>>
        /\ \E x \in {"fetch", "done"} : pump' = [pump EXCEPT ![s] = x]
        /\ chanClosed' \in [Subs -> BOOLEAN]
    BY <1>6 DEF KafkaCheck, KafkaFetchFails, RabbitDisconnected, PumpReturns, chanVars, procVars, FlowTypes
  <2> QED  BY <1>0, <1>6, <2>1 DEF FlowTypes
<1>7. CASE RabbitTake(s) /\ UNCHANGED procVars
  <2>1. /\ pump[s] = "select" /\ delivery[s] \in Events
        /\ UNCHANGED <<msgChan, chanClosed, proc, held, task, succeeded>>
        /\ pump' = [pump EXCEPT ![s] = "send"] /\ inHand' = [inHand EXCEPT ![s] = delivery[s]]
        /\ delivery' = [delivery EXCEPT ![s] = None]
    BY <1>0, <1>7 DEF RabbitTake, PumpHolds, procVars
  <2> QED  BY <1>0, <2>1 DEF FlowTypes
<1>8. CASE /\ \/ Kafka /\ (KafkaCheck(s) \/ KafkaFetchFails(s) \/ KafkaSend(s))
              \/ Rabbit /\ (RabbitTake(s) \/ RabbitDisconnected(s) \/ RabbitSend(s))
           /\ UNCHANGED procVars
  <2>1. ~RabbitTake(s) => UNCHANGED delivery
    BY <1>8 DEF Kafka, RabbitDisconnected, RabbitSend, rabbitVars
  <2> QED  BY <1>5, <1>6, <1>7, <1>8, <2>1 DEF KafkaSend, RabbitSend
<1> QED  BY <1>1, <1>2, <1>3, <1>4, <1>8 DEF Inner, ProcStep

\* What a Kafka reader hands out is in its log, and the reader is there.
LEMMA FetchReads ==
  ASSUME KafkaTypes, LogInv, KafkaInv, mq = "kafka", NEW s \in Subs, KafkaFetch(s)
  PROVE  LET k == KeyOf(s)
             r == readers[k]
         IN  /\ k \in Keys /\ r # None /\ r.topic \in Topics /\ r.pos \in Nat /\ r.first \in Nat
             /\ r.first <= r.pos /\ r.pos + 1 \in DOMAIN log[r.topic]
             /\ log[r.topic] \in Seq(Events) /\ log[r.topic][r.pos + 1] \in Events
             /\ readers' = [readers EXCEPT ![k] = [r EXCEPT !.pos = r.pos + 1]]
             /\ readers[k] \in ReaderType
<1> DEFINE k == KeyOf(s)
           r == readers[k]
<1>1. k \in Keys /\ r # None
  BY Sizes DEF KafkaInv, KafkaOf, KafkaFetch, Reader
<1>2. r \in ReaderType
  BY <1>1 DEF KafkaTypes
<1>3. r.first <= r.pos /\ r.pos < Len(log[r.topic]) /\ log[r.topic] \in Seq(Events)
  BY <1>1, <1>2 DEF LogInv, KafkaFetch, KafkaTypes
<1>4. readers' = [readers EXCEPT ![k] = [r EXCEPT !.pos = r.pos + 1]]
  BY DEF KafkaFetch
<1> QED  BY <1>1, <1>2, <1>3, <1>4

\* What a reader has handed out is in the log of its topic.
LEMMA FetchedLogged ==
  ASSUME KafkaTypes, LogInv, NEW k \in Keys, NEW e \in Fetched(k)
  PROVE  /\ e \in Range(log[EventTopic[e]]) /\ e \in Events /\ EventTopic[e] \in Topics
         /\ Offset(e) \in DOMAIN log[EventTopic[e]] /\ log[EventTopic[e]][Offset(e)] = e
         /\ EventTopic[e] = readers[k].topic
<1> DEFINE r == readers[k]
<1>1. r # None /\ r \in ReaderType
  BY DEF Fetched, KafkaTypes
<1>2. PICK i \in (r.first + 1)..r.pos : e = log[r.topic][i]
  BY <1>1 DEF Fetched
<1>3. log[r.topic] \in Seq(Events) /\ i \in DOMAIN log[r.topic] /\ r.topic \in Topics
  <2>1. log[r.topic] \in Seq(Events) /\ r.topic \in Topics  BY <1>1 DEF KafkaTypes
  <2>2. r.pos <= Len(log[r.topic])  BY <1>1 DEF LogInv
  <2> QED  BY <1>1, <1>2, <2>1, <2>2
<1>4. e \in Range(log[r.topic])  BY <1>2, <1>3 DEF Range
<1>5. EventTopic[e] = r.topic  BY <1>3, <1>4 DEF LogInv
<1>6. \E j \in DOMAIN log[EventTopic[e]] : log[EventTopic[e]][j] = e
  BY <1>2, <1>3, <1>5
<1>7. Offset(e) \in DOMAIN log[EventTopic[e]] /\ log[EventTopic[e]][Offset(e)] = e
  BY <1>6 DEF Offset
<1> QED  BY <1>2, <1>3, <1>4, <1>5, <1>7

\* CommitMessages sets a position or fails.
KafkaAcks(s, e) == \E ok \in BOOLEAN : KafkaAck(s, e, ok)

\* The acknowledgement of what a Kafka reader handed out commits a position of its
\* topic's log.
LEMMA AckCommits ==
  ASSUME KafkaTypes, LogInv, KafkaInv, mq = "kafka", NEW s \in Subs, NEW e \in Events,
         task[s][e] # "none", KafkaAcks(s, e)
  PROVE  /\ UNCHANGED <<log, readers, producerClosed>>
         /\ \/ UNCHANGED committed
            \/ LET k == Key(EventTopic[e], SubGroup[s])
                   g == readers[k].group
                   t == EventTopic[e]
               IN  /\ k \in Keys /\ readers[k] # None /\ g \in Groups /\ t \in Topics
                   /\ \E m \in {Offset(e), committed[g, t]} :
                        /\ m \in Nat /\ m <= Len(log[t])
                        /\ committed' = [committed EXCEPT ![<<g, t>>] = m]
<1> DEFINE k == Key(EventTopic[e], SubGroup[s])
           g == readers[k].group
           t == EventTopic[e]
<1>1. KeyOf(s) \in Keys /\ e \in Fetched(KeyOf(s))
  BY Sizes DEF KafkaInv, KafkaOf, Given
<1>2. t \in Topics /\ Offset(e) \in DOMAIN log[t]
  BY <1>1, FetchedLogged
<1>3. k \in Keys  BY <1>2, Sizes DEF Keys
<1>4. ReaderOpen(k) => readers[k] # None /\ g \in Groups
  BY <1>3 DEF ReaderOpen, KafkaTypes
<1>5. log[t] \in Seq(Events)  BY <1>2 DEF KafkaTypes
<1>6. Offset(e) \in Nat /\ Offset(e) <= Len(log[t])  BY <1>2, <1>5
<1>7. \A x \in Groups : committed[x, t] \in Nat /\ committed[x, t] <= Len(log[t])
  BY <1>2 DEF LogInv, KafkaTypes
<1>8. CASE ReaderOpen(k) /\ \E m \in {Offset(e), IF committed[g, t] < Offset(e) THEN Offset(e) ELSE committed[g, t]} :
             committed' = [committed EXCEPT ![<<g, t>>] = m]
  <2>1. PICK m \in {Offset(e), committed[g, t]} : committed' = [committed EXCEPT ![<<g, t>>] = m]
    BY <1>8
  <2>2. m \in Nat /\ m <= Len(log[t])  BY <1>4, <1>6, <1>7, <1>8
  <2> QED  BY <1>2, <1>3, <1>4, <1>8, <2>1, <2>2 DEF KafkaAcks, KafkaAck
<1> QED  BY <1>8 DEF KafkaAcks, KafkaAck

\* So does every step that something crosses the border by.
LEMMA OuterTypes ==
  ASSUME LifeInv, FlowInv, Outer
  PROVE  FlowTypes' /\ KafkaTypes' /\ RabbitTypes'
<1> USE DEF LifeInv, FlowInv
<1>0. /\ proc \in [Subs -> {"none", "receive", "acquire", "gone"}]
      /\ sub \in [Clients -> Subs \cup {None}] /\ ev \in [Clients -> Events \cup {None}]
      /\ None \notin Events /\ None \notin Subs
      /\ \A s \in Subs : KeyOf(s) \in Keys /\ SubTopic[s] \in Topics /\ SubGroup[s] \in Groups
  BY Sizes DEF BusTypes
<1>1. ASSUME NEW s \in Subs, Kafka, KafkaFetch(s), UNCHANGED <<mq, stage, procVars>>
      PROVE  FlowTypes' /\ KafkaTypes' /\ RabbitTypes'
  <2> DEFINE r == readers[KeyOf(s)]
             e == log[r.topic][r.pos + 1]
  <2>1. /\ e \in Events /\ r.pos + 1 \in Nat
        /\ readers' = [readers EXCEPT ![KeyOf(s)] = [r EXCEPT !.pos = r.pos + 1]]
        /\ [r EXCEPT !.pos = r.pos + 1] \in
             ReaderType
    BY <1>1, FetchReads DEF Kafka
  <2>2. pump' = [pump EXCEPT ![s] = "send"] /\ inHand' = [inHand EXCEPT ![s] = e]
    BY <1>1 DEF KafkaFetch, PumpHolds
  <2>3. UNCHANGED <<msgChan, chanClosed, proc, held, task, succeeded, rabbitVars, log, committed, producerClosed>>
    BY <1>1 DEF Kafka, KafkaFetch, PumpHolds, procVars
  <2>4. FlowTypes'  BY <1>0, <2>1, <2>2, <2>3 DEF FlowTypes
  <2>5. KafkaTypes'  BY <1>0, <2>1, <2>3 DEF KafkaTypes
  <2> QED  BY <2>3, <2>4, <2>5 DEF RabbitTypes, rabbitVars
<1>2. ASSUME NEW s \in Subs, Rabbit, RabbitStop(s), UNCHANGED <<mq, stage, procVars>>
      PROVE  FlowTypes' /\ KafkaTypes' /\ RabbitTypes'
  <2>1. Requeued(KeyOf(s), {s}) \in Seq(Events)
    <3>1. unacked[s] \notin Range(queue[KeyOf(s)]) \/ unacked[s] = None
      BY <1>2 DEF RabbitInv, UnackedOf, Rabbit
    <3>2. None \notin Range(queue[KeyOf(s)])
      BY <1>0 DEF RabbitTypes, Range
    <3>3. IsInjective(queue[KeyOf(s)])
      BY <1>0, <1>2 DEF RabbitInv, QueueOf, Rabbit
    <3> QED  BY <1>0, <3>1, <3>2, <3>3, RequeuedOf
  <2>2. /\ pump[s] = "select" /\ pump' = [pump EXCEPT ![s] = "done"]
        /\ chanClosed' = [chanClosed EXCEPT ![s] = TRUE]
        /\ UNCHANGED <<inHand, msgChan, proc, held, task, succeeded, kafkaVars, bound, routed, conn>>
    BY <1>2 DEF Rabbit, RabbitStop, PumpReturns, procVars
  <2>3. /\ queue' \in [Keys -> Seq(Events)]
        /\ channel' \in [Subs -> {"none", "open", "closed"}]
        /\ unacked' \in [Subs -> Events \cup {None}] /\ delivery' \in [Subs -> Events \cup {None}]
    BY <1>2, <2>1 DEF RabbitStop, RabbitTypes
  <2> QED  BY <2>2, <2>3 DEF FlowTypes, KafkaTypes, kafkaVars, RabbitTypes
<1>3. ASSUME NEW s \in Subs, Rabbit, RabbitDeliver(s), UNCHANGED <<mq, stage, procVars>>
      PROVE  FlowTypes' /\ KafkaTypes' /\ RabbitTypes'
  <2>1. /\ queue[KeyOf(s)] \in Seq(Events) /\ queue[KeyOf(s)] # <<>>
    BY <1>0, <1>3 DEF RabbitDeliver, RabbitTypes
  <2>2. Tail(queue[KeyOf(s)]) \in Seq(Events) /\ Head(queue[KeyOf(s)]) \in Events
    BY <2>1
  <2>3. UNCHANGED <<pump, inHand, msgChan, chanClosed, proc, held, task, succeeded, kafkaVars, bound, routed, conn, channel>>
    BY <1>3 DEF Rabbit, RabbitDeliver, procVars, chanVars
  <2>4. /\ queue' \in [Keys -> Seq(Events)]
        /\ unacked' \in [Subs -> Events \cup {None}] /\ delivery' \in [Subs -> Events \cup {None}]
    BY <1>3, <2>2 DEF RabbitDeliver, RabbitTypes
  <2> QED  BY <2>3, <2>4 DEF FlowTypes, KafkaTypes, kafkaVars, RabbitTypes
<1>4. ASSUME NEW s \in Subs, NEW e \in Events, HandlerAcks(s, e)
      PROVE  FlowTypes' /\ KafkaTypes' /\ RabbitTypes'
  <2>1. task' \in [Subs -> [Events -> {"none", "handling", "acking"} \cup Outcomes]]
    <3>1. \E o \in {"handled", "unacknowledged"} : task' = [task EXCEPT ![s][e] = o]
      BY <1>4 DEF HandlerAcks, Settle
    <3> QED  BY <3>1 DEF FlowTypes, Outcomes
  <2>2. UNCHANGED <<pump, inHand, msgChan, chanClosed, proc, held, succeeded>>
    BY <1>4 DEF HandlerAcks, Ack, chanVars
  <2>3. FlowTypes'  BY <2>1, <2>2 DEF FlowTypes
  <2>4. CASE Kafka /\ KafkaAcks(s, e)
    <3>1. UNCHANGED <<log, readers, producerClosed, rabbitVars>>
      BY <2>4 DEF Kafka, KafkaAcks, KafkaAck
    <3>2. committed' \in [Groups \X Topics -> Nat]
      <4>1. \/ UNCHANGED committed
            \/ \E g \in Groups, t \in Topics, m \in Nat : committed' = [committed EXCEPT ![<<g, t>>] = m]
        <5>1. mq = "kafka" /\ task[s][e] # "none"  BY <1>4, <2>4 DEF HandlerAcks, Kafka
        <5> QED  BY <2>4, <5>1, AckCommits
      <4> QED  BY <4>1 DEF KafkaTypes
    <3> QED  BY <2>3, <3>1, <3>2 DEF KafkaTypes, RabbitTypes, rabbitVars
  <2>5. CASE Rabbit /\ \E ok \in BOOLEAN : RabbitAck(s, e, ok)
    BY <2>3, <2>5 DEF Rabbit, RabbitAck, KafkaTypes, RabbitTypes, kafkaVars
  <2> QED  BY <1>4, <2>4, <2>5 DEF HandlerAcks, Ack, KafkaAcks
<1>5. ASSUME NEW p \in Clients, EmitPublish(p)
      PROVE  FlowTypes' /\ KafkaTypes' /\ RabbitTypes'
  <2>1. ev[p] \in Events /\ EventTopic[ev[p]] \in Topics
    <3>1. pc[p] = "emit.publish"  BY <1>5 DEF EmitPublish
    <3>2. CallInv  OBVIOUS
    <3>3. ev[p] \in Events  BY <3>1, <3>2 DEF CallInv, EmitPC
    <3> QED  BY <3>3, Sizes
  <2>2. FlowTypes'
    BY <1>5 DEF EmitPublish, Publish, chanVars, procVars, FlowTypes
  <2>3. PICK ok \in BOOLEAN : Publish(ev[p], ok)  BY <1>5 DEF EmitPublish
  <2>4. CASE Kafka /\ KafkaPublish(ev[p], ok)
    <3>1. log[EventTopic[ev[p]]] \in Seq(Events)  BY <2>1 DEF KafkaTypes
    <3>2. Append(log[EventTopic[ev[p]]], ev[p]) \in Seq(Events)  BY <2>1, <3>1
    <3>3. log' = log \/ log' = [log EXCEPT ![EventTopic[ev[p]]] = Append(log[EventTopic[ev[p]]], ev[p])]
      BY <2>4 DEF KafkaPublish
    <3>4. log' \in [Topics -> Seq(Events)]  BY <3>2, <3>3 DEF KafkaTypes
    <3> QED  BY <2>2, <2>4, <3>4 DEF Kafka, KafkaPublish, KafkaTypes, RabbitTypes, rabbitVars
  <2>5. CASE Rabbit /\ RabbitPublish(ev[p], ok)
    <3>1. \A k \in Keys : queue[k] \in Seq(Events) /\ Append(queue[k], ev[p]) \in Seq(Events)
      BY <2>1 DEF RabbitTypes
    <3>2. queue' \in [Keys -> Seq(Events)]
      BY <2>5, <3>1 DEF RabbitPublish, RabbitTypes
    <3>3. routed' \in [Keys -> SUBSET Events]
      <4>1. \A k \in Keys : routed[k] \cup {ev[p]} \in SUBSET Events /\ routed[k] \in SUBSET Events
        BY <2>1 DEF RabbitTypes
      <4> QED  BY <2>5, <4>1 DEF RabbitPublish, RabbitTypes
    <3> QED  BY <2>2, <2>5, <3>2, <3>3 DEF Rabbit, RabbitPublish, KafkaTypes, RabbitTypes, kafkaVars
  <2> QED  BY <2>3, <2>4, <2>5 DEF Publish
<1>6. ASSUME NEW p \in Clients, OnSubscribe(p)
      PROVE  FlowTypes' /\ KafkaTypes' /\ RabbitTypes'
  <2>1. PICK s \in Subs : s = sub[p] /\ proc[s] = "none"
    <3>1. pc[p] = "on.subscribe"  BY <1>6 DEF OnSubscribe
    <3>2. CallInv  OBVIOUS
    <3>3. sub[p] \in Subs /\ proc[sub[p]] = "none"  BY <3>1, <3>2 DEF CallInv, StartPC
    <3> QED  BY <3>3
  <2>2. inHand[s] = None /\ held[s] = None
    BY <1>0, <2>1 DEF PlaceInv, PlaceOf, FlowTypes
  <2>3. PICK ok \in BOOLEAN : Subscribe(s, ok) /\ proc' = IF ok THEN [proc EXCEPT ![s] = "receive"] ELSE proc
    BY <1>6, <2>1 DEF OnSubscribe
  <2>4. /\ pump' = pump \/ \E x \in {"check", "select"} : pump' = [pump EXCEPT ![s] = x]
        /\ UNCHANGED <<inHand, msgChan, chanClosed, held, task, succeeded>>
    BY <1>6, <2>3 DEF OnSubscribe, Subscribe, KafkaSubscribe, RabbitSubscribe, chanVars, procVars
  <2>5. /\ pump' \in [Subs -> {"none", "check", "fetch", "select", "send", "done"}]
        /\ \A c \in Subs : pump'[c] = "send" <=> inHand'[c] # None
        /\ \A c \in Subs : proc'[c] = "acquire" <=> held'[c] # None
    <3>1. pump[s] # "send"  BY <2>2 DEF FlowTypes
    <3>2. CASE pump' = pump  BY <1>0, <2>2, <2>3, <2>4, <3>2 DEF FlowTypes
    <3>3. ASSUME NEW x \in {"check", "select"}, pump' = [pump EXCEPT ![s] = x]
          PROVE  /\ pump' \in [Subs -> {"none", "check", "fetch", "select", "send", "done"}]
                 /\ \A c \in Subs : pump'[c] = "send" <=> inHand'[c] # None
                 /\ \A c \in Subs : proc'[c] = "acquire" <=> held'[c] # None
      BY <1>0, <2>2, <2>3, <2>4, <3>1, <3>3 DEF FlowTypes
    <3> QED  BY <2>4, <3>2, <3>3
  <2>6. FlowTypes'  BY <2>4, <2>5 DEF FlowTypes
  <2>7. CASE Kafka /\ ok /\ KafkaSubscribe(s)
    <3>1. \A t \in Topics : Len(log[t]) \in Nat  BY DEF KafkaTypes
    <3>2. readers' = readers \/ \E n \in Nat : readers' =
            [readers EXCEPT ![KeyOf(s)] = [topic |-> SubTopic[s], group |-> SubGroup[s],
                                           first |-> n, pos |-> n, open |-> TRUE]]
      BY <1>0, <2>7, <3>1 DEF KafkaSubscribe, FirstOffset, KafkaTypes
    <3>3. readers' \in [Keys -> ReaderType \cup {None}]
      <4>1. CASE readers' = readers  BY <4>1 DEF KafkaTypes
      <4>2. ASSUME NEW n \in Nat, readers' =
                     [readers EXCEPT ![KeyOf(s)] = [topic |-> SubTopic[s], group |-> SubGroup[s],
                                                    first |-> n, pos |-> n, open |-> TRUE]]
            PROVE  readers' \in [Keys -> ReaderType \cup {None}]
        BY <1>0, <4>2 DEF KafkaTypes
      <4> QED  BY <3>2, <4>1, <4>2
    <3> QED  BY <2>6, <2>7, <3>3 DEF Kafka, KafkaSubscribe, KafkaTypes, RabbitTypes, rabbitVars
  <2>8. CASE Rabbit /\ RabbitSubscribe(s, ok)
    <3>1. bound' = bound \/ bound' = [bound EXCEPT ![KeyOf(s)] = bound[KeyOf(s)] \cup {SubTopic[s]}]
      BY <2>8 DEF RabbitSubscribe
    <3>2. bound' \in [Keys -> SUBSET Topics]
      <4>1. KeyOf(s) \in Keys /\ bound[KeyOf(s)] \cup {SubTopic[s]} \subseteq Topics
        BY <1>0 DEF RabbitTypes
      <4> QED  BY <3>1, <4>1 DEF RabbitTypes
    <3>3. channel' \in [Subs -> {"none", "open", "closed"}]
      BY <2>8 DEF RabbitSubscribe, RabbitTypes
    <3> QED  BY <2>6, <2>8, <3>2, <3>3 DEF Rabbit, RabbitSubscribe, KafkaTypes, RabbitTypes, kafkaVars
  <2> QED  BY <2>3, <2>7, <2>8 DEF Subscribe
<1>7. ASSUME NEW p \in Clients, CloseAdapter(p)
      PROVE  FlowTypes' /\ KafkaTypes' /\ RabbitTypes'
  <2>1. FlowTypes'
    BY <1>7 DEF CloseAdapter, CloseConnections, chanVars, procVars, FlowTypes
  <2>2. CASE Kafka /\ \E ok \in BOOLEAN : KafkaClose(ok)
    <3>1. PICK ok \in BOOLEAN :
            readers' = [k \in Keys |-> IF ok /\ readers[k] # None
                                       THEN [readers[k] EXCEPT !.open = FALSE] ELSE readers[k]]
      BY <2>2 DEF KafkaClose
    <3>2. readers' \in [Keys -> ReaderType \cup {None}]
      BY <3>1 DEF KafkaTypes
    <3> QED  BY <2>1, <2>2, <3>2 DEF Kafka, KafkaClose, KafkaTypes, RabbitTypes, rabbitVars
  <2>3. CASE Rabbit /\ \E ok \in BOOLEAN : RabbitClose(ok)
    <3>1. ASSUME NEW k \in Keys PROVE Requeued(k, Subs) \in Seq(Events)
      <4>1. None \notin Range(queue[k])  BY <1>0 DEF RabbitTypes, Range
      <4>2. IsInjective(queue[k]) /\ \A s \in Subs : KeyOf(s) = k => unacked[s] \notin Range(queue[k])
        BY <2>3, <4>1 DEF RabbitInv, QueueOf, UnackedOf, Rabbit
      <4> QED  BY <4>2, RequeuedOf
    <3>2. queue' \in [Keys -> Seq(Events)]  BY <2>3, <3>1 DEF RabbitClose, RabbitTypes
    <3>3. channel' \in [Subs -> {"none", "open", "closed"}] /\ unacked' \in [Subs -> Events \cup {None}]
      BY <2>3 DEF RabbitClose, RabbitTypes
    <3> QED  BY <2>1, <2>3, <3>2, <3>3 DEF Rabbit, RabbitClose, KafkaTypes, RabbitTypes, kafkaVars
  <2> QED  BY <1>7, <2>2, <2>3 DEF CloseAdapter, CloseConnections
<1> QED  BY <1>1, <1>2, <1>3, <1>4, <1>5, <1>6, <1>7 DEF Outer

\* Every step keeps the types.
LEMMA FlowTypesStep ==
  ASSUME LifeInv, FlowInv, [Next]_vars
  PROVE  FlowTypes' /\ KafkaTypes' /\ RabbitTypes'
<1>1. CASE Still
  BY <1>1 DEF Still, procVars, kafkaVars, rabbitVars, FlowInv, FlowTypes, KafkaTypes, RabbitTypes
<1>2. ASSUME NEW s \in Subs, Inner(s) PROVE FlowTypes' /\ KafkaTypes' /\ RabbitTypes'
  <2>1. FlowTypes' /\ delivery' \in [Subs -> Events \cup {None}]
    BY <1>2, InnerTypes DEF LifeInv, FlowInv
  <2>2. UNCHANGED Untouched  BY <1>2, InnerMoves DEF LifeInv, FlowInv
  <2> QED  BY <2>1, <2>2 DEF Untouched, kafkaVars, FlowInv, KafkaTypes, RabbitTypes
<1> QED  BY <1>1, <1>2, OuterTypes, KindOfFlow DEF LifeInv

------------------------------------------------------------------------------
(* What crosses the border between the process and the broker *)

\* FetchMessage gives one subscription one message that the reader had not handed
\* out.
LEMMA FetchGives ==
  ASSUME LifeInv, FlowInv, mq = "kafka", NEW s \in Subs, KafkaFetch(s),
         UNCHANGED <<procVars, rabbitVars>>
  PROVE  \E e \in Events :
           /\ e \notin Fetched(KeyOf(s)) /\ Fetched(KeyOf(s))' = Fetched(KeyOf(s)) \cup {e}
           /\ \A k \in Keys \ {KeyOf(s)} : Fetched(k)' = Fetched(k)
           /\ \A x \in Events : Given(s, x)' <=> (Given(s, x) \/ x = e)
           /\ \A c \in Subs \ {s} : Same(c)
           /\ PlaceOf(s)' /\ pump'[s] = "send"
<1> DEFINE k == KeyOf(s)
           r == readers[k]
<1>1. PICK e \in Events : e = log[r.topic][r.pos + 1]
  BY FetchReads DEF FlowInv
<1>2. /\ k \in Keys /\ r # None /\ r.topic \in Topics /\ r.pos \in Nat /\ r.first \in Nat
      /\ r.first <= r.pos /\ r.pos + 1 \in DOMAIN log[r.topic] /\ log[r.topic] \in Seq(Events)
      /\ readers' = [readers EXCEPT ![k] = [r EXCEPT !.pos = r.pos + 1]]
      /\ r \in ReaderType
  BY FetchReads DEF FlowInv
<1>3. readers \in [Keys -> ReaderType \cup {None}]
  BY DEF FlowInv, KafkaTypes
<1>4. /\ log' = log /\ readers'[k] # None
      /\ readers'[k].topic = r.topic /\ readers'[k].first = r.first /\ readers'[k].pos = r.pos + 1
  <2>1. readers'[k] = [r EXCEPT !.pos = r.pos + 1]  BY <1>2, <1>3
  <2>2. readers'[k] \in ReaderType  BY <1>2, <2>1
  <2> QED  BY <1>2, <2>1, <2>2, KafkaAssumption DEF KafkaFetch, KafkaAssumption
<1>5. IsInjective(log[r.topic])  BY <1>2 DEF FlowInv, LogInv
<1>6. Fetched(k)' = {log[r.topic][i] : i \in (r.first + 1)..(r.pos + 1)}
  BY <1>4 DEF Fetched
<1>7. Fetched(k) = {log[r.topic][i] : i \in (r.first + 1)..r.pos}
  BY <1>2 DEF Fetched
<1>8. (r.first + 1)..(r.pos + 1) = ((r.first + 1)..r.pos) \cup {r.pos + 1}
  BY <1>2
<1>9. Fetched(k)' = Fetched(k) \cup {e}  BY <1>1, <1>6, <1>7, <1>8
<1>10. e \notin Fetched(k)
  <2>1. \A i \in (r.first + 1)..r.pos : i \in DOMAIN log[r.topic] /\ i # r.pos + 1
    BY <1>2
  <2> QED  BY <1>1, <1>2, <1>5, <1>7, <2>1 DEF IsInjective
<1>11. \A j \in Keys \ {k} : Fetched(j)' = Fetched(j)
  <2>1. \A j \in Keys \ {k} : readers'[j] = readers[j]  BY <1>2, <1>3
  <2> QED  BY <1>4, <2>1 DEF Fetched
<1>12. /\ pump[s] = "fetch" /\ pump' = [pump EXCEPT ![s] = "send"]
       /\ inHand' = [inHand EXCEPT ![s] = e]
       /\ UNCHANGED <<msgChan, proc, delivery, held, task, succeeded>>
  BY <1>1 DEF KafkaFetch, PumpHolds, procVars, rabbitVars
<1> USE Types DEF LifeInv, FlowInv
<1>13. /\ \A c \in Subs \ {s} : Same(c)
       /\ inHand[s] = None /\ inHand'[s] = e /\ pump'[s] = "send"
  BY <1>12 DEF Same
<1>14. \A x \in Events : Waiting(s, x)' <=> (Waiting(s, x) \/ x = e)
  BY <1>12, <1>13 DEF Waiting
<1>15. \A x \in Events : Given(s, x)' <=> (Given(s, x) \/ x = e)
  BY <1>12, <1>14 DEF Given
<1>16. PlaceOf(s) /\ ~Given(s, e)
  BY <1>10 DEF PlaceInv, KafkaInv, KafkaOf
<1>17. PlaceOf(s)'
  <2>1. e # delivery[s] /\ e # held[s] /\ e \notin Range(msgChan[s]) /\ task[s][e] = "none"
    BY <1>16 DEF Given, Waiting
  <2>2. \A x \in Events : Waiting(s, x)' => task[s][x] = "none"
    BY <1>14, <1>16, <2>1 DEF PlaceOf
  <2> QED  BY <1>12, <1>13, <1>16, <2>1, <2>2 DEF PlaceOf
<1> QED  BY <1>9, <1>10, <1>11, <1>13, <1>15, <1>17

\* The broker gives a consumer that holds nothing a message of its queue.
LEMMA DeliverGives ==
  ASSUME LifeInv, FlowInv, mq = "rabbit", NEW s \in Subs, RabbitDeliver(s),
         UNCHANGED procVars
  PROVE  \E e \in Events :
           /\ e \in Range(queue[KeyOf(s)]) /\ unacked' = [unacked EXCEPT ![s] = e]
           /\ IsInjective(queue'[KeyOf(s)])
           /\ Range(queue'[KeyOf(s)]) = Range(queue[KeyOf(s)]) \ {e}
           /\ \A k \in Keys \ {KeyOf(s)} : queue'[k] = queue[k]
           /\ \A x \in Events : /\ Given(s, x)' <=> (Given(s, x) \/ x = e)
                                /\ Active(s, x)' => x = e
           /\ \A c \in Subs \ {s} : Same(c)
           /\ PlaceOf(s)' /\ pump'[s] = pump[s] /\ pump[s] # "none"
<1> DEFINE k == KeyOf(s)
<1>0. BusTypes /\ FlowTypes /\ RabbitTypes /\ PlaceInv /\ RabbitInv
  BY DEF LifeInv, FlowInv
<1>1. k \in Keys /\ queue[k] \in Seq(Events) /\ queue[k] # <<>> /\ IsInjective(queue[k])
      /\ queue \in [Keys -> Seq(Events)]
  BY <1>0, Sizes DEF RabbitDeliver, RabbitTypes, RabbitInv, QueueOf
<1>2. PICK e \in Events : e = Head(queue[k])  BY <1>1
<1>3. /\ IsInjective(Tail(queue[k])) /\ Range(Tail(queue[k])) = Range(queue[k]) \ {e}
      /\ e \in Range(queue[k])
  BY <1>1, <1>2, TailDistinct
<1>4. /\ channel[s] = "open" /\ unacked[s] = None
      /\ queue' = [queue EXCEPT ![k] = Tail(queue[k])]
      /\ unacked' = [unacked EXCEPT ![s] = e] /\ delivery' = [delivery EXCEPT ![s] = e]
      /\ UNCHANGED <<pump, inHand, msgChan, proc, held, task, succeeded>>
  BY <1>2 DEF RabbitDeliver, chanVars, procVars
<1>a. /\ delivery \in [Subs -> Events \cup {None}] /\ unacked \in [Subs -> Events \cup {None}]
      /\ None \notin Events /\ Range(msgChan[s]) \subseteq Events
  BY <1>0, Types
<1>5. ConsumerOf(s) /\ PlaceOf(s)  BY <1>0 DEF RabbitInv, PlaceInv
<1>6. ~Given(s, e) /\ \A x \in Events : ~Active(s, x)
  <2>1. \A x : Active(s, x) => Given(s, x)  BY DEF Active, Given
  <2> QED  BY <1>3, <1>4, <1>5, <1>a, <2>1 DEF ConsumerOf
<1>7. delivery[s] = None /\ \A c \in Subs \ {s} : Same(c)
  BY <1>4, <1>6, <1>a DEF Active, Waiting, Same
<1>8. \A x \in Events : Waiting(s, x)' <=> (Waiting(s, x) \/ x = e)
  BY <1>4, <1>7, <1>a DEF Waiting
<1>9. \A x \in Events : /\ Given(s, x)' <=> (Given(s, x) \/ x = e)
                        /\ Active(s, x)' => x = e
  <2>1. \A x \in Events : task'[s][x] = task[s][x]  BY <1>4
  <2>2. \A x \in Events : Given(s, x)' <=> (Given(s, x) \/ x = e)
    BY <1>8, <2>1 DEF Given
  <2>3. \A x \in Events : Active(s, x)' => x = e
    BY <1>6, <1>8, <2>1 DEF Active
  <2> QED  BY <2>2, <2>3
<1>10. PlaceOf(s)'
  <2>1. e # inHand[s] /\ e # held[s] /\ e \notin Range(msgChan[s]) /\ task[s][e] = "none"
    BY <1>6 DEF Given, Waiting
  <2>2. delivery'[s] = e /\ pump[s] # "none"  BY <1>4, <1>5, <1>a DEF ConsumerOf
  <2>3. \A x \in Events : Waiting(s, x)' => task[s][x] = "none"
    BY <1>5, <1>8, <2>1 DEF PlaceOf
  <2> QED  BY <1>4, <1>5, <1>a, <2>1, <2>2, <2>3 DEF PlaceOf
<1>11. pump[s] # "none"  BY <1>4, <1>5 DEF ConsumerOf
<1> QED  BY <1>1, <1>3, <1>4, <1>7, <1>9, <1>10, <1>11

\* A stopped consumer gives back what it has not acknowledged.
LEMMA StopDrops ==
  ASSUME LifeInv, FlowInv, mq = "rabbit", NEW s \in Subs, RabbitStop(s), UNCHANGED procVars
  PROVE  /\ IsInjective(queue'[KeyOf(s)])
         /\ Range(queue'[KeyOf(s)]) = Range(queue[KeyOf(s)]) \cup ({unacked[s]} \ {None})
         /\ \A k \in Keys \ {KeyOf(s)} : queue'[k] = queue[k]
         /\ \A x \in Events : (Given(s, x)' => Given(s, x)) /\ (Active(s, x)' => Active(s, x))
         /\ \A c \in Subs \ {s} : Same(c)
         /\ PlaceOf(s)' /\ pump[s] = "select" /\ pump'[s] = "done"
<1> DEFINE k == KeyOf(s)
<1>0. BusTypes /\ FlowTypes /\ RabbitTypes /\ PlaceInv /\ RabbitInv
  BY DEF LifeInv, FlowInv
<1>1. /\ pump \in [Subs -> {"none", "check", "fetch", "select", "send", "done"}]
      /\ delivery \in [Subs -> Events \cup {None}] /\ unacked \in [Subs -> Events \cup {None}]
      /\ None \notin Events /\ Range(msgChan[s]) \subseteq Events
  BY <1>0, Types
<1>2. /\ k \in Keys /\ queue \in [Keys -> Seq(Events)] /\ IsInjective(queue[k])
      /\ unacked[s] # None => unacked[s] \notin Range(queue[k])
  BY <1>0, Sizes DEF RabbitTypes, RabbitInv, QueueOf, UnackedOf
<1>3. unacked[s] \notin Range(queue[k])
  BY <1>1, <1>2 DEF Range
<1>4. {unacked[c] : c \in {x \in {s} : KeyOf(x) = k}} = {unacked[s]}
  OBVIOUS
<1>5. IsInjective(Requeued(k, {s})) /\ Range(Requeued(k, {s})) = Range(queue[k]) \cup ({unacked[s]} \ {None})
  BY <1>0, <1>2, <1>3, <1>4, RequeuedOf
<1>6. queue' = [queue EXCEPT ![k] = Requeued(k, {s})]
  BY DEF RabbitStop
<1>7. /\ pump[s] = "select" /\ pump' = [pump EXCEPT ![s] = "done"]
      /\ delivery' = [delivery EXCEPT ![s] = None]
      /\ UNCHANGED <<inHand, msgChan, proc, held, task, succeeded>>
  BY DEF RabbitStop, PumpReturns, procVars
<1>8. \A c \in Subs \ {s} : Same(c)
  BY <1>1, <1>7 DEF Same
<1>9. \A x \in Events : Waiting(s, x)' <=> (x # delivery[s] /\ Waiting(s, x))
  <2>1. PlaceOf(s)  BY <1>0 DEF PlaceInv
  <2> QED  BY <1>1, <1>7, <2>1 DEF Waiting, PlaceOf
<1>10. \A x \in Events : (Given(s, x)' => Given(s, x)) /\ (Active(s, x)' => Active(s, x))
  BY <1>7, <1>9 DEF Given, Active
<1>11. PlaceOf(s)'
  <2>1. PlaceOf(s)  BY <1>0 DEF PlaceInv
  <2>2. delivery'[s] = None /\ pump'[s] = "done" /\ proc[s] # "none"
    BY <1>1, <1>7, <2>1 DEF PlaceOf
  <2>3. \A x \in Events : Waiting(s, x)' => task[s][x] = "none"
    BY <1>9, <2>1 DEF PlaceOf
  <2> QED  BY <1>1, <1>7, <2>1, <2>2, <2>3 DEF PlaceOf
<1> QED  BY <1>1, <1>2, <1>5, <1>6, <1>7, <1>8, <1>10, <1>11

\* A subscription has been given nothing before the adapter's Subscribe.
LEMMA SubscribeOpens ==
  ASSUME LifeInv, FlowInv, NEW p \in Clients, OnSubscribe(p)
  PROVE  \E s \in Subs :
           /\ (Kafka /\ KafkaSubscribe(s)) \/ (Rabbit /\ \E ok \in BOOLEAN : RabbitSubscribe(s, ok))
           /\ UNCHANGED <<stage, mq, succeeded>>
           /\ \A x \in Events : ~Given(s, x) /\ ~Given(s, x)'
           /\ \A c \in Subs \ {s} : Same(c)
           /\ PlaceOf(s)' /\ pump[s] = "none"
<1>0. BusTypes /\ FlowTypes /\ RabbitTypes /\ PlaceInv /\ CallInv
  BY DEF LifeInv, FlowInv
<1>1. PICK s \in Subs : s = sub[p] /\ proc[s] = "none"
  <2>1. pc[p] = "on.subscribe"  BY DEF OnSubscribe
  <2> QED  BY <1>0, <2>1 DEF CallInv, StartPC
<1>2. PlaceOf(s) /\ pump[s] = "none" /\ \A x \in Events : ~Given(s, x)
  BY <1>0, <1>1 DEF PlaceInv, PlaceOf
<1>3. PICK ok \in BOOLEAN : Subscribe(s, ok) /\ proc' = IF ok THEN [proc EXCEPT ![s] = "receive"] ELSE proc
  BY <1>1 DEF OnSubscribe
<1>4. /\ (Kafka /\ ok /\ KafkaSubscribe(s)) \/ (Rabbit /\ RabbitSubscribe(s, ok))
      /\ UNCHANGED <<inHand, msgChan, held, task, succeeded, stage, mq>>
  BY <1>3 DEF OnSubscribe, Subscribe, chanVars, procVars, busVars
<1>5. /\ UNCHANGED delivery
      /\ pump' = pump \/ \E x \in {"check", "select"} : pump' = [pump EXCEPT ![s] = x]
      /\ ~ok => pump' = pump
  BY <1>4 DEF Kafka, KafkaSubscribe, RabbitSubscribe, rabbitVars
<1>6. /\ pump \in [Subs -> {"none", "check", "fetch", "select", "send", "done"}]
      /\ proc \in [Subs -> {"none", "receive", "acquire", "gone"}]
  BY <1>0, Types
<1>7. \A c \in Subs \ {s} : Same(c)
  BY <1>3, <1>4, <1>5, <1>6 DEF Same
<1>8. \A x \in Events : (Waiting(s, x)' <=> Waiting(s, x)) /\ (Given(s, x)' <=> Given(s, x))
  BY <1>4, <1>5 DEF Waiting, Given
<1>9. proc'[s] = "none" => pump'[s] = "none"
  BY <1>2, <1>3, <1>5, <1>6
<1>10. PlaceOf(s)'
  BY <1>2, <1>4, <1>5, <1>8, <1>9 DEF PlaceOf
<1> QED  BY <1>2, <1>4, <1>7, <1>8, <1>10

------------------------------------------------------------------------------
(* A message is in one place *)

\* No step puts a message in two places.
LEMMA PlaceStep ==
  ASSUME LifeInv, FlowInv, [Next]_vars
  PROVE  PlaceInv'
<1>0. BusTypes /\ FlowTypes /\ RabbitTypes /\ PlaceInv /\ \A c \in Subs : PlaceOf(c)
  BY DEF LifeInv, FlowInv, PlaceInv
<1>1. ASSUME NEW s \in Subs, PlaceOf(s)', \A c \in Subs \ {s} : Same(c), succeeded \subseteq succeeded'
      PROVE  PlaceInv'
  BY <1>0, <1>1, SameKeeps DEF PlaceInv
<1>2. ASSUME \A c \in Subs : Same(c), succeeded \subseteq succeeded'
      PROVE  PlaceInv'
  BY <1>0, <1>2, SameKeeps DEF PlaceInv
<1>3. CASE Still
  BY <1>2, <1>3 DEF Still, Same, procVars, rabbitVars
<1>4. ASSUME NEW s \in Subs, Inner(s) PROVE PlaceInv'
  <2>1. Moved(s)  BY <1>0, <1>4, InnerMoves
  <2> QED  BY <1>1, <2>1 DEF Moved
<1>5. CASE Outer
  <2>1. ASSUME NEW s \in Subs, Kafka, KafkaFetch(s), UNCHANGED <<mq, stage, procVars>>
        PROVE  PlaceInv'
    <3>1. PlaceOf(s)' /\ \A c \in Subs \ {s} : Same(c)  BY <2>1, FetchGives DEF Kafka
    <3> QED  BY <1>1, <2>1, <3>1 DEF procVars
  <2>2. ASSUME NEW s \in Subs, Rabbit, RabbitStop(s), UNCHANGED <<mq, stage, procVars>>
        PROVE  PlaceInv'
    <3>1. PlaceOf(s)' /\ \A c \in Subs \ {s} : Same(c)  BY <2>2, StopDrops DEF Rabbit
    <3> QED  BY <1>1, <2>2, <3>1 DEF procVars
  <2>3. ASSUME NEW s \in Subs, Rabbit, RabbitDeliver(s), UNCHANGED <<mq, stage, procVars>>
        PROVE  PlaceInv'
    <3>1. PlaceOf(s)' /\ \A c \in Subs \ {s} : Same(c)  BY <2>3, DeliverGives DEF Rabbit
    <3> QED  BY <1>1, <2>3, <3>1 DEF procVars
  <2>4. ASSUME NEW s \in Subs, NEW e \in Events, HandlerAcks(s, e) PROVE PlaceInv'
    <3>1. Moved(s)  BY <1>0, <2>4, TaskMoves
    <3> QED  BY <1>1, <3>1 DEF Moved
  <2>5. ASSUME NEW p \in Clients, EmitPublish(p) PROVE PlaceInv'
    <3>1. UNCHANGED <<pump, inHand, msgChan, proc, held, task, succeeded, delivery>>
      BY <2>5 DEF EmitPublish, Publish, Kafka, RabbitPublish, chanVars, procVars, rabbitVars
    <3> QED  BY <1>2, <3>1 DEF Same
  <2>6. ASSUME NEW p \in Clients, OnSubscribe(p) PROVE PlaceInv'
    BY <1>1, <2>6, SubscribeOpens
  <2>7. ASSUME NEW p \in Clients, CloseAdapter(p) PROVE PlaceInv'
    <3>1. UNCHANGED <<pump, inHand, msgChan, proc, held, task, succeeded, delivery>>
      BY <2>7 DEF CloseAdapter, CloseConnections, Kafka, RabbitClose, chanVars, procVars, rabbitVars
    <3> QED  BY <1>2, <3>1 DEF Same
  <2> QED  BY <1>5, <2>1, <2>2, <2>3, <2>4, <2>5, <2>6, <2>7 DEF Outer
<1> QED  BY <1>0, <1>3, <1>4, <1>5, KindOfFlow

------------------------------------------------------------------------------
(* The logs and their readers *)

\* A published event was in no log, and goes to the end of its topic's.
LEMMA PublishLogs ==
  ASSUME LifeInv, FlowInv, NEW p \in Clients, EmitPublish(p), Kafka
  PROVE  \E e \in Events :
           /\ EventTopic[e] \in Topics /\ e \notin Range(log[EventTopic[e]])
           /\ \E x \in {"published", "failed"} : stage' = [stage EXCEPT ![e] = x]
           /\ UNCHANGED <<mq, pump, inHand, msgChan, proc, held, task, succeeded, committed, readers>>
           /\ log' = log \/ log' = [log EXCEPT ![EventTopic[e]] = Append(log[EventTopic[e]], e)]
<1>1. PICK e \in Events : e = ev[p] /\ stage[e] = "emitting"
  <2>1. pc[p] = "emit.publish"  BY DEF EmitPublish
  <2> QED  BY <2>1 DEF LifeInv, CallInv, EmitPC
<1>2. EventTopic[e] \in Topics  BY Sizes
<1>3. e \notin Range(log[EventTopic[e]])
  BY <1>1, <1>2 DEF FlowInv, LogInv
<1>4. PICK ok \in BOOLEAN : Publish(e, ok) /\ stage' = [stage EXCEPT ![e] = IF ok THEN "published" ELSE "failed"]
  BY <1>1 DEF EmitPublish
<1>5. mq # "rabbit"  BY DEF Kafka
<1>6. KafkaPublish(e, ok)  BY <1>4, <1>5 DEF Publish, Rabbit
<1>7. /\ UNCHANGED <<mq, pump, inHand, msgChan, proc, held, task, succeeded>>
  BY <1>4 DEF EmitPublish, Publish, busVars, chanVars, procVars
<1>8. /\ UNCHANGED <<committed, readers>>
      /\ log' = log \/ log' = [log EXCEPT ![EventTopic[e]] = Append(log[EventTopic[e]], e)]
  BY <1>6 DEF KafkaPublish
<1> QED  BY <1>2, <1>3, <1>4, <1>7, <1>8

\* Which takes nothing out of a log and moves nothing in it.
LEMMA LogGrows ==
  ASSUME KafkaTypes, LogInv, NEW e \in Events, EventTopic[e] \in Topics,
         e \notin Range(log[EventTopic[e]]),
         log' = log \/ log' = [log EXCEPT ![EventTopic[e]] = Append(log[EventTopic[e]], e)],
         UNCHANGED readers
  PROVE  /\ \A t \in Topics : /\ IsInjective(log'[t]) /\ Len(log[t]) <= Len(log'[t])
                              /\ Range(log'[t]) \subseteq Range(log[t]) \cup (IF t = EventTopic[e] THEN {e} ELSE {})
                              /\ \A i \in DOMAIN log[t] : log'[t][i] = log[t][i]
         /\ \A k \in Keys : Fetched(k)' = Fetched(k)
<1> DEFINE t0 == EventTopic[e]
           l0 == log[t0]
<1>1. \A t \in Topics : log[t] \in Seq(Events) /\ IsInjective(log[t])
  BY DEF KafkaTypes, LogInv
<1>2. /\ IsInjective(Append(l0, e)) /\ Range(Append(l0, e)) = Range(l0) \cup {e}
      /\ Len(Append(l0, e)) = Len(l0) + 1 /\ \A i \in DOMAIN l0 : Append(l0, e)[i] = l0[i]
  BY <1>1, AppendDistinct
<1>3. \A t \in Topics : log'[t] = log[t] \/ (t = t0 /\ log'[t] = Append(l0, e))
  BY DEF KafkaTypes
<1>4. \A t \in Topics : /\ IsInjective(log'[t]) /\ Len(log[t]) <= Len(log'[t])
                        /\ Range(log'[t]) \subseteq Range(log[t]) \cup (IF t = t0 THEN {e} ELSE {})
                        /\ \A i \in DOMAIN log[t] : log'[t][i] = log[t][i]
  <2> TAKE t \in Topics
  <2>1. Len(log[t]) \in Nat  BY <1>1
  <2>2. CASE log'[t] = log[t]  BY <1>1, <2>1, <2>2
  <2>3. CASE t = t0 /\ log'[t] = Append(l0, e)
    BY <1>2, <2>1, <2>3
  <2> QED  BY <1>3, <2>2, <2>3
<1>5. ASSUME NEW k \in Keys PROVE Fetched(k)' = Fetched(k)
  <2>1. CASE readers[k] = None  BY <2>1 DEF Fetched
  <2>2. CASE readers[k] # None
    <3> DEFINE r == readers[k]
    <3>1. r \in ReaderType /\ r.pos <= Len(log[r.topic])  BY <2>2 DEF KafkaTypes, LogInv
    <3>2. \A i \in (r.first + 1)..r.pos : i \in DOMAIN log[r.topic]
      BY <1>1, <3>1
    <3>3. \A i \in (r.first + 1)..r.pos : log'[r.topic][i] = log[r.topic][i]
      BY <1>4, <3>1, <3>2
    <3> QED  BY <2>2, <3>3 DEF Fetched
  <2> QED  BY <2>1, <2>2
<1> QED  BY <1>4, <1>5

\* Which readers a step leaves, and what they have handed out.
LEMMA SubscribeReads ==
  ASSUME KafkaTypes, LogInv, NEW s \in Subs, KafkaSubscribe(s)
  PROVE  /\ \A k \in Keys : Fetched(k)' = Fetched(k)
         /\ \A k \in Keys : readers[k] # None => readers'[k] = readers[k]
         /\ readers'[KeyOf(s)] # None
         /\ \A k \in Keys : readers'[k] # readers[k] =>
              /\ readers'[k] \in ReaderType /\ readers'[k].first = readers'[k].pos
              /\ readers'[k].pos <= Len(log[readers'[k].topic])
              /\ readers'[k].topic = SubTopic[s] /\ readers'[k].group = SubGroup[s]
<1>0. KeyOf(s) \in Keys /\ SubTopic[s] \in Topics /\ SubGroup[s] \in Groups /\ UNCHANGED <<log, committed>>
  BY Sizes DEF KafkaSubscribe
<1>1. CASE readers[KeyOf(s)] # None
  <2>1. readers' = readers  BY <1>1 DEF KafkaSubscribe
  <2> QED  BY <1>0, <1>1, <2>1 DEF Fetched
<1>2. CASE readers[KeyOf(s)] = None
  <2> DEFINE done == committed[SubGroup[s], SubTopic[s]]
             n == IF done > 0 THEN done ELSE FirstOffset(SubTopic[s])
             r == [topic |-> SubTopic[s], group |-> SubGroup[s], first |-> n, pos |-> n, open |-> TRUE]
  <2>1. readers' = [readers EXCEPT ![KeyOf(s)] = r]
    BY <1>2 DEF KafkaSubscribe
  <2>2. Len(log[SubTopic[s]]) \in Nat /\ FirstOffset(SubTopic[s]) \in Nat
        /\ FirstOffset(SubTopic[s]) <= Len(log[SubTopic[s]])
    BY <1>0 DEF KafkaTypes, FirstOffset
  <2>3. committed[<<SubGroup[s], SubTopic[s]>>] \in Nat
        /\ committed[<<SubGroup[s], SubTopic[s]>>] <= Len(log[SubTopic[s]])
    BY <1>0 DEF KafkaTypes, LogInv
  <2>4. n \in Nat /\ n <= Len(log[SubTopic[s]])  BY <2>2, <2>3
  <2> HIDE DEF n
  <2>5. /\ r \in ReaderType /\ r # None /\ r.first = r.pos /\ r.pos <= Len(log[r.topic])
        /\ r.topic = SubTopic[s] /\ r.group = SubGroup[s] /\ r.first = n
    <3>1. r \in ReaderType  BY <1>0, <2>4
    <3> QED  BY <2>4, <3>1, KafkaAssumption DEF KafkaAssumption
  <2> HIDE DEF r
  <2>6. readers'[KeyOf(s)] = r /\ \A k \in Keys \ {KeyOf(s)} : readers'[k] = readers[k]
    BY <1>0, <2>1 DEF KafkaTypes
  <2>7. \A k \in Keys : Fetched(k)' = Fetched(k)
    <3>1. Fetched(KeyOf(s)) = {}  BY <1>2 DEF Fetched
    <3>2. (r.first + 1)..r.pos = {}  BY <2>4, <2>5
    <3>3. Fetched(KeyOf(s))' = {}  BY <2>5, <2>6, <3>2 DEF Fetched
    <3>4. \A k \in Keys \ {KeyOf(s)} : Fetched(k)' = Fetched(k)
      BY <1>0, <2>6 DEF Fetched
    <3> QED  BY <3>1, <3>3, <3>4
  <2> QED  BY <1>2, <2>5, <2>6, <2>7
<1> QED  BY <1>1, <1>2

\* Close leaves what the readers have handed out as it is, and only closes them.
LEMMA CloseReads ==
  ASSUME KafkaTypes, NEW ok \in BOOLEAN, KafkaClose(ok)
  PROVE  /\ UNCHANGED <<log, committed>> /\ \A k \in Keys : Fetched(k)' = Fetched(k)
         /\ \A k \in Keys : \/ readers'[k] = readers[k]
                            \/ /\ readers[k] # None /\ readers[k] \in ReaderType
                               /\ readers'[k] = [readers[k] EXCEPT !.open = FALSE]
                               /\ readers'[k] # None
<1>1. UNCHANGED <<log, committed>>  BY DEF KafkaClose
<1>2. \A k \in Keys : readers'[k] = IF ok /\ readers[k] # None
                                    THEN [readers[k] EXCEPT !.open = FALSE] ELSE readers[k]
  BY DEF KafkaClose
<1>3. ASSUME NEW k \in Keys, readers'[k] # readers[k]
      PROVE  /\ readers[k] # None /\ readers[k] \in ReaderType
             /\ readers'[k] = [readers[k] EXCEPT !.open = FALSE]
             /\ readers'[k] # None /\ Fetched(k)' = Fetched(k)
  <2>1. /\ readers[k] # None /\ readers[k] \in ReaderType
        /\ readers'[k] = [readers[k] EXCEPT !.open = FALSE]
    BY <1>2, <1>3 DEF KafkaTypes
  <2>2. readers'[k] \in ReaderType  BY <2>1
  <2>3. readers'[k] # None  BY <2>2, KafkaAssumption DEF KafkaAssumption
  <2>4. /\ readers'[k].topic = readers[k].topic /\ readers'[k].first = readers[k].first
        /\ readers'[k].pos = readers[k].pos
    BY <2>1
  <2> QED  BY <1>1, <2>1, <2>3, <2>4 DEF Fetched
<1>4. \A k \in Keys : readers'[k] = readers[k] => Fetched(k)' = Fetched(k)
  BY <1>1 DEF Fetched
<1> QED  BY <1>1, <1>3, <1>4

\* Every step keeps the logs and the positions of the readers in them.
LEMMA LogStep ==
  ASSUME LifeInv, FlowInv, [Next]_vars
  PROVE  LogInv'
<1>0. /\ BusTypes /\ FlowTypes /\ KafkaTypes /\ RabbitTypes /\ PlaceInv /\ LogInv /\ KafkaInv
      /\ stage \in [Events -> {"new", "emitting", "published", "failed"}]
  BY DEF LifeInv, FlowInv, BusTypes
<1>a. /\ \A t \in Topics : log[t] \in Seq(Events) /\ Range(log[t]) \subseteq Events
      /\ \A k \in Keys : readers[k] # None => readers[k] \in ReaderType
  BY <1>0 DEF KafkaTypes, Range
\* The log is as it was, and so are the readers and the positions.
<1>1. ASSUME UNCHANGED <<log, readers, committed>>,
             \A e \in Events : stage'[e] = stage[e] \/ stage[e] \notin {"published", "failed"}
      PROVE  LogInv'
  BY <1>0, <1>1, <1>a DEF LogInv
<1>2. CASE Still
  BY <1>1, <1>2 DEF Still, kafkaVars
<1>3. ASSUME NEW s \in Subs, Inner(s) PROVE LogInv'
  <2>1. UNCHANGED Untouched  BY <1>0, <1>3, InnerMoves
  <2> QED  BY <1>1, <2>1 DEF Untouched, kafkaVars
<1>4. CASE Outer
  <2>1. ASSUME NEW s \in Subs, Kafka, KafkaFetch(s), UNCHANGED <<mq, stage, procVars>>
        PROVE  LogInv'
    <3> DEFINE k == KeyOf(s)
               r == readers[k]
    <3>1. /\ k \in Keys /\ r # None /\ r \in ReaderType /\ r.first <= r.pos
          /\ log[r.topic] \in Seq(Events) /\ r.pos + 1 \in DOMAIN log[r.topic]
          /\ readers' = [readers EXCEPT ![k] = [r EXCEPT !.pos = r.pos + 1]]
      BY <1>0, <2>1, FetchReads DEF Kafka
    <3>2. UNCHANGED <<log, committed, stage>>  BY <2>1 DEF KafkaFetch
    <3>3. \A j \in Keys : IF j = k THEN readers'[j] = [r EXCEPT !.pos = r.pos + 1]
                                   ELSE readers'[j] = readers[j]
      BY <1>0, <3>1 DEF KafkaTypes
    <3>4. r.pos + 1 <= Len(log[r.topic]) /\ r.first <= r.pos + 1  BY <3>1
    <3>5. \A j \in Keys : readers'[j] # None => /\ readers'[j].first <= readers'[j].pos
                                                /\ readers'[j].pos <= Len(log[readers'[j].topic])
      <4> TAKE j \in Keys
      <4> HAVE readers'[j] # None
      <4>1. CASE j = k
        <5>1. readers'[j] = [r EXCEPT !.pos = r.pos + 1]  BY <3>3, <4>1
        <5>2. readers'[j].first = r.first /\ readers'[j].pos = r.pos + 1 /\ readers'[j].topic = r.topic
          BY <3>1, <5>1
        <5> QED  BY <3>4, <5>2
      <4>2. CASE j # k
        <5>1. readers'[j] = readers[j]  BY <3>3, <4>2
        <5> QED  BY <1>0, <5>1 DEF LogInv
      <4> QED  BY <4>1, <4>2
    <3> QED  BY <1>0, <3>2, <3>5 DEF LogInv
  <2>2. ASSUME NEW s \in Subs, Rabbit, RabbitStop(s) \/ RabbitDeliver(s), UNCHANGED <<mq, stage, procVars>>
        PROVE  LogInv'
    BY <1>1, <2>2 DEF Rabbit, kafkaVars
  <2>3. ASSUME NEW s \in Subs, NEW e \in Events, HandlerAcks(s, e) PROVE LogInv'
    <3>1. UNCHANGED stage  BY <2>3 DEF HandlerAcks
    <3>2. CASE Rabbit  BY <1>1, <3>1, <3>2 DEF Rabbit, kafkaVars
    <3>3. CASE Kafka /\ KafkaAcks(s, e)
      <4>1. mq = "kafka" /\ task[s][e] # "none"  BY <2>3, <3>3 DEF HandlerAcks, Kafka
      <4>2. /\ UNCHANGED <<log, readers>>
            /\ \/ UNCHANGED committed
               \/ \E g \in Groups, t \in Topics, m \in Nat :
                    m <= Len(log[t]) /\ committed' = [committed EXCEPT ![<<g, t>>] = m]
        BY <1>0, <3>3, <4>1, AckCommits
      <4>3. \A g \in Groups, t \in Topics : committed'[<<g, t>>] <= Len(log[t])
        <5>1. \A g \in Groups, t \in Topics : committed[<<g, t>>] <= Len(log[t])
          BY <1>0 DEF LogInv
        <5>2. ASSUME NEW g \in Groups, NEW t \in Topics, NEW m \in Nat, m <= Len(log[t]),
                     committed' = [committed EXCEPT ![<<g, t>>] = m]
              PROVE  \A h \in Groups, u \in Topics : committed'[<<h, u>>] <= Len(log[u])
          BY <1>0, <5>1, <5>2 DEF KafkaTypes
        <5> QED  BY <4>2, <5>1, <5>2
      <4> QED  BY <1>0, <3>1, <4>2, <4>3 DEF LogInv
    <3> QED  BY <2>3, <3>2, <3>3 DEF HandlerAcks, Ack, KafkaAcks
  <2>4. ASSUME NEW p \in Clients, EmitPublish(p) PROVE LogInv'
    <3>1. CASE Kafka
      <4>1. PICK e \in Events :
              /\ EventTopic[e] \in Topics /\ e \notin Range(log[EventTopic[e]])
              /\ \E x \in {"published", "failed"} : stage' = [stage EXCEPT ![e] = x]
              /\ UNCHANGED <<committed, readers>>
              /\ log' = log \/ log' = [log EXCEPT ![EventTopic[e]] = Append(log[EventTopic[e]], e)]
        BY <2>4, <3>1, PublishLogs
      <4>2. \A t \in Topics : /\ IsInjective(log'[t]) /\ Len(log[t]) <= Len(log'[t])
                              /\ Range(log'[t]) \subseteq Range(log[t]) \cup (IF t = EventTopic[e] THEN {e} ELSE {})
        BY <1>0, <4>1, LogGrows
      <4>3. \A x \in Events : stage[x] \in {"published", "failed"} \/ x = e => stage'[x] \in {"published", "failed"}
        BY <1>0, <4>1
      <4>4. \A t \in Topics : \A x \in Range(log'[t]) :
              EventTopic[x] = t /\ stage'[x] \in {"published", "failed"}
        BY <1>0, <1>a, <4>2, <4>3 DEF LogInv
      <4>5. LogInv /\ KafkaTypes'  BY <1>0, FlowTypesStep
      <4>6. \A t \in Topics : Len(log[t]) \in Nat /\ Len(log'[t]) \in Nat
        BY <1>a, <4>5 DEF KafkaTypes
      <4>7. \A k \in Keys : readers'[k] # None => readers'[k].first <= readers'[k].pos
                                                   /\ readers'[k].pos <= Len(log'[readers'[k].topic])
        <5> TAKE k \in Keys
        <5> HAVE readers'[k] # None
        <5>1. readers'[k] = readers[k] /\ readers[k] \in ReaderType  BY <1>a, <4>1
        <5>2. readers[k].first <= readers[k].pos /\ readers[k].pos <= Len(log[readers[k].topic])
          BY <4>5, <5>1 DEF LogInv
        <5> QED  BY <4>2, <4>6, <5>1, <5>2
      <4>8. \A g \in Groups, t \in Topics : committed'[<<g, t>>] <= Len(log'[t])
        <5>1. \A g \in Groups, t \in Topics : committed[<<g, t>>] <= Len(log[t]) /\ committed[<<g, t>>] \in Nat
          BY <1>0 DEF LogInv, KafkaTypes
        <5> TAKE g \in Groups, t \in Topics
        <5>2. Len(log[t]) <= Len(log'[t]) /\ Len(log[t]) \in Nat /\ Len(log'[t]) \in Nat
          BY <4>2, <4>6
        <5>3. committed'[<<g, t>>] = committed[<<g, t>>]  BY <4>1
        <5> QED  BY <5>1, <5>2, <5>3
      <4> QED  BY <4>2, <4>4, <4>7, <4>8 DEF LogInv
    <3>2. CASE Rabbit
      <4>1. pc[p] = "emit.publish" /\ \E x : stage' = [stage EXCEPT ![ev[p]] = x]
        BY <2>4 DEF EmitPublish
      <4>2. stage[ev[p]] = "emitting"  BY <4>1 DEF LifeInv, CallInv
      <4> QED  BY <1>0, <1>1, <3>2, <4>1, <4>2 DEF Rabbit, kafkaVars
    <3> QED  BY <2>4, <3>1, <3>2 DEF EmitPublish, Publish
  <2>5. ASSUME NEW p \in Clients, OnSubscribe(p) PROVE LogInv'
    <3>1. PICK s \in Subs : /\ (Kafka /\ KafkaSubscribe(s)) \/ Rabbit
                            /\ UNCHANGED stage
      BY <2>5, SubscribeOpens
    <3>2. CASE Rabbit  BY <1>1, <3>1, <3>2 DEF Rabbit, kafkaVars
    <3>3. CASE Kafka /\ KafkaSubscribe(s)
      <4>1. UNCHANGED <<log, committed>>  BY <3>3 DEF KafkaSubscribe
      <4>2. \A k \in Keys : readers'[k] # readers[k] =>
              /\ readers'[k] \in ReaderType /\ readers'[k].first = readers'[k].pos
              /\ readers'[k].pos <= Len(log[readers'[k].topic])
        BY <1>0, <3>3, SubscribeReads
      <4>3. \A k \in Keys : readers'[k] # None => readers'[k].first <= readers'[k].pos
                                                   /\ readers'[k].pos <= Len(log[readers'[k].topic])
        <5> TAKE k \in Keys
        <5> HAVE readers'[k] # None
        <5>1. CASE readers'[k] = readers[k]
          BY <1>0, <5>1 DEF LogInv
        <5>2. CASE readers'[k] # readers[k]
          <6>1. readers'[k].pos \in Nat /\ readers'[k].first = readers'[k].pos  BY <4>2, <5>2
          <6> QED  BY <4>2, <5>2, <6>1
        <5> QED  BY <5>1, <5>2
      <4> QED  BY <1>0, <3>1, <4>1, <4>3 DEF LogInv
    <3> QED  BY <3>1, <3>2, <3>3
  <2>6. ASSUME NEW p \in Clients, CloseAdapter(p) PROVE LogInv'
    <3>1. UNCHANGED stage  BY <2>6 DEF CloseAdapter
    <3>2. CASE Rabbit  BY <1>1, <3>1, <3>2 DEF Rabbit, kafkaVars
    <3>3. ASSUME NEW ok \in BOOLEAN, KafkaClose(ok) PROVE LogInv'
      <4>1. UNCHANGED <<log, committed>>  BY <3>3 DEF KafkaClose
      <4>2. \A k \in Keys : \/ readers'[k] = readers[k]
                            \/ /\ readers[k] # None /\ readers[k] \in ReaderType
                               /\ readers'[k] = [readers[k] EXCEPT !.open = FALSE]
        BY <1>0, <3>3, CloseReads
      <4>3. \A k \in Keys : readers'[k] # None => /\ readers[k] # None /\ readers'[k].first = readers[k].first
                                                  /\ readers'[k].pos = readers[k].pos
                                                  /\ readers'[k].topic = readers[k].topic
        BY <4>2
      <4> QED  BY <1>0, <3>1, <4>1, <4>3 DEF LogInv
    <3> QED  BY <2>6, <3>2, <3>3 DEF CloseAdapter, CloseConnections
  <2> QED  BY <1>4, <2>1, <2>2, <2>3, <2>4, <2>5, <2>6 DEF Outer
<1> QED  BY <1>0, <1>2, <1>3, <1>4, KindOfFlow

------------------------------------------------------------------------------
(* What a Kafka reader has handed out *)

\* The adapter that the configuration holds is never replaced.
LEMMA AdapterKept ==
  ASSUME BusTypes, [Next]_vars
  PROVE  mq' = mq
<1>1. CASE Still  BY <1>1 DEF Still
<1>2. ASSUME NEW s \in Subs, Inner(s) PROVE mq' = mq
  BY <1>2 DEF Inner, ProcStep, ProcReceive, ProcAcquire, ProcEnds, HandlerReturns, busVars
<1>3. CASE Outer
  BY <1>3 DEF Outer, HandlerAcks, EmitPublish, OnSubscribe, CloseAdapter, busVars
<1> QED  BY <1>1, <1>2, <1>3, KindOfFlow

\* A step that gives nothing and hands out nothing.
LEMMA KafkaKept ==
  ASSUME KafkaInv, mq = "kafka", UNCHANGED <<mq, channel, delivery>>,
         \A k \in Keys : Fetched(k)' = Fetched(k) /\ (readers[k] # None => readers'[k] # None),
         \A c \in Subs : /\ pump'[c] # "select"
                         /\ pump'[c] # "none" => pump[c] # "none" \/ readers'[KeyOf(c)] # None,
         \A c \in Subs, x \in Events : Given(c, x)' <=> Given(c, x),
         \A k \in Keys : Fetched(k) \subseteq Events
  PROVE  KafkaInv'
<1>1. ASSUME NEW c \in Subs PROVE KafkaOf(c)'
  <2>1. KafkaOf(c) /\ KeyOf(c) \in Keys  BY Sizes DEF KafkaInv
  <2>2. Reader(c)' # None \/ pump'[c] = "none"
    BY <2>1 DEF KafkaOf, Reader
  <2>3. \A x \in Events : Given(c, x)' =>
          /\ x \in Fetched(KeyOf(c))'
          /\ \A d \in Subs \ {c} : KeyOf(d) = KeyOf(c) => ~Given(d, x)'
    BY <2>1 DEF KafkaOf
  <2> QED  BY <2>1, <2>2, <2>3 DEF KafkaOf
<1>2. ASSUME NEW k \in Keys PROVE FetchedOf(k)'
  BY DEF KafkaInv, FetchedOf
<1> QED  BY <1>1, <1>2 DEF KafkaInv

\* Every step keeps what holds between a Kafka reader and its subscriptions.
LEMMA KafkaStep ==
  ASSUME LifeInv, FlowInv, [Next]_vars
  PROVE  KafkaInv'
<1>0. /\ BusTypes /\ FlowTypes /\ KafkaTypes /\ RabbitTypes /\ PlaceInv /\ LogInv /\ KafkaInv
      /\ \A c \in Subs : PlaceOf(c)
  BY DEF LifeInv, FlowInv, PlaceInv
<1>a. SUFFICES ASSUME mq = "kafka", mq' = "kafka", UNCHANGED mq PROVE KafkaInv'
  BY <1>0, AdapterKept DEF KafkaInv
<1>b. \A c \in Subs : pump[c] # "select" /\ KafkaOf(c) /\ KeyOf(c) \in Keys
  BY <1>0, <1>a, Sizes DEF KafkaInv, KafkaOf
<1>c. \A k \in Keys : Fetched(k) \subseteq Events
  BY <1>0, FetchedLogged
<1>1. ASSUME UNCHANGED <<channel, delivery, log, readers>>,
             \A c \in Subs : pump'[c] # "select" /\ (pump'[c] # "none" => pump[c] # "none"),
             \A c \in Subs, x \in Events : Given(c, x)' <=> Given(c, x)
      PROVE  KafkaInv'
  <2>1. \A k \in Keys : Fetched(k)' = Fetched(k)  BY <1>1 DEF Fetched
  <2> QED  BY <1>0, <1>a, <1>c, <1>1, <2>1, KafkaKept
<1>2. CASE Still
  <2>1. /\ \A c \in Subs : Same(c)
        /\ UNCHANGED <<channel, delivery, log, readers, pump, succeeded>>
    BY <1>2 DEF Still, Same, kafkaVars, rabbitVars, procVars
  <2>2. \A c \in Subs, x \in Events : Given(c, x)' <=> Given(c, x)
    BY <1>0, <2>1, SameKeeps
  <2> QED  BY <1>1, <1>b, <2>1, <2>2
<1>3. ASSUME NEW s \in Subs, Moved(s), UNCHANGED <<channel, delivery, log, readers>>
      PROVE  KafkaInv'
  <2>1. \A c \in Subs \ {s}, x \in Events : Given(c, x)' <=> Given(c, x)
    BY <1>0, <1>3, SameKeeps DEF Moved
  <2>2. \A x \in Events : Given(s, x)' <=> Given(s, x)  BY <1>3 DEF Moved
  <2>3. \A c \in Subs : pump'[c] # "select" /\ (pump'[c] # "none" => pump[c] # "none")
    BY <1>3, <1>a, <1>b DEF Moved, Same
  <2> QED  BY <1>1, <1>3, <2>1, <2>2, <2>3
<1>4. ASSUME NEW s \in Subs, Inner(s) PROVE KafkaInv'
  <2>1. Moved(s) /\ UNCHANGED Untouched  BY <1>0, <1>4, InnerMoves
  <2>2. UNCHANGED delivery
    BY <1>4, <1>a DEF Inner, ProcStep, ProcReceive, ProcAcquire, ProcEnds, HandlerReturns, mqVars,
         rabbitVars, Kafka, Rabbit
  <2> QED  BY <1>3, <2>1, <2>2 DEF Untouched, kafkaVars
<1>5. CASE Outer
  <2>0. mq # "rabbit"  BY <1>a
  <2>1. ASSUME NEW s \in Subs, Kafka, KafkaFetch(s), UNCHANGED <<mq, stage, procVars>>
        PROVE  KafkaInv'
    <3> DEFINE k == KeyOf(s)
    <3>1. PICK e \in Events :
           /\ e \notin Fetched(k) /\ Fetched(k)' = Fetched(k) \cup {e}
           /\ \A j \in Keys \ {k} : Fetched(j)' = Fetched(j)
           /\ \A x \in Events : Given(s, x)' <=> (Given(s, x) \/ x = e)
           /\ \A c \in Subs \ {s} : Same(c)
           /\ pump'[s] = "send"
      BY <1>a, <2>1, FetchGives DEF Kafka
    <3>2. \A c \in Subs \ {s}, x \in Events : Given(c, x)' <=> Given(c, x)
      BY <1>0, <2>1, <3>1, SameKeeps DEF procVars
    <3>3. readers[k] # None /\ \A j \in Keys : readers[j] # None => readers'[j] # None
      <4>1. /\ k \in Keys /\ readers[k] # None /\ readers[k] \in ReaderType
            /\ readers' = [readers EXCEPT ![k] = [readers[k] EXCEPT !.pos = readers[k].pos + 1]]
            /\ readers[k].pos \in Nat
        BY <1>0, <1>a, <2>1, FetchReads
      <4>2. [readers[k] EXCEPT !.pos = readers[k].pos + 1] \in ReaderType  BY <4>1
      <4>3. [readers[k] EXCEPT !.pos = readers[k].pos + 1] # None
        BY <4>2, KafkaAssumption DEF KafkaAssumption
      <4> QED  BY <1>0, <4>1, <4>3 DEF KafkaTypes
    <3>4. UNCHANGED <<channel, delivery>>  BY <2>1 DEF Kafka, rabbitVars
    <3>5. \A c \in Subs : KeyOf(c) = k => ~Given(c, e)
      BY <1>b, <3>1 DEF KafkaOf
    <3>6. ASSUME NEW c \in Subs PROVE KafkaOf(c)'
      <4>1. /\ pump'[c] # "select" /\ channel'[c] = "none" /\ delivery'[c] = None
            /\ pump'[c] # "none" => Reader(c)' # None
        BY <1>b, <3>1, <3>3, <3>4 DEF KafkaOf, Reader, Same
      <4>2. \A x \in Events : Given(c, x)' =>
              /\ x \in Fetched(KeyOf(c))'
              /\ \A d \in Subs \ {c} : KeyOf(d) = KeyOf(c) => ~Given(d, x)'
        <5> TAKE x \in Events
        <5> HAVE Given(c, x)'
        <5>1. CASE Given(c, x)
          <6>1. x \in Fetched(KeyOf(c)) /\ \A d \in Subs \ {c} : KeyOf(d) = KeyOf(c) => ~Given(d, x)
            BY <1>b, <5>1 DEF KafkaOf
          <6>2. x \in Fetched(KeyOf(c))'  BY <1>b, <3>1, <6>1
          <6>3. KeyOf(c) = k => x # e  BY <3>1, <6>1
          <6> QED  BY <3>1, <3>2, <6>1, <6>2, <6>3
        <5>2. CASE ~Given(c, x)
          <6>1. c = s /\ x = e  BY <3>1, <3>2, <5>2
          <6> QED  BY <3>1, <3>2, <3>5, <6>1
        <5> QED  BY <5>1, <5>2
      <4> QED  BY <4>1, <4>2 DEF KafkaOf
    <3>7. ASSUME NEW j \in Keys PROVE FetchedOf(j)'
      <4> SUFFICES ASSUME NEW x \in Fetched(j)' PROVE \E d \in Subs : KeyOf(d) = j /\ Given(d, x)'
        BY DEF FetchedOf
      <4>1. CASE x \in Fetched(j)
        <5>1. PICK d \in Subs : KeyOf(d) = j /\ Given(d, x)
          BY <1>0, <1>a, <4>1 DEF KafkaInv, FetchedOf
        <5>2. x \in Events  BY <1>c, <4>1
        <5> QED  BY <3>1, <3>2, <5>1, <5>2
      <4>2. CASE x \notin Fetched(j)
        <5>1. j = k /\ x = e  BY <3>1, <4>2
        <5> QED  BY <3>1, <5>1
      <4> QED  BY <4>1, <4>2
    <3> QED  BY <3>6, <3>7 DEF KafkaInv
  <2>2. ASSUME NEW s \in Subs, NEW e \in Events, HandlerAcks(s, e) PROVE KafkaInv'
    <3>1. Moved(s) /\ task[s][e] # "none"  BY <1>0, <2>2, TaskMoves DEF HandlerAcks
    <3>2. (\E ok \in BOOLEAN : KafkaAck(s, e, ok)) /\ UNCHANGED rabbitVars
      BY <2>0, <2>2 DEF HandlerAcks, Ack, Rabbit, Kafka
    <3> QED  BY <1>3, <3>1, <3>2 DEF KafkaAck, rabbitVars
  <2>3. ASSUME NEW p \in Clients, EmitPublish(p) PROVE KafkaInv'
    <3>1. Kafka  BY <2>0, <2>3 DEF EmitPublish, Publish, Rabbit
    <3>2. PICK e \in Events :
           /\ EventTopic[e] \in Topics /\ e \notin Range(log[EventTopic[e]])
           /\ UNCHANGED <<mq, pump, inHand, msgChan, proc, held, task, succeeded, committed, readers>>
           /\ log' = log \/ log' = [log EXCEPT ![EventTopic[e]] = Append(log[EventTopic[e]], e)]
      BY <2>3, <3>1, PublishLogs
    <3>3. UNCHANGED <<channel, delivery>>  BY <3>1 DEF Kafka, rabbitVars
    <3>4. \A c \in Subs, x \in Events : Given(c, x)' <=> Given(c, x)
      BY <3>2, <3>3 DEF Given, Waiting
    <3>5. \A k \in Keys : Fetched(k)' = Fetched(k)  BY <1>0, <3>2, LogGrows
    <3> QED  BY <1>0, <1>a, <1>b, <1>c, <3>2, <3>3, <3>4, <3>5, KafkaKept
  <2>4. ASSUME NEW p \in Clients, OnSubscribe(p) PROVE KafkaInv'
    <3>1. PICK s \in Subs :
           /\ Kafka /\ KafkaSubscribe(s)
           /\ UNCHANGED succeeded
           /\ \A x \in Events : ~Given(s, x) /\ ~Given(s, x)'
           /\ \A c \in Subs \ {s} : Same(c)
      BY <2>0, <2>4, SubscribeOpens DEF Rabbit
    <3>2. \A c \in Subs, x \in Events : Given(c, x)' <=> Given(c, x)
      BY <1>0, <3>1, SameKeeps
    <3>3. /\ \A k \in Keys : Fetched(k)' = Fetched(k) /\ (readers[k] # None => readers'[k] # None)
          /\ readers'[KeyOf(s)] # None
      BY <1>0, <3>1, SubscribeReads
    <3>4. pump'[s] = "check" /\ UNCHANGED <<channel, delivery>>
      BY <1>0, <3>1, Types DEF Kafka, KafkaSubscribe, rabbitVars
    <3>5. \A c \in Subs : /\ pump'[c] # "select"
                          /\ pump'[c] # "none" => pump[c] # "none" \/ readers'[KeyOf(c)] # None
      BY <1>b, <3>1, <3>3, <3>4 DEF Same
    <3> QED  BY <1>0, <1>a, <1>c, <3>2, <3>3, <3>4, <3>5, KafkaKept
  <2>5. ASSUME NEW p \in Clients, CloseAdapter(p) PROVE KafkaInv'
    <3>1. PICK ok \in BOOLEAN : KafkaClose(ok)
      BY <2>0, <2>5 DEF CloseAdapter, CloseConnections, Rabbit
    <3>2. UNCHANGED <<pump, inHand, msgChan, held, task, channel, delivery>>
      BY <2>0, <2>5 DEF CloseAdapter, CloseConnections, Kafka, Rabbit, chanVars, procVars, rabbitVars
    <3>3. \A c \in Subs, x \in Events : Given(c, x)' <=> Given(c, x)
      BY <3>2 DEF Given, Waiting
    <3>4. \A k \in Keys : Fetched(k)' = Fetched(k) /\ (readers[k] # None => readers'[k] # None)
      BY <1>0, <3>1, CloseReads
    <3> QED  BY <1>0, <1>a, <1>b, <1>c, <3>2, <3>3, <3>4, KafkaKept
  <2> QED  BY <1>5, <2>0, <2>1, <2>2, <2>3, <2>4, <2>5 DEF Outer, Rabbit
<1> QED  BY <1>0, <1>2, <1>4, <1>5, KindOfFlow

------------------------------------------------------------------------------
(* What RabbitMQ has put into a queue *)

\* A step that gives nothing and moves nothing between a queue and its consumers.
LEMMA RabbitKept ==
  ASSUME RabbitInv, mq = "rabbit", UNCHANGED <<mq, queue, routed, conn, channel, unacked>>,
         \A k \in Keys : bound[k] \subseteq bound'[k],
         \A k \in Keys : routed[k] \subseteq Events,
         \A x \in Events : stage[x] = "published" => stage'[x] = "published",
         \A c \in Subs, x \in Events : (Given(c, x)' => Given(c, x)) /\ (Active(c, x)' => Active(c, x)),
         \A c \in Subs : /\ pump'[c] # "check" /\ pump'[c] # "fetch"
                         /\ pump'[c] = "none" => pump[c] = "none"
  PROVE  RabbitInv'
<1>1. ASSUME NEW k \in Keys PROVE QueueOf(k)'
  <2>1. QueueOf(k)  BY DEF RabbitInv
  <2> QED  BY <2>1 DEF QueueOf, RoutedTo
<1>2. ASSUME NEW c \in Subs PROVE UnackedOf(c)' /\ ConsumerOf(c)'
  <2>1. UnackedOf(c) /\ ConsumerOf(c)  BY DEF RabbitInv
  <2> QED  BY <2>1 DEF UnackedOf, ConsumerOf
<1> QED  BY <1>1, <1>2 DEF RabbitInv

\* A stopped pump closes its channel, and what was unacknowledged is back in the queue.
LEMMA RabbitStopStep ==
  ASSUME LifeInv, FlowInv, mq = "rabbit", NEW s \in Subs, Rabbit, RabbitStop(s),
         UNCHANGED <<mq, stage, procVars>>
  PROVE  RabbitInv' /\ HandledOrRedelivered'
<1> DEFINE k == KeyOf(s)
<1>0. /\ BusTypes /\ FlowTypes /\ RabbitTypes /\ PlaceInv /\ RabbitInv /\ HandledOrRedelivered
      /\ k \in Keys
  BY Sizes DEF LifeInv, FlowInv
<1>1. /\ IsInjective(queue'[k]) /\ Range(queue'[k]) = Range(queue[k]) \cup ({unacked[s]} \ {None})
      /\ \A j \in Keys \ {k} : queue'[j] = queue[j]
      /\ \A x \in Events : (Given(s, x)' => Given(s, x)) /\ (Active(s, x)' => Active(s, x))
      /\ \A c \in Subs \ {s} : Same(c)
      /\ pump'[s] = "done"
  BY StopDrops
<1>2. /\ UNCHANGED <<routed, bound, conn, stage, mq, succeeded>>
      /\ channel' = [channel EXCEPT ![s] = "closed"] /\ unacked' = [unacked EXCEPT ![s] = None]
  BY DEF RabbitStop, procVars
<1>3. /\ channel \in [Subs -> {"none", "open", "closed"}] /\ unacked \in [Subs -> Events \cup {None}]
      /\ None \notin Events
  BY <1>0, Sizes DEF RabbitTypes
<1>4. \A c \in Subs, x \in Events : (Given(c, x)' => Given(c, x)) /\ (Active(c, x)' => Active(c, x))
  <2>1. \A c \in Subs \ {s}, x \in Events : (Given(c, x)' <=> Given(c, x)) /\ (Active(c, x)' <=> Active(c, x))
    BY <1>0, <1>1, <1>2, SameKeeps DEF PlaceInv
  <2> QED  BY <1>1, <2>1
<1>5. \A j \in Keys : QueueOf(j)  BY <1>0 DEF RabbitInv
<1>6. \A c \in Subs : UnackedOf(c) /\ ConsumerOf(c)  BY <1>0 DEF RabbitInv
<1>7. ASSUME NEW j \in Keys PROVE QueueOf(j)'
  <2>1. CASE j = k
    <3>1. unacked[s] # None => unacked[s] \in routed[k]  BY <1>6 DEF UnackedOf
    <3> QED  BY <1>1, <1>2, <1>5, <2>1, <3>1 DEF QueueOf, RoutedTo
  <2>2. CASE j # k
    BY <1>1, <1>2, <1>5, <2>2 DEF QueueOf, RoutedTo
  <2> QED  BY <2>1, <2>2
<1>8. ASSUME NEW c \in Subs PROVE UnackedOf(c)'
  <2>0. KeyOf(c) \in Keys  BY Sizes
  <2>1. CASE c = s  BY <1>2, <1>3, <2>1 DEF UnackedOf
  <2>2. CASE c # s
    <3>1. unacked'[c] = unacked[c] /\ channel'[c] = channel[c]  BY <1>2, <1>3, <2>2
    <3>2. SUFFICES ASSUME unacked[c] # None PROVE UnackedOf(c)'
      BY <3>1 DEF UnackedOf
    <3>3. unacked[c] \notin Range(queue[KeyOf(c)]) /\ (KeyOf(c) = k => unacked[s] # unacked[c])
      BY <1>6, <2>2, <3>2 DEF UnackedOf
    <3>4. unacked[c] \notin Range(queue'[KeyOf(c)])
      BY <1>1, <2>0, <3>3
    <3>5. \A d \in Subs \ {c} : KeyOf(d) = KeyOf(c) => unacked'[d] # unacked[c]
      BY <1>2, <1>3, <1>6, <3>2 DEF UnackedOf
    <3> QED  BY <1>2, <1>6, <3>1, <3>2, <3>4, <3>5 DEF UnackedOf
  <2> QED  BY <2>1, <2>2
<1>9. ASSUME NEW c \in Subs PROVE ConsumerOf(c)'
  <2>0. KeyOf(c) \in Keys  BY Sizes
  <2>1. CASE c = s
    BY <1>1, <1>2, <1>3, <1>6, <2>1 DEF ConsumerOf
  <2>2. CASE c # s
    <3>1. unacked'[c] = unacked[c] /\ channel'[c] = channel[c] /\ pump'[c] = pump[c]
      BY <1>1, <1>2, <1>3, <2>2 DEF Same
    <3>2. ASSUME NEW x \in Events, Given(c, x)'
          PROVE  /\ x \in routed'[KeyOf(c)]
                 /\ channel'[c] = "open" =>
                      /\ Active(c, x)' => unacked'[c] = x
                      /\ x \notin Range(queue'[KeyOf(c)])
                      /\ \A d \in Subs \ {c} : KeyOf(d) = KeyOf(c) => unacked'[d] # x
      <4>1. Given(c, x) /\ (Active(c, x)' => Active(c, x))  BY <1>4, <3>2
      <4>2. x \in routed[KeyOf(c)] /\ (channel[c] = "open" =>
              /\ Active(c, x) => unacked[c] = x
              /\ x \notin Range(queue[KeyOf(c)])
              /\ \A d \in Subs \ {c} : KeyOf(d) = KeyOf(c) => unacked[d] # x)
        BY <1>6, <4>1 DEF ConsumerOf
      <4>3. channel[c] = "open" /\ KeyOf(c) = k => x # unacked[s]
        BY <2>2, <4>2
      <4>4. channel[c] = "open" => x \notin Range(queue'[KeyOf(c)])
        BY <1>1, <2>0, <4>2, <4>3
      <4>5. channel[c] = "open" => \A d \in Subs \ {c} : KeyOf(d) = KeyOf(c) => unacked'[d] # x
        BY <1>2, <1>3, <4>2
      <4> QED  BY <1>2, <3>1, <4>1, <4>2, <4>4, <4>5
    <3> QED  BY <1>2, <1>6, <3>1, <3>2 DEF ConsumerOf
  <2> QED  BY <2>1, <2>2
<1>10. HandledOrRedelivered'
  <2> SUFFICES ASSUME NEW j \in Keys, NEW x \in routed[j]
               PROVE  \/ x \in Range(queue'[j])
                      \/ \E c \in Subs : KeyOf(c) = j /\ (unacked'[c] = x \/ <<c, x>> \in succeeded)
    BY <1>2 DEF HandledOrRedelivered
  <2>1. x # None  BY <1>0, <1>3 DEF RabbitTypes
  <2>2. CASE x \in Range(queue[j])  BY <1>1, <2>2
  <2>3. ASSUME NEW c \in Subs, KeyOf(c) = j, unacked[c] = x \/ <<c, x>> \in succeeded
        PROVE  \/ x \in Range(queue'[j])
               \/ \E d \in Subs : KeyOf(d) = j /\ (unacked'[d] = x \/ <<d, x>> \in succeeded)
    BY <1>1, <1>2, <1>3, <2>1, <2>3
  <2> QED  BY <1>0, <2>2, <2>3 DEF HandledOrRedelivered
<1> QED  BY <1>2, <1>7, <1>8, <1>9, <1>10 DEF RabbitInv

\* A delivery takes from the queue a message that nobody else works on.
LEMMA RabbitDeliverStep ==
  ASSUME LifeInv, FlowInv, mq = "rabbit", NEW s \in Subs, Rabbit, RabbitDeliver(s),
         UNCHANGED <<mq, stage, procVars>>
  PROVE  RabbitInv' /\ HandledOrRedelivered'
<1> DEFINE k == KeyOf(s)
<1>0. /\ BusTypes /\ FlowTypes /\ RabbitTypes /\ PlaceInv /\ RabbitInv /\ HandledOrRedelivered
      /\ k \in Keys
  BY Sizes DEF LifeInv, FlowInv
<1>1. PICK e \in Events :
       /\ e \in Range(queue[k]) /\ unacked' = [unacked EXCEPT ![s] = e]
       /\ IsInjective(queue'[k]) /\ Range(queue'[k]) = Range(queue[k]) \ {e}
       /\ \A j \in Keys \ {k} : queue'[j] = queue[j]
       /\ \A x \in Events : (Given(s, x)' <=> (Given(s, x) \/ x = e)) /\ (Active(s, x)' => x = e)
       /\ \A c \in Subs \ {s} : Same(c)
       /\ pump'[s] = pump[s] /\ pump[s] # "none"
  BY DeliverGives
<1>2. /\ UNCHANGED <<routed, bound, channel, conn, stage, mq, succeeded>>
      /\ channel[s] = "open" /\ unacked[s] = None
  BY DEF RabbitDeliver, procVars
<1>3. /\ unacked \in [Subs -> Events \cup {None}] /\ None \notin Events
  BY <1>0, Sizes DEF RabbitTypes
<1>4. \A c \in Subs \ {s}, x \in Events : (Given(c, x)' <=> Given(c, x)) /\ (Active(c, x)' <=> Active(c, x))
  BY <1>0, <1>1, <1>2, SameKeeps DEF PlaceInv
<1>5. /\ \A j \in Keys : QueueOf(j) /\ Range(queue'[j]) \subseteq Range(queue[j])
      /\ \A c \in Subs : UnackedOf(c) /\ ConsumerOf(c)
  BY <1>0, <1>1 DEF RabbitInv
<1>6. ASSUME NEW j \in Keys PROVE QueueOf(j)'
  BY <1>1, <1>2, <1>5 DEF QueueOf, RoutedTo
\* No consumer of the queue has e.
<1>7. \A c \in Subs : KeyOf(c) = k => unacked[c] # e /\ (channel[c] = "open" => ~Given(c, e))
  BY <1>1, <1>3, <1>5 DEF UnackedOf, ConsumerOf
<1>8. ASSUME NEW c \in Subs PROVE UnackedOf(c)'
  <2>0. KeyOf(c) \in Keys  BY Sizes
  <2>1. CASE c = s
    <3>1. unacked'[s] = e /\ e \in routed[k] /\ e \notin Range(queue'[k])
      BY <1>0, <1>1, <1>3, <1>5 DEF QueueOf
    <3>2. \A d \in Subs \ {s} : KeyOf(d) = k => unacked'[d] # e
      BY <1>1, <1>3, <1>7
    <3> QED  BY <1>2, <2>1, <3>1, <3>2 DEF UnackedOf
  <2>2. CASE c # s
    <3>1. unacked'[c] = unacked[c]  BY <1>1, <1>3, <2>2
    <3>2. \A d \in Subs \ {c} : KeyOf(d) = KeyOf(c) /\ unacked[c] # None => unacked'[d] # unacked[c]
      BY <1>1, <1>3, <1>5, <1>7 DEF UnackedOf
    <3> QED  BY <1>2, <1>5, <2>0, <3>1, <3>2 DEF UnackedOf
  <2> QED  BY <2>1, <2>2
<1>9. ASSUME NEW c \in Subs PROVE ConsumerOf(c)'
  <2>0. KeyOf(c) \in Keys  BY Sizes
  <2>1. ASSUME NEW x \in Events, Given(c, x)'
        PROVE  /\ x \in routed'[KeyOf(c)]
               /\ channel'[c] = "open" =>
                    /\ Active(c, x)' => unacked'[c] = x
                    /\ x \notin Range(queue'[KeyOf(c)])
                    /\ \A d \in Subs \ {c} : KeyOf(d) = KeyOf(c) => unacked'[d] # x
    <3>1. CASE c = s /\ x = e
      <4>1. e \in routed[k]  BY <1>0, <1>1, <1>5 DEF QueueOf
      <4> QED  BY <1>1, <1>2, <1>3, <1>7, <3>1, <4>1
    <3>2. CASE ~(c = s /\ x = e)
      <4>1. Given(c, x)  BY <1>1, <1>4, <2>1, <3>2
      <4>2. x \in routed[KeyOf(c)] /\ (channel[c] = "open" =>
              /\ Active(c, x) => unacked[c] = x
              /\ x \notin Range(queue[KeyOf(c)])
              /\ \A d \in Subs \ {c} : KeyOf(d) = KeyOf(c) => unacked[d] # x)
        BY <1>5, <4>1 DEF ConsumerOf
      <4>3. channel[c] = "open" /\ Active(c, x)' => unacked'[c] = x
        <5>1. CASE c = s  BY <1>1, <3>2, <5>1
        <5>2. CASE c # s  BY <1>1, <1>3, <1>4, <4>2, <5>2
        <5> QED  BY <5>1, <5>2
      <4>4. channel[c] = "open" => \A d \in Subs \ {c} : KeyOf(d) = KeyOf(c) => unacked'[d] # x
        BY <1>1, <1>3, <4>2
      <4> QED  BY <1>2, <1>5, <2>0, <4>2, <4>3, <4>4
    <3> QED  BY <3>1, <3>2
  <2>2. pump'[c] = pump[c]  BY <1>1 DEF Same
  <2> QED  BY <1>2, <1>5, <2>1, <2>2 DEF ConsumerOf
<1>10. HandledOrRedelivered'
  <2> SUFFICES ASSUME NEW j \in Keys, NEW x \in routed[j]
               PROVE  \/ x \in Range(queue'[j])
                      \/ \E c \in Subs : KeyOf(c) = j /\ (unacked'[c] = x \/ <<c, x>> \in succeeded)
    BY <1>2 DEF HandledOrRedelivered
  <2>1. x # None  BY <1>0, <1>3 DEF RabbitTypes
  <2>2. CASE x \in Range(queue[j])
    <3>1. CASE j = k /\ x = e  BY <1>1, <1>3, <3>1
    <3> QED  BY <1>1, <2>2, <3>1
  <2>3. ASSUME NEW c \in Subs, KeyOf(c) = j, unacked[c] = x \/ <<c, x>> \in succeeded
        PROVE  \E d \in Subs : KeyOf(d) = j /\ (unacked'[d] = x \/ <<d, x>> \in succeeded)
    BY <1>1, <1>2, <1>3, <2>1, <2>3
  <2> QED  BY <1>0, <2>2, <2>3 DEF HandledOrRedelivered
<1> QED  BY <1>2, <1>6, <1>8, <1>9, <1>10 DEF RabbitInv

\* What an acknowledgement settles was handled.
LEMMA RabbitAckStep ==
  ASSUME LifeInv, FlowInv, mq = "rabbit", NEW s \in Subs, NEW e \in Events, HandlerAcks(s, e)
  PROVE  RabbitInv' /\ HandledOrRedelivered'
<1>0. /\ BusTypes /\ FlowTypes /\ RabbitTypes /\ PlaceInv /\ RabbitInv /\ HandledOrRedelivered
  BY DEF LifeInv, FlowInv
<1>1. Moved(s)  BY <1>0, TaskMoves
<1>2. /\ UNCHANGED <<mq, stage, queue, bound, routed, channel, conn, succeeded, inHand, msgChan, held, delivery, pump>>
      /\ \/ UNCHANGED unacked
         \/ channel[s] = "open" /\ unacked' = [unacked EXCEPT ![s] = None]
      /\ task[s][e] = "acking"
      /\ \E o \in {"handled", "unacknowledged"} : task' = [task EXCEPT ![s][e] = o]
  <2>1. mq # "kafka"  OBVIOUS
  <2> QED  BY <2>1 DEF HandlerAcks, Settle, Ack, Kafka, RabbitAck, busVars, chanVars
<1>3. /\ unacked \in [Subs -> Events \cup {None}] /\ None \notin Events
      /\ task \in [Subs -> [Events -> {"none", "handling", "acking"} \cup Outcomes]]
  BY <1>0, Types
<1>4. /\ \A j \in Keys : QueueOf(j)
      /\ \A c \in Subs : UnackedOf(c) /\ ConsumerOf(c) /\ PlaceOf(c)
  BY <1>0 DEF RabbitInv, PlaceInv
<1>5. Given(s, e) /\ Active(s, e) /\ ~Active(s, e)'
  <2>1. task'[s][e] \in {"handled", "unacknowledged"}  BY <1>2, <1>3
  <2>2. ~Waiting(s, e)  BY <1>2, <1>4 DEF PlaceOf
  <2> QED  BY <1>2, <2>1, <2>2 DEF Given, Active, Waiting
<1>6. \A c \in Subs, x \in Events : (Given(c, x)' => Given(c, x)) /\ (Active(c, x)' => Active(c, x))
  <2>1. \A c \in Subs \ {s}, x \in Events : (Given(c, x)' <=> Given(c, x)) /\ (Active(c, x)' <=> Active(c, x))
    BY <1>0, <1>1, SameKeeps DEF PlaceInv, Moved
  <2> QED  BY <1>1, <2>1 DEF Moved
<1>7. CASE UNCHANGED unacked
  <2>1. RabbitInv'
    BY <1>0, <1>2, <1>4, <1>6, <1>7, RabbitKept DEF ConsumerOf, RabbitTypes
  <2>2. HandledOrRedelivered'  BY <1>0, <1>2, <1>7 DEF HandledOrRedelivered
  <2> QED  BY <2>1, <2>2
<1>8. CASE channel[s] = "open" /\ unacked' = [unacked EXCEPT ![s] = None]
  <2>1. unacked' = [unacked EXCEPT ![s] = None] /\ unacked[s] = e
    BY <1>2, <1>4, <1>5, <1>8 DEF ConsumerOf
  <2>2. \A x \in Events : ~Active(s, x)'
    <3>1. \A x \in Events : Active(s, x) => Given(s, x)  BY DEF Active, Given
    <3>2. \A x \in Events : Active(s, x) => x = e
      BY <1>4, <1>8, <2>1, <3>1 DEF ConsumerOf
    <3> QED  BY <1>5, <1>6, <3>2
  <2>3. \A j \in Keys : QueueOf(j)'
    BY <1>2, <1>4 DEF QueueOf, RoutedTo
  <2>4. \A c \in Subs : UnackedOf(c)'
    BY <1>2, <1>3, <1>4, <2>1 DEF UnackedOf
  <2>5. ASSUME NEW c \in Subs PROVE ConsumerOf(c)'
    <3>1. ASSUME NEW x \in Events, Given(c, x)'
          PROVE  /\ x \in routed[KeyOf(c)]
                 /\ channel[c] = "open" =>
                      /\ Active(c, x)' => unacked'[c] = x
                      /\ x \notin Range(queue[KeyOf(c)])
                      /\ \A d \in Subs \ {c} : KeyOf(d) = KeyOf(c) => unacked'[d] # x
      <4>1. Given(c, x) /\ (Active(c, x)' => Active(c, x))  BY <1>6, <3>1
      <4>2. x \in routed[KeyOf(c)] /\ (channel[c] = "open" =>
              /\ Active(c, x) => unacked[c] = x
              /\ x \notin Range(queue[KeyOf(c)])
              /\ \A d \in Subs \ {c} : KeyOf(d) = KeyOf(c) => unacked[d] # x)
        BY <1>4, <4>1 DEF ConsumerOf
      <4>3. channel[c] = "open" /\ Active(c, x)' => unacked'[c] = x
        BY <1>3, <2>1, <2>2, <4>1, <4>2
      <4>4. channel[c] = "open" => \A d \in Subs \ {c} : KeyOf(d) = KeyOf(c) => unacked'[d] # x
        BY <1>3, <2>1, <4>2
      <4> QED  BY <4>2, <4>3, <4>4
    <3> QED  BY <1>2, <1>4, <3>1 DEF ConsumerOf
  <2>6. HandledOrRedelivered'
    <3>1. <<s, e>> \in succeeded  BY <1>2, <1>4 DEF PlaceOf
    <3> SUFFICES ASSUME NEW j \in Keys, NEW x \in routed[j]
                 PROVE  \/ x \in Range(queue[j])
                        \/ \E c \in Subs : KeyOf(c) = j /\ (unacked'[c] = x \/ <<c, x>> \in succeeded)
      BY <1>2 DEF HandledOrRedelivered
    <3>2. ASSUME NEW c \in Subs, KeyOf(c) = j, unacked[c] = x \/ <<c, x>> \in succeeded
          PROVE  \E d \in Subs : KeyOf(d) = j /\ (unacked'[d] = x \/ <<d, x>> \in succeeded)
      BY <1>3, <2>1, <3>1, <3>2
    <3> QED  BY <1>0, <3>2 DEF HandledOrRedelivered
  <2> QED  BY <1>2, <2>3, <2>4, <2>5, <2>6 DEF RabbitInv
<1> QED  BY <1>2, <1>7, <1>8

\* A publication puts a new message into the queues bound to its topic.
LEMMA RabbitPublishStep ==
  ASSUME LifeInv, FlowInv, mq = "rabbit", NEW p \in Clients, EmitPublish(p)
  PROVE  RabbitInv' /\ HandledOrRedelivered'
<1>0. /\ BusTypes /\ FlowTypes /\ RabbitTypes /\ RabbitInv /\ HandledOrRedelivered
      /\ stage \in [Events -> {"new", "emitting", "published", "failed"}]
      /\ queue \in [Keys -> Seq(Events)]
  BY DEF LifeInv, FlowInv, BusTypes, RabbitTypes
<1>1. PICK e \in Events : e = ev[p] /\ stage[e] = "emitting"
  <2>1. pc[p] = "emit.publish"  BY DEF EmitPublish
  <2> QED  BY <2>1 DEF LifeInv, CallInv, EmitPC
<1>2. PICK ok \in BOOLEAN : /\ RabbitPublish(e, ok)
                            /\ stage' = [stage EXCEPT ![e] = IF ok THEN "published" ELSE "failed"]
  BY <1>1 DEF EmitPublish, Publish, Kafka
<1>3. UNCHANGED <<mq, bound, channel, unacked, delivery, conn, pump, inHand, msgChan, proc, held, task, succeeded>>
  BY <1>2 DEF EmitPublish, Publish, RabbitPublish, busVars, chanVars, procVars
<1>4. /\ \A k \in Keys : QueueOf(k)
      /\ \A c \in Subs : UnackedOf(c) /\ ConsumerOf(c) /\ KeyOf(c) \in Keys
  BY <1>0, Sizes DEF RabbitInv
\* Nobody has seen e.
<1>5. /\ \A k \in Keys : e \notin routed[k] /\ e \notin Range(queue[k])
      /\ \A c \in Subs : ~Given(c, e) /\ unacked[c] # e
  <2>1. \A k \in Keys : e \notin routed[k] /\ e \notin Range(queue[k])
    BY <1>1, <1>4 DEF QueueOf
  <2>2. e # None  BY Sizes
  <2> QED  BY <1>4, <2>1, <2>2 DEF UnackedOf, ConsumerOf
<1>6. \A c \in Subs, x \in Events : (Given(c, x)' <=> Given(c, x)) /\ (Active(c, x)' <=> Active(c, x))
  BY <1>3 DEF Given, Active, Waiting
<1>7. /\ \A x \in Events : stage[x] = "published" => stage'[x] = "published"
      /\ \A k \in Keys : routed[k] \subseteq Events
  BY <1>0, <1>1, <1>2 DEF RabbitTypes
<1>8. CASE ok
  <2>1. \A k \in Keys : IF RoutedTo(e, k)
                        THEN queue'[k] = Append(queue[k], e) /\ routed'[k] = routed[k] \cup {e}
                        ELSE queue'[k] = queue[k] /\ routed'[k] = routed[k]
    BY <1>2, <1>8 DEF RabbitPublish, RoutedTo
  <2>2. \A k \in Keys : /\ IsInjective(Append(queue[k], e))
                        /\ Range(Append(queue[k], e)) = Range(queue[k]) \cup {e}
    BY <1>0, <1>4, <1>5, AppendDistinct DEF QueueOf
  <2>3. stage'[e] = "published"  BY <1>0, <1>2, <1>8
  <2>4. ASSUME NEW k \in Keys PROVE QueueOf(k)'
    <3>1. CASE RoutedTo(e, k)
      <4>1. queue'[k] = Append(queue[k], e) /\ routed'[k] = routed[k] \cup {e}  BY <2>1, <3>1
      <4> QED  BY <1>3, <1>4, <1>7, <2>2, <2>3, <3>1, <4>1 DEF QueueOf, RoutedTo
    <3>2. CASE ~RoutedTo(e, k)
      BY <1>3, <1>4, <1>7, <2>1, <3>2 DEF QueueOf, RoutedTo
    <3> QED  BY <3>1, <3>2
  <2>5. \A k \in Keys : /\ Range(queue[k]) \subseteq Range(queue'[k])
                        /\ Range(queue'[k]) \subseteq Range(queue[k]) \cup {e}
                        /\ routed[k] \subseteq routed'[k] /\ routed'[k] \subseteq routed[k] \cup {e}
                        /\ e \in routed'[k] => e \in Range(queue'[k])
    BY <1>5, <2>1, <2>2
  <2>6. \A c \in Subs : UnackedOf(c)'
    BY <1>3, <1>4, <1>5, <2>5 DEF UnackedOf
  <2>7. ASSUME NEW c \in Subs PROVE ConsumerOf(c)'
    <3>1. ASSUME NEW x \in Events, Given(c, x)
          PROVE  /\ x \in routed'[KeyOf(c)]
                 /\ channel[c] = "open" =>
                      /\ Active(c, x) => unacked[c] = x
                      /\ x \notin Range(queue'[KeyOf(c)])
                      /\ \A d \in Subs \ {c} : KeyOf(d) = KeyOf(c) => unacked[d] # x
      <4>1. x # e  BY <1>5, <3>1
      <4> QED  BY <1>4, <2>5, <3>1, <4>1 DEF ConsumerOf
    <3> QED  BY <1>3, <1>4, <1>6, <3>1 DEF ConsumerOf
  <2>8. HandledOrRedelivered'
    BY <1>0, <1>3, <2>5 DEF HandledOrRedelivered
  <2> QED  BY <2>4, <2>6, <2>7, <2>8 DEF RabbitInv
<1>9. CASE ~ok
  <2>1. UNCHANGED <<queue, routed>>  BY <1>2, <1>9 DEF RabbitPublish
  <2>2. RabbitInv'
    BY <1>0, <1>3, <1>4, <1>6, <1>7, <2>1, RabbitKept DEF ConsumerOf, RabbitTypes
  <2>3. HandledOrRedelivered'  BY <1>0, <1>3, <2>1 DEF HandledOrRedelivered
  <2> QED  BY <2>2, <2>3
<1> QED  BY <1>8, <1>9

\* A new consumer starts with an open channel and no message.
LEMMA RabbitSubscribeStep ==
  ASSUME LifeInv, FlowInv, mq = "rabbit", NEW p \in Clients, OnSubscribe(p)
  PROVE  RabbitInv' /\ HandledOrRedelivered'
<1>0. /\ BusTypes /\ FlowTypes /\ RabbitTypes /\ PlaceInv /\ RabbitInv /\ HandledOrRedelivered
  BY DEF LifeInv, FlowInv
<1>1. PICK s \in Subs :
       /\ \E ok \in BOOLEAN : RabbitSubscribe(s, ok)
       /\ UNCHANGED <<stage, mq, succeeded>>
       /\ \A x \in Events : ~Given(s, x) /\ ~Given(s, x)'
       /\ \A c \in Subs \ {s} : Same(c)
       /\ pump[s] = "none"
  BY SubscribeOpens DEF Kafka
<1>2. PICK ok \in BOOLEAN : RabbitSubscribe(s, ok)  BY <1>1
<1>3. /\ UNCHANGED <<queue, routed, unacked, conn>>
      /\ \A k \in Keys : bound[k] \subseteq bound'[k]
  BY <1>0, <1>2 DEF RabbitSubscribe, RabbitTypes
<1>4. HandledOrRedelivered'  BY <1>0, <1>1, <1>3 DEF HandledOrRedelivered
<1>5. /\ \A k \in Keys : QueueOf(k)
      /\ \A c \in Subs : UnackedOf(c) /\ ConsumerOf(c)
  BY <1>0 DEF RabbitInv
<1>6. \A c \in Subs, x \in Events : (Given(c, x)' => Given(c, x)) /\ (Active(c, x)' => Active(c, x))
  <2>1. \A c \in Subs \ {s}, x \in Events : (Given(c, x)' <=> Given(c, x)) /\ (Active(c, x)' <=> Active(c, x))
    BY <1>0, <1>1, SameKeeps DEF PlaceInv
  <2>2. \A x \in Events : ~Active(s, x)'  BY <1>1 DEF Active, Given
  <2> QED  BY <1>1, <2>1, <2>2
<1>7. CASE ok
  <2>1. /\ conn /\ channel' = [channel EXCEPT ![s] = "open"] /\ pump' = [pump EXCEPT ![s] = "select"]
    BY <1>2, <1>7 DEF RabbitSubscribe
  <2>2. /\ channel \in [Subs -> {"none", "open", "closed"}]
        /\ pump \in [Subs -> {"none", "check", "fetch", "select", "send", "done"}]
    BY <1>0, Types DEF RabbitTypes
  <2>3. \A k \in Keys : QueueOf(k)'
    BY <1>1, <1>3, <1>5 DEF QueueOf, RoutedTo
  <2>4. \A c \in Subs : UnackedOf(c)'
    BY <1>3, <1>5, <2>1, <2>2 DEF UnackedOf
  <2>5. ASSUME NEW c \in Subs PROVE ConsumerOf(c)'
    <3>1. CASE c = s
      BY <1>1, <1>3, <2>1, <2>2, <3>1 DEF ConsumerOf
    <3>2. CASE c # s
      BY <1>3, <1>5, <1>6, <2>1, <2>2, <3>2 DEF ConsumerOf
    <3> QED  BY <3>1, <3>2
  <2> QED  BY <1>4, <2>3, <2>4, <2>5 DEF RabbitInv
<1>8. CASE ~ok
  <2>1. UNCHANGED <<channel, pump>>  BY <1>2, <1>8 DEF RabbitSubscribe
  <2>2. RabbitInv'
    BY <1>0, <1>1, <1>3, <1>5, <1>6, <2>1, RabbitKept DEF ConsumerOf, RabbitTypes
  <2> QED  BY <1>4, <2>2
<1> QED  BY <1>7, <1>8

\* When the connection is closed every unacknowledged message is back in its queue.
LEMMA RabbitCloseStep ==
  ASSUME LifeInv, FlowInv, mq = "rabbit", NEW p \in Clients, CloseAdapter(p)
  PROVE  RabbitInv' /\ HandledOrRedelivered'
<1>0. /\ BusTypes /\ FlowTypes /\ RabbitTypes /\ RabbitInv /\ HandledOrRedelivered
      /\ unacked \in [Subs -> Events \cup {None}] /\ None \notin Events
      /\ channel \in [Subs -> {"none", "open", "closed"}]
  BY Sizes DEF LifeInv, FlowInv, RabbitTypes
<1>1. /\ \E ok \in BOOLEAN : RabbitClose(ok)
      /\ UNCHANGED <<mq, stage, pump, inHand, msgChan, proc, held, task, succeeded>>
  BY DEF CloseAdapter, CloseConnections, Kafka, busVars, chanVars, procVars
<1>2. /\ \A k \in Keys : QueueOf(k)
      /\ \A c \in Subs : UnackedOf(c) /\ ConsumerOf(c)
  BY <1>0 DEF RabbitInv
<1>3. CASE UNCHANGED <<conn, queue, channel, unacked>>
  <2>1. UNCHANGED <<bound, routed, delivery>>  BY <1>1 DEF RabbitClose
  <2>2. \A c \in Subs, x \in Events : (Given(c, x)' <=> Given(c, x)) /\ (Active(c, x)' <=> Active(c, x))
    BY <1>1, <2>1 DEF Given, Active, Waiting
  <2>3. RabbitInv'
    BY <1>0, <1>1, <1>2, <1>3, <2>1, <2>2, RabbitKept DEF ConsumerOf, RabbitTypes
  <2>4. HandledOrRedelivered'  BY <1>0, <1>1, <1>3, <2>1 DEF HandledOrRedelivered
  <2> QED  BY <2>3, <2>4
<1>4. CASE /\ conn' = FALSE /\ unacked' = [s \in Subs |-> None]
           /\ queue' = [k \in Keys |-> Requeued(k, Subs)]
           /\ channel' = [s \in Subs |-> IF channel[s] = "open" THEN "closed" ELSE channel[s]]
  <2>1. /\ UNCHANGED <<bound, routed, delivery>> /\ conn' = FALSE
        /\ \A c \in Subs : unacked'[c] = None /\ channel'[c] # "open" /\ (channel'[c] = "none" <=> channel[c] = "none")
        /\ \A k \in Keys : queue'[k] = Requeued(k, Subs)
    BY <1>0, <1>1, <1>4 DEF RabbitClose
  <2>2. ASSUME NEW k \in Keys
        PROVE  /\ IsInjective(queue'[k])
               /\ Range(queue'[k]) =
                    Range(queue[k]) \cup ({unacked[s] : s \in {c \in Subs : KeyOf(c) = k}} \ {None})
    <3>1. None \notin Range(queue[k])  BY <1>0 DEF RabbitTypes, Range
    <3>2. IsInjective(queue[k]) /\ \A s \in Subs : KeyOf(s) = k => unacked[s] \notin Range(queue[k])
      BY <1>2, <3>1 DEF QueueOf, UnackedOf
    <3> QED  BY <1>0, <2>1, <3>2, RequeuedOf
  <2>3. \A c \in Subs, x \in Events : Given(c, x)' <=> Given(c, x)
    BY <1>1, <2>1 DEF Given, Waiting
  <2>4. ASSUME NEW k \in Keys PROVE QueueOf(k)'
    <3>1. \A c \in Subs : KeyOf(c) = k /\ unacked[c] # None => unacked[c] \in routed[k]
      BY <1>2 DEF UnackedOf
    <3> QED  BY <1>1, <1>2, <2>1, <2>2, <3>1 DEF QueueOf, RoutedTo
  <2>5. \A c \in Subs : UnackedOf(c)'  BY <2>1 DEF UnackedOf
  <2>6. \A c \in Subs : ConsumerOf(c)'
    BY <1>1, <1>2, <2>1, <2>3 DEF ConsumerOf
  <2>7. HandledOrRedelivered'
    <3> SUFFICES ASSUME NEW j \in Keys, NEW x \in routed[j]
                 PROVE  \/ x \in Range(queue'[j])
                        \/ \E c \in Subs : KeyOf(c) = j /\ <<c, x>> \in succeeded
      BY <1>1, <2>1 DEF HandledOrRedelivered
    <3>1. x # None  BY <1>0 DEF RabbitTypes
    <3>2. ASSUME NEW c \in Subs, KeyOf(c) = j, unacked[c] = x PROVE x \in Range(queue'[j])
      BY <2>2, <3>1, <3>2
    <3>3. CASE x \in Range(queue[j])  BY <2>2, <3>3
    <3> QED  BY <1>0, <3>2, <3>3 DEF HandledOrRedelivered
  <2> QED  BY <2>4, <2>5, <2>6, <2>7 DEF RabbitInv
<1> QED  BY <1>1, <1>3, <1>4 DEF RabbitClose

\* Every step keeps what holds between a RabbitMQ queue and its consumers.
LEMMA RabbitStep ==
  ASSUME LifeInv, FlowInv, [Next]_vars
  PROVE  RabbitInv' /\ HandledOrRedelivered'
<1>0. /\ BusTypes /\ FlowTypes /\ RabbitTypes /\ PlaceInv /\ KafkaInv /\ RabbitInv /\ HandledOrRedelivered
      /\ mq' = mq /\ \A k \in Keys : routed[k] \subseteq Events
  BY AdapterKept DEF LifeInv, FlowInv, RabbitTypes
<1>1. ASSUME UNCHANGED <<queue, routed, conn, channel, unacked, bound, pump>>, \A c \in Subs : Same(c),
             \A x \in Events : stage'[x] = stage[x] \/ stage[x] = "new", succeeded \subseteq succeeded'
      PROVE  RabbitInv' /\ HandledOrRedelivered'
  <2>1. \A c \in Subs, x \in Events : (Given(c, x)' => Given(c, x)) /\ (Active(c, x)' => Active(c, x))
    BY <1>0, <1>1, SameKeeps DEF PlaceInv
  <2>2. ASSUME mq = "rabbit" PROVE RabbitInv'
    <3>1. \A c \in Subs : pump[c] # "check" /\ pump[c] # "fetch"
      BY <1>0, <2>2 DEF RabbitInv, ConsumerOf
    <3> QED  BY <1>0, <1>1, <2>1, <2>2, <3>1, RabbitKept
  <2>3. mq # "rabbit" => RabbitInv'  BY <1>0 DEF RabbitInv
  <2>4. HandledOrRedelivered'  BY <1>0, <1>1 DEF HandledOrRedelivered
  <2> QED  BY <2>2, <2>3, <2>4
<1>2. CASE Still
  <2>1. /\ UNCHANGED <<queue, routed, conn, channel, unacked, bound, pump, succeeded>>
        /\ \A c \in Subs : Same(c)
    BY <1>2 DEF Still, Same, rabbitVars, procVars
  <2> QED  BY <1>1, <1>2, <2>1 DEF Still
<1>3. ASSUME NEW s \in Subs, Inner(s) PROVE RabbitInv' /\ HandledOrRedelivered'
  <2>1. Moved(s) /\ UNCHANGED Untouched  BY <1>0, <1>3, InnerMoves
  <2>2. \A c \in Subs, x \in Events : (Given(c, x)' => Given(c, x)) /\ (Active(c, x)' => Active(c, x))
    <3>1. \A c \in Subs \ {s}, x \in Events : (Given(c, x)' <=> Given(c, x)) /\ (Active(c, x)' <=> Active(c, x))
      BY <1>0, <2>1, SameKeeps DEF PlaceInv, Moved
    <3> QED  BY <2>1, <3>1 DEF Moved
  <2>3. ASSUME mq = "rabbit" PROVE RabbitInv'
    <3>1. \A c \in Subs : pump[c] # "check" /\ pump[c] # "fetch"
      BY <1>0, <2>3 DEF RabbitInv, ConsumerOf
    <3>2. \A c \in Subs : /\ pump'[c] # "check" /\ pump'[c] # "fetch"
                          /\ pump'[c] = "none" => pump[c] = "none"
      BY <2>1, <2>3, <3>1 DEF Moved, Same
    <3> QED  BY <1>0, <2>1, <2>2, <2>3, <3>2, RabbitKept DEF Untouched
  <2>4. mq # "rabbit" => RabbitInv'  BY <1>0 DEF RabbitInv
  <2>5. HandledOrRedelivered'
    BY <1>0, <2>1 DEF Untouched, Moved, HandledOrRedelivered
  <2> QED  BY <2>3, <2>4, <2>5
<1>4. CASE Outer
  <2>1. CASE mq = "rabbit"
    <3>1. ASSUME NEW s \in Subs, Rabbit, RabbitStop(s) \/ RabbitDeliver(s), UNCHANGED <<mq, stage, procVars>>
          PROVE  RabbitInv' /\ HandledOrRedelivered'
      BY <2>1, <3>1, RabbitStopStep, RabbitDeliverStep
    <3>2. ~Kafka  BY <2>1 DEF Kafka
    <3> QED
      BY <1>4, <2>1, <3>1, <3>2, RabbitAckStep, RabbitPublishStep, RabbitSubscribeStep, RabbitCloseStep
      DEF Outer
  <2>2. CASE mq # "rabbit"
    <3>1. RabbitInv'  BY <1>0, <2>2 DEF RabbitInv
    <3>2. UNCHANGED <<queue, routed, unacked>>
      <4>1. Kafka => UNCHANGED <<queue, routed, unacked>>  BY DEF Kafka, rabbitVars
      <4>2. ~Rabbit  BY <2>2 DEF Rabbit
      <4> QED
        BY <1>4, <4>1, <4>2 DEF Outer, HandlerAcks, EmitPublish, OnSubscribe, CloseAdapter,
             Ack, Publish, Subscribe, CloseConnections
    <3>3. UNCHANGED succeeded
      BY <1>4 DEF Outer, HandlerAcks, EmitPublish, OnSubscribe, CloseAdapter, procVars
    <3> QED  BY <1>0, <3>1, <3>2, <3>3 DEF HandledOrRedelivered
  <2> QED  BY <2>1, <2>2
<1> QED  BY <1>0, <1>2, <1>3, <1>4, KindOfFlow

------------------------------------------------------------------------------
(* The theorems *)

\* A new bus has no message anywhere.
LEMMA FlowInit == ASSUME Init PROVE FlowInv
<1> USE Sizes
<1>1. /\ mq \in Adapters /\ stage = [e \in Events |-> "new"]
      /\ held = [s \in Subs |-> None] /\ succeeded = {}
      /\ task = [s \in Subs |-> [e \in Events |-> "none"]]
      /\ pump = [s \in Subs |-> "none"] /\ proc = [s \in Subs |-> "none"]
      /\ inHand = [s \in Subs |-> None] /\ msgChan = [s \in Subs |-> <<>>]
      /\ chanClosed = [s \in Subs |-> FALSE]
  BY DEF Init, ChannelInit
<1>2. /\ log = [t \in Topics |-> <<>>] /\ committed = [gt \in Groups \X Topics |-> 0]
      /\ readers = [k \in Keys |-> None] /\ producerClosed = FALSE
  BY DEF Init, KafkaInit
<1>3. /\ queue = [k \in Keys |-> <<>>] /\ bound = [k \in Keys |-> {}] /\ routed = [k \in Keys |-> {}]
      /\ channel = [s \in Subs |-> "none"] /\ unacked = [s \in Subs |-> None]
      /\ delivery = [s \in Subs |-> None] /\ conn = TRUE
  BY DEF Init, RabbitInit
<1>4. IsInjective(<<>>) /\ Range(<<>>) = {} /\ Len(<<>>) = 0
  BY DEF IsInjective, Range
<1>5. FlowTypes  BY <1>1 DEF FlowTypes
<1>6. KafkaTypes
  <2>1. committed \in [Groups \X Topics -> Nat]  BY <1>2
  <2>2. log \in [Topics -> Seq(Events)]  BY <1>2
  <2>3. readers \in [Keys -> ReaderType \cup {None}] /\ producerClosed \in BOOLEAN  BY <1>2
  <2> QED  BY <2>1, <2>2, <2>3 DEF KafkaTypes
<1>7. RabbitTypes  BY <1>3 DEF RabbitTypes
<1>8. \A s \in Subs, e \in Events : ~Waiting(s, e) /\ ~Given(s, e)
  BY <1>1, <1>3, <1>4 DEF Waiting, Given
<1>9. PlaceInv
  BY <1>1, <1>3, <1>4, <1>8 DEF PlaceInv, PlaceOf
<1>10. LogInv
  <2>1. \A g \in Groups, t \in Topics : committed[<<g, t>>] = 0  BY <1>2
  <2>2. \A t \in Topics : IsInjective(log[t]) /\ Range(log[t]) = {} /\ Len(log[t]) = 0
    BY <1>2, <1>4
  <2>4. ASSUME NEW g \in Groups, NEW t \in Topics  PROVE committed[<<g, t>>] <= Len(log[t])
    <3>1. committed[<<g, t>>] = 0  BY <2>1
    <3>2. Len(log[t]) = 0  BY <2>2
    <3> QED  BY <3>1, <3>2
  <2>3. \A k \in Keys : readers[k] = None  BY <1>2
  <2> QED  BY <2>2, <2>3, <2>4 DEF LogInv
<1>11. KafkaInv
  <2>1. \A k \in Keys : Fetched(k) = {}  BY <1>2 DEF Fetched
  <2> QED  BY <1>1, <1>3, <1>8, <2>1 DEF KafkaInv, KafkaOf, FetchedOf
<1>12. RabbitInv
  BY <1>1, <1>3, <1>4, <1>8 DEF RabbitInv, QueueOf, UnackedOf, ConsumerOf
<1>13. HandledOrRedelivered  BY <1>3 DEF HandledOrRedelivered
<1> QED  BY <1>5, <1>6, <1>7, <1>9, <1>10, <1>11, <1>12, <1>13 DEF FlowInv

\* Every step keeps FlowInv.
LEMMA FlowStepKeeps == ASSUME LifeInv, FlowInv, [Next]_vars PROVE FlowInv'
BY FlowTypesStep, PlaceStep, LogStep, KafkaStep, RabbitStep DEF FlowInv

\* FlowInv says where every message is, at every moment: on the adapter's side
\* (kafka_adapter.go, custom_adapter/adapter.go) and on the bus's (distributed.go).
THEOREM FlowInvariant == Spec => []FlowInv
<1>1. Init => FlowInv  BY FlowInit
<1>2. LifeInv /\ FlowInv /\ [Next]_vars => FlowInv'  BY FlowStepKeeps
<1> QED  BY <1>1, <1>2, LifeInvariant, PTL DEF Spec

\* Every variable keeps its type, and a goroutine that works on a message has one.
THEOREM TypeCorrect == Spec => []TypeOK
<1>1. LifeInv /\ FlowInv => TypeOK  BY DEF LifeInv, FlowInv, TypeOK
<1> QED  BY <1>1, LifeInvariant, FlowInvariant, PTL

\* What was put into a queue of RabbitMQ and no handler succeeded on is in the
\* queue or comes back to it: the acknowledgement waits for the handler.
THEOREM NothingLost == Spec => []HandledOrRedelivered
<1>1. FlowInv => HandledOrRedelivered  BY DEF FlowInv
<1> QED  BY <1>1, FlowInvariant, PTL

\* A subscription has a message it was given in one place, and no other message
\* in any.
LEMMA OnePlace ==
  ASSUME FlowTypes, RabbitTypes, NEW s \in Subs, PlaceOf(s), delivery[s] = None, NEW e \in Events
  PROVE  IF Given(s, e) THEN \E x : Places(s, e) = {x} ELSE Places(s, e) = {}
<1> DEFINE q == msgChan[s]
           inChan == {i \in DOMAIN q : q[i] = e}
<1>1. q \in Seq(Events) /\ e # None /\ e # delivery[s]  BY Sizes DEF FlowTypes
<1>2. Places(s, e) = inChan \cup (IF inHand[s] = e THEN {"hand"} ELSE {})
                       \cup (IF held[s] = e THEN {"held"} ELSE {})
                       \cup (IF task[s][e] # "none" THEN {"task"} ELSE {})
  BY DEF Places
<1>3. inChan # {} <=> e \in Range(q)  BY DEF Range
<1>4. IsInjective(q)  BY DEF PlaceOf
<1>5. \A i, j \in inChan : i = j  BY <1>4 DEF IsInjective
<1> HIDE DEF inChan
<1>6. CASE e \in Range(q)
  <2>1. PICK i \in inChan : inChan = {i}  BY <1>3, <1>5, <1>6
  <2>2. inHand[s] # e /\ held[s] # e /\ task[s][e] = "none" /\ Given(s, e)
    BY <1>6 DEF PlaceOf, Waiting, Given
  <2>3. Places(s, e) = {i}  BY <1>2, <2>1, <2>2
  <2> QED  BY <2>2, <2>3
<1>7. CASE e \notin Range(q)
  <2>1. inChan = {}  BY <1>3, <1>7
  <2>2. CASE inHand[s] = e
    <3>1. held[s] # e /\ task[s][e] = "none" /\ Given(s, e)
      BY <2>2 DEF PlaceOf, Waiting, Given
    <3>2. Places(s, e) = {"hand"}  BY <1>2, <2>1, <2>2, <3>1
    <3> QED  BY <3>1, <3>2
  <2>3. CASE inHand[s] # e /\ held[s] = e
    <3>1. task[s][e] = "none" /\ Given(s, e)
      BY <2>3 DEF PlaceOf, Waiting, Given
    <3>2. Places(s, e) = {"held"}  BY <1>2, <2>1, <2>3, <3>1
    <3> QED  BY <3>1, <3>2
  <2>4. CASE inHand[s] # e /\ held[s] # e /\ task[s][e] # "none"
    <3>1. Given(s, e)  BY <2>4 DEF Given
    <3>2. Places(s, e) = {"task"}  BY <1>2, <2>1, <2>4
    <3> QED  BY <3>1, <3>2
  <2>5. CASE inHand[s] # e /\ held[s] # e /\ task[s][e] = "none"
    <3>1. ~Given(s, e)  BY <1>1, <1>7, <2>5 DEF Given, Waiting
    <3>2. Places(s, e) = {}  BY <1>2, <2>1, <2>5
    <3> QED  BY <3>1, <3>2
  <2> QED  BY <2>2, <2>3, <2>4, <2>5
<1> QED  BY <1>6, <1>7

\* A message that a Kafka reader handed out is at one of the subscriptions that
\* share the reader, in one place, whatever they, Off and Close do meanwhile.
THEOREM OncePerGroup == Spec => []FetchedIsOnce
<1>1. ASSUME FlowInv PROVE FetchedIsOnce
  <2> SUFFICES ASSUME mq = "kafka", NEW k \in Keys, NEW e \in Events
               PROVE  Cardinality(UNION {{s} \X Places(s, e) : s \in {c \in Subs : KeyOf(c) = k}})
                        = IF e \in Fetched(k) THEN 1 ELSE 0
    BY DEF FetchedIsOnce
  <2> DEFINE C == {c \in Subs : KeyOf(c) = k}
             all == UNION {{s} \X Places(s, e) : s \in C}
  <2>1. \A s \in C : KafkaOf(s) /\ PlaceOf(s) /\ delivery[s] = None
    BY <1>1 DEF FlowInv, KafkaInv, KafkaOf, PlaceInv
  <2>2. \A s \in C : IF Given(s, e) THEN \E x : Places(s, e) = {x} ELSE Places(s, e) = {}
    BY <1>1, <2>1, OnePlace DEF FlowInv
  <2>3. CASE e \in Fetched(k)
    <3>1. PICK s \in C : Given(s, e)
      BY <1>1, <2>3 DEF FlowInv, KafkaInv, FetchedOf
    <3>2. \A c \in C \ {s} : ~Given(c, e)
      BY <2>1, <3>1 DEF KafkaOf
    <3>3. PICK x : Places(s, e) = {x}  BY <2>2, <3>1
    <3>4. all = {<<s, x>>}  BY <2>2, <3>1, <3>2, <3>3
    <3>5. Cardinality({<<s, x>>}) = 1  BY FS_Singleton
    <3> QED  BY <2>3, <3>4, <3>5
  <2>4. CASE e \notin Fetched(k)
    <3>1. \A s \in C : Places(s, e) = {}
      BY <2>1, <2>2, <2>4 DEF KafkaOf
    <3>2. all = {}  BY <3>1
    <3> QED  BY <2>4, <3>2, FS_EmptySet
  <2> QED  BY <2>3, <2>4
<1> QED  BY <1>1, FlowInvariant, PTL

------------------------------------------------------------------------------
(* Without a clash of names: CommitWasHandled, TopicIsolation and the refinement *)

\* Each name stands for one topic and one group ...
NoClash ==
  \A s, c \in Subs : KeyOf(s) = KeyOf(c) => SubTopic[s] = SubTopic[c] /\ SubGroup[s] = SubGroup[c]

\* ... the exchange, if there is one, routes by equal keys ...
ExactTopics == "rabbit" \in Adapters => \A route \in Routes : route[1] = route[2]

\* ... and each name leads to the reader and the queue of these.  CommitWasHandled,
\* TopicIsolation and ImplementsEventBus rest on it.
NameInv ==
  /\ \A s \in Subs : /\ Reader(s) # None => Reader(s).topic = SubTopic[s] /\ Reader(s).group = SubGroup[s]
                     /\ bound[KeyOf(s)] \subseteq {SubTopic[s]}
  /\ CommitWasHandled

\* What a subscription is given is an event of its topic that Emit was given.
LEMMA GivenOfTopic ==
  ASSUME mq = "rabbit" => ExactTopics, LifeInv, FlowInv, NameInv,
         NEW s \in Subs, NEW e \in Events, Given(s, e)
  PROVE  /\ SubTopic[s] = EventTopic[e] /\ stage[e] \in {"published", "failed"}
         /\ proc[s] # "none" /\ pump[s] # "none"
<1>0. /\ mq = "kafka" \/ mq = "rabbit"
      /\ mq \in Adapters
      /\ KafkaTypes /\ LogInv /\ KafkaInv /\ RabbitInv /\ PlaceOf(s) /\ KeyOf(s) \in Keys
  BY BusAssumption, Sizes DEF BusAssumption, LifeInv, BusTypes, FlowInv, PlaceInv
<1>1. pump[s] # "none" /\ proc[s] # "none"  BY <1>0 DEF PlaceOf
<1>2. CASE mq = "kafka"
  <2>1. e \in Fetched(KeyOf(s)) /\ Reader(s) # None  BY <1>0, <1>1, <1>2 DEF KafkaInv, KafkaOf
  <2>2. e \in Range(log[EventTopic[e]]) /\ EventTopic[e] \in Topics /\ EventTopic[e] = Reader(s).topic
    BY <1>0, <2>1, FetchedLogged DEF Reader
  <2>3. stage[e] \in {"published", "failed"}  BY <1>0, <2>2 DEF LogInv
  <2> QED  BY <1>1, <2>1, <2>2, <2>3 DEF NameInv
<1>3. CASE mq = "rabbit"
  <2>1. e \in routed[KeyOf(s)]  BY <1>0, <1>3 DEF RabbitInv, ConsumerOf
  <2>2. stage[e] = "published" /\ \E t \in bound[KeyOf(s)] : <<EventTopic[e], t>> \in Routes
    BY <1>0, <1>3, <2>1 DEF RabbitInv, QueueOf, RoutedTo
  <2> QED  BY <1>0, <1>1, <1>3, <2>2 DEF NameInv, ExactTopics
<1> QED  BY <1>0, <1>2, <1>3

\* CommitWasHandled lasts while the logs and the successes only grow.
LEMMA CommitKept ==
  ASSUME KafkaTypes, LogInv, CommitWasHandled, UNCHANGED committed, succeeded \subseteq succeeded',
         \A t \in Topics : /\ Len(log[t]) \in Nat /\ Len(log'[t]) \in Nat /\ Len(log[t]) <= Len(log'[t])
                           /\ \A i \in DOMAIN log[t] : log'[t][i] = log[t][i]
  PROVE  CommitWasHandled'
<1> SUFFICES ASSUME NEW g \in Groups, NEW t \in Topics, committed[<<g, t>>] > 0
             PROVE  \E s \in Subs : /\ SubGroup[s] = g /\ committed[<<g, t>>] <= Len(log'[t])
                                    /\ <<s, log'[t][committed[<<g, t>>]]>> \in succeeded'
  BY DEF CommitWasHandled
<1> DEFINE n == committed[<<g, t>>]
<1>1. n \in Nat  BY DEF KafkaTypes
<1>2. PICK s \in Subs : SubGroup[s] = g /\ n <= Len(log[t]) /\ <<s, log[t][n]>> \in succeeded
  BY DEF CommitWasHandled
<1>3. log[t] \in Seq(Events)  BY DEF KafkaTypes
<1> HIDE DEF n
<1>4. n \in DOMAIN log[t]  BY <1>1, <1>2, <1>3 DEF n
<1>5. log'[t][n] = log[t][n] /\ n <= Len(log'[t])  BY <1>1, <1>2, <1>4
<1> QED  BY <1>2, <1>5 DEF n

\* The names keep what they lead to while readers keep their topic and group.
NamesKept ==
  /\ UNCHANGED bound
  /\ \A k \in Keys : \/ readers'[k] = readers[k]
                     \/ /\ readers[k] # None /\ readers'[k].topic = readers[k].topic
                        /\ readers'[k].group = readers[k].group

\* Then NameInv holds on, if the commits do.
LEMMA NamesHold ==
  ASSUME NameInv, NamesKept, CommitWasHandled'
  PROVE  NameInv'
<1>1. \A s \in Subs : KeyOf(s) \in Keys  BY Sizes
<1> QED  BY <1>1 DEF NamesKept, NameInv, Reader

\* A commit is of a message that a handler of the reader's group succeeded on.
LEMMA AckHandled ==
  ASSUME LifeInv, FlowInv, NameInv, NEW s \in Subs, NEW e \in Events, HandlerAcks(s, e)
  PROVE  NamesKept /\ CommitWasHandled'
<1>0. /\ KafkaTypes /\ LogInv /\ KafkaInv /\ PlaceOf(s) /\ CommitWasHandled /\ UNCHANGED succeeded
      /\ task[s][e] = "acking"
  BY DEF HandlerAcks, LifeInv, FlowInv, PlaceInv, NameInv
<1>1. log \in [Topics -> Seq(Events)] /\ \A t \in Topics : Len(log[t]) \in Nat
  BY <1>0 DEF KafkaTypes
<1>2. CASE Rabbit /\ \E ok \in BOOLEAN : RabbitAck(s, e, ok)
  <2>1. UNCHANGED <<log, committed, readers, bound>>  BY <1>2 DEF Rabbit, RabbitAck, kafkaVars
  <2>2. CommitWasHandled'  BY <1>0, <1>1, <2>1, CommitKept
  <2> QED  BY <2>1, <2>2 DEF NamesKept
<1>3. CASE Kafka /\ KafkaAcks(s, e)
  <2> DEFINE k == Key(EventTopic[e], SubGroup[s])
             g == readers[k].group
             t == EventTopic[e]
  <2>1. mq = "kafka" /\ UNCHANGED bound  BY <1>3 DEF Kafka, rabbitVars
  <2>2. Given(s, e) /\ <<s, e>> \in succeeded  BY <1>0 DEF Given, PlaceOf
  <2>3. SubTopic[s] = EventTopic[e] /\ pump[s] # "none"  BY <2>1, <2>2, GivenOfTopic
  <2>4. k = KeyOf(s)  BY <2>3 DEF KeyOf
  <2>5. Reader(s) # None /\ e \in Fetched(KeyOf(s))  BY <1>0, <2>1, <2>2, <2>3 DEF KafkaInv, KafkaOf
  <2>6. g = SubGroup[s]  BY <2>4, <2>5 DEF NameInv, Reader
  <2>7. /\ UNCHANGED <<log, readers>>
        /\ \/ UNCHANGED committed
           \/ /\ g \in Groups /\ t \in Topics
              /\ \E m \in {Offset(e), committed[g, t]} : committed' = [committed EXCEPT ![<<g, t>>] = m]
    BY <1>0, <1>3, <2>1, AckCommits
  <2>8. NamesKept  BY <2>1, <2>7 DEF NamesKept
  <2>9. Offset(e) \in DOMAIN log[t] /\ log[t][Offset(e)] = e /\ t \in Topics
    BY <1>0, <2>5, FetchedLogged, Sizes
  <2>10. Offset(e) <= Len(log[t])  BY <1>1, <2>9
  <2>14. UNCHANGED <<log, succeeded>>  BY <1>0, <2>7
  <2>11. ASSUME committed' = committed PROVE CommitWasHandled'
    BY <1>0, <1>1, <2>11, <2>14, CommitKept
  <2>12. ASSUME g \in Groups, committed' = [committed EXCEPT ![<<g, t>>] = Offset(e)]
         PROVE  CommitWasHandled'
    <3> SUFFICES ASSUME NEW h \in Groups, NEW u \in Topics, committed'[<<h, u>>] > 0
                 PROVE  \E c \in Subs : /\ SubGroup[c] = h /\ committed'[<<h, u>>] <= Len(log'[u])
                                        /\ <<c, log'[u][committed'[<<h, u>>]]>> \in succeeded'
      BY DEF CommitWasHandled
    <3>1. CASE h = g /\ u = t
      <4>1. committed'[<<h, u>>] = Offset(e)  BY <1>0, <2>9, <2>12, <3>1 DEF KafkaTypes
      <4> QED  BY <2>2, <2>6, <2>9, <2>10, <2>14, <3>1, <4>1
    <3>2. CASE ~(h = g /\ u = t)
      <4>1. committed'[<<h, u>>] = committed[<<h, u>>]
        BY <1>0, <2>12, <3>2 DEF KafkaTypes
      <4> QED  BY <1>0, <2>14, <4>1 DEF CommitWasHandled
    <3> QED  BY <3>1, <3>2
  <2>13. ASSUME g \in Groups, committed' = [committed EXCEPT ![<<g, t>>] = committed[g, t]]
         PROVE  CommitWasHandled'
    <3>1. committed' = committed  BY <1>0, <2>13 DEF KafkaTypes
    <3> QED  BY <2>11, <3>1
  <2> QED  BY <2>7, <2>8, <2>11, <2>12, <2>13
<1> QED  BY <1>2, <1>3 DEF HandlerAcks, Ack, KafkaAcks

\* Every step keeps NameInv, if no names clash.
LEMMA NameStep ==
  ASSUME NoClash, LifeInv, FlowInv, NameInv, [Next]_vars
  PROVE  NameInv'
<1>0. /\ BusTypes /\ FlowTypes /\ KafkaTypes /\ RabbitTypes /\ PlaceInv /\ LogInv /\ KafkaInv
      /\ CommitWasHandled
  BY DEF LifeInv, FlowInv, NameInv
<1>a. log \in [Topics -> Seq(Events)] /\ \A t \in Topics : Len(log[t]) \in Nat
  BY <1>0 DEF KafkaTypes
\* The logs and the positions are as they were.
<1>1. ASSUME UNCHANGED <<log, committed>>, succeeded \subseteq succeeded' PROVE CommitWasHandled'
  BY <1>0, <1>1, <1>a, CommitKept
<1>2. CASE Still
  <2>1. UNCHANGED <<log, committed, readers, bound, succeeded>>
    BY <1>2 DEF Still, kafkaVars, rabbitVars, procVars
  <2> QED  BY <1>1, <2>1, NamesHold DEF NamesKept
<1>3. ASSUME NEW s \in Subs, Inner(s) PROVE NameInv'
  <2>1. UNCHANGED <<log, committed, readers, bound>> /\ succeeded \subseteq succeeded'
    BY <1>0, <1>3, InnerMoves DEF Untouched, kafkaVars, Moved
  <2> QED  BY <1>1, <2>1, NamesHold DEF NamesKept
<1>4. CASE Outer
  <2>1. ASSUME NEW s \in Subs, Kafka, KafkaFetch(s), UNCHANGED <<mq, stage, procVars>>
        PROVE  NameInv'
    <3> DEFINE k == KeyOf(s)
               r == readers[k]
    <3>1. /\ k \in Keys /\ r # None /\ r \in ReaderType
          /\ readers' = [readers EXCEPT ![k] = [r EXCEPT !.pos = r.pos + 1]]
      BY <1>0, <2>1, FetchReads DEF Kafka, KafkaTypes
    <3>2. UNCHANGED <<log, committed, bound, succeeded>>
      BY <2>1 DEF Kafka, KafkaFetch, rabbitVars, procVars
    <3>3. readers'[k] = [r EXCEPT !.pos = r.pos + 1] /\ \A j \in Keys \ {k} : readers'[j] = readers[j]
      BY <1>0, <3>1 DEF KafkaTypes
    <3>4. readers'[k].topic = r.topic /\ readers'[k].group = r.group  BY <3>1, <3>3
    <3>5. NamesKept  BY <3>1, <3>2, <3>3, <3>4 DEF NamesKept
    <3> QED  BY <1>1, <3>2, <3>5, NamesHold
  <2>2. ASSUME NEW s \in Subs, Rabbit, RabbitStop(s) \/ RabbitDeliver(s), UNCHANGED <<mq, stage, procVars>>
        PROVE  NameInv'
    <3>1. UNCHANGED <<log, committed, readers, bound, succeeded>>
      BY <2>2 DEF Rabbit, RabbitStop, RabbitDeliver, kafkaVars, procVars
    <3> QED  BY <1>1, <3>1, NamesHold DEF NamesKept
  <2>3. ASSUME NEW s \in Subs, NEW e \in Events, HandlerAcks(s, e) PROVE NameInv'
    BY <2>3, AckHandled, NamesHold
  <2>4. ASSUME NEW p \in Clients, EmitPublish(p) PROVE NameInv'
    <3>1. UNCHANGED succeeded  BY <2>4 DEF EmitPublish, procVars
    <3>2. CASE Rabbit /\ \E ok \in BOOLEAN : RabbitPublish(ev[p], ok)
      <4>1. UNCHANGED <<log, committed, readers, bound>>  BY <3>2 DEF Rabbit, RabbitPublish, kafkaVars
      <4> QED  BY <1>1, <3>1, <4>1, NamesHold DEF NamesKept
    <3>3. CASE Kafka
      <4>1. PICK e \in Events :
              /\ EventTopic[e] \in Topics /\ e \notin Range(log[EventTopic[e]])
              /\ UNCHANGED <<committed, readers>>
              /\ log' = log \/ log' = [log EXCEPT ![EventTopic[e]] = Append(log[EventTopic[e]], e)]
        BY <2>4, <3>3, PublishLogs
      <4>2. \A t \in Topics : /\ Len(log[t]) <= Len(log'[t])
                              /\ \A i \in DOMAIN log[t] : log'[t][i] = log[t][i]
        BY <1>0, <4>1, LogGrows
      <4>3. \A t \in Topics : Len(log'[t]) \in Nat  BY FlowTypesStep DEF KafkaTypes
      <4>4. CommitWasHandled'  BY <1>0, <1>a, <3>1, <4>1, <4>2, <4>3, CommitKept
      <4>5. NamesKept  BY <3>3, <4>1 DEF NamesKept, Kafka, rabbitVars
      <4> QED  BY <4>4, <4>5, NamesHold
    <3> QED  BY <2>4, <3>2, <3>3 DEF EmitPublish, Publish
  <2>5. ASSUME NEW p \in Clients, OnSubscribe(p) PROVE NameInv'
    <3>1. PICK s \in Subs : /\ (Kafka /\ KafkaSubscribe(s)) \/ (Rabbit /\ \E ok \in BOOLEAN : RabbitSubscribe(s, ok))
                            /\ UNCHANGED succeeded
      BY <2>5, SubscribeOpens
    <3>2. \A c \in Subs : KeyOf(c) \in Keys  BY Sizes
    <3>3. CASE Kafka /\ KafkaSubscribe(s)
      <4>1. UNCHANGED <<log, committed, bound>>  BY <3>3 DEF Kafka, KafkaSubscribe, rabbitVars
      <4>2. \A k \in Keys : /\ readers[k] # None => readers'[k] = readers[k]
                            /\ readers'[k] # readers[k] =>
                                 readers'[k].topic = SubTopic[s] /\ readers'[k].group = SubGroup[s]
        BY <1>0, <3>3, SubscribeReads
      <4>3. \A k \in Keys : k # KeyOf(s) => readers'[k] = readers[k]
        BY <1>0, <3>3 DEF KafkaSubscribe, KafkaTypes
      <4>4. ASSUME NEW c \in Subs, readers'[KeyOf(c)] # None
            PROVE  readers'[KeyOf(c)].topic = SubTopic[c] /\ readers'[KeyOf(c)].group = SubGroup[c]
        <5>1. CASE readers'[KeyOf(c)] = readers[KeyOf(c)]  BY <4>4, <5>1 DEF NameInv, Reader
        <5>2. CASE readers'[KeyOf(c)] # readers[KeyOf(c)]
          <6>1. KeyOf(c) = KeyOf(s)  BY <3>2, <4>3, <5>2
          <6>2. SubTopic[c] = SubTopic[s] /\ SubGroup[c] = SubGroup[s]  BY <6>1 DEF NoClash
          <6> QED  BY <3>2, <4>2, <5>2, <6>2
        <5> QED  BY <5>1, <5>2
      <4>5. CommitWasHandled'  BY <1>1, <3>1, <4>1
      <4> QED  BY <4>1, <4>4, <4>5 DEF NameInv, Reader
    <3>4. CASE Rabbit /\ \E ok \in BOOLEAN : RabbitSubscribe(s, ok)
      <4>1. UNCHANGED <<log, committed, readers>>  BY <3>4 DEF Rabbit, kafkaVars
      <4>2. bound' = bound \/ bound' = [bound EXCEPT ![KeyOf(s)] = @ \cup {SubTopic[s]}]
        BY <3>4 DEF RabbitSubscribe
      <4>3. ASSUME NEW c \in Subs PROVE bound'[KeyOf(c)] \subseteq {SubTopic[c]}
        <5>1. bound[KeyOf(c)] \subseteq {SubTopic[c]}  BY DEF NameInv
        <5>2. CASE KeyOf(c) = KeyOf(s)
          <6>1. SubTopic[c] = SubTopic[s]  BY <5>2 DEF NoClash
          <6>2. bound'[KeyOf(c)] \subseteq bound[KeyOf(c)] \cup {SubTopic[s]}
            BY <1>0, <3>2, <4>2, <5>2 DEF RabbitTypes
          <6> QED  BY <5>1, <6>1, <6>2
        <5>3. CASE KeyOf(c) # KeyOf(s)
          <6>1. bound'[KeyOf(c)] = bound[KeyOf(c)]  BY <1>0, <3>2, <4>2, <5>3 DEF RabbitTypes
          <6> QED  BY <5>1, <6>1
        <5> QED  BY <5>2, <5>3
      <4>4. CommitWasHandled'  BY <1>1, <3>1, <4>1
      <4> QED  BY <4>1, <4>3, <4>4 DEF NameInv, Reader
    <3> QED  BY <3>1, <3>3, <3>4
  <2>6. ASSUME NEW p \in Clients, CloseAdapter(p) PROVE NameInv'
    <3>1. UNCHANGED succeeded  BY <2>6 DEF CloseAdapter, procVars
    <3>2. CASE Rabbit /\ \E ok \in BOOLEAN : RabbitClose(ok)
      <4>1. UNCHANGED <<log, committed, readers, bound>>  BY <3>2 DEF Rabbit, RabbitClose, kafkaVars
      <4> QED  BY <1>1, <3>1, <4>1, NamesHold DEF NamesKept
    <3>3. ASSUME NEW ok \in BOOLEAN, Kafka, KafkaClose(ok) PROVE NameInv'
      <4>1. UNCHANGED <<log, committed, bound>>  BY <3>3 DEF Kafka, KafkaClose, rabbitVars
      <4>2. \A k \in Keys : \/ readers'[k] = readers[k]
                            \/ /\ readers[k] # None /\ readers[k] \in ReaderType
                               /\ readers'[k] = [readers[k] EXCEPT !.open = FALSE]
        BY <1>0, <3>3, CloseReads
      <4>3. NamesKept
        <5>1. ASSUME NEW k \in Keys, readers[k] \in ReaderType,
                     readers'[k] = [readers[k] EXCEPT !.open = FALSE]
              PROVE  readers'[k].topic = readers[k].topic /\ readers'[k].group = readers[k].group
          BY <5>1
        <5> QED  BY <4>1, <4>2, <5>1 DEF NamesKept
      <4> QED  BY <1>1, <3>1, <4>1, <4>3, NamesHold
    <3> QED  BY <2>6, <3>2, <3>3 DEF CloseAdapter, CloseConnections
  <2> QED  BY <1>4, <2>1, <2>2, <2>3, <2>4, <2>5, <2>6 DEF Outer
<1> QED  BY <1>0, <1>2, <1>3, <1>4, KindOfFlow

\* A new bus has no reader and no binding.
LEMMA NameInit == ASSUME Init PROVE NameInv
<1>1. /\ committed = [gt \in Groups \X Topics |-> 0] /\ readers = [k \in Keys |-> None]
      /\ bound = [k \in Keys |-> {}]
  BY DEF Init, KafkaInit, RabbitInit
<1>2. \A s \in Subs : KeyOf(s) \in Keys  BY Sizes
<1>3. CommitWasHandled
  <2> SUFFICES ASSUME NEW g \in Groups, NEW t \in Topics, committed[<<g, t>>] > 0 PROVE FALSE
    BY DEF CommitWasHandled
  <2>1. committed[<<g, t>>] = 0  BY <1>1
  <2> QED  BY <2>1
<1>4. \A s \in Subs : readers[KeyOf(s)] = None /\ bound[KeyOf(s)] = {}  BY <1>1, <1>2
<1> QED  BY <1>3, <1>4 DEF NameInv, Reader

\* Every name leads to the reader and the queue of its own topic and group.
THEOREM NameInvariant == ASSUME NoClash PROVE Spec => []NameInv
<1>1. Init => NameInv  BY NameInit
<1>2. LifeInv /\ FlowInv /\ NameInv /\ [Next]_vars => NameInv'  BY NameStep
<1> QED  BY <1>1, <1>2, LifeInvariant, FlowInvariant, PTL DEF Spec

\* Without a clash a committed position stands behind a message that a handler of
\* its group succeeded on (Ack after the handler, distributed.go).
THEOREM CommitsHandled == ASSUME NoClash PROVE Spec => []CommitWasHandled
<1>1. NameInv => CommitWasHandled  BY DEF NameInv
<1> QED  BY <1>1, NameInvariant, PTL

\* A clash of names, or a pattern the exchange is given, is the only way to an event
\* of another topic.
THEOREM OwnTopicOnly == ASSUME NoClash, ExactTopics PROVE Spec => []TopicIsolation
<1>1. LifeInv /\ FlowInv /\ NameInv => TopicIsolation
  <2> SUFFICES ASSUME LifeInv, FlowInv, NameInv, NEW s \in Subs, NEW e \in Events, task[s][e] # "none"
               PROVE  SubTopic[s] = EventTopic[e]
    BY DEF TopicIsolation
  <2>1. Given(s, e)  BY DEF Given
  <2> QED  BY <2>1, GivenOfTopic
<1> QED  BY <1>1, LifeInvariant, FlowInvariant, NameInvariant, PTL

------------------------------------------------------------------------------
(* The refinement of EventBus *)

\* A new distributed bus is a new event bus.
LEMMA InitBus == ASSUME Init PROVE Bus!Init
BY DEF Init, ChannelInit, Bus!Init, BusState, BusFate

\* A step that EventBus sees nothing of.
Unseen == /\ UNCHANGED <<proc, closed, held, task>>
          /\ \A e \in Events : stage'[e] = "new" <=> stage[e] = "new"

\* Such a step is a stutter of EventBus.
LEMMA UnseenStutters == ASSUME Unseen PROVE UNCHANGED Bus!vars
<1>1. \A s \in Subs : BusState(s)' = BusState(s)  BY DEF Unseen, BusState
<1>2. \A s \in Subs, e \in Events : BusFate(s, e)' = BusFate(s, e)  BY DEF Unseen, BusFate
<1>3. {e \in Events : stage[e] # "new"}' = {e \in Events : stage[e] # "new"}  BY DEF Unseen
<1> QED  BY <1>1, <1>2, <1>3 DEF Bus!vars

\* A message at s is settled, and nothing changes that EventBus knows of the other
\* subscriptions.
Settles(s, e, outcome) ==
  /\ Settle(s, e, outcome) /\ UNCHANGED <<closed, stage>>
  /\ \A c \in Subs \ {s} : proc'[c] = proc[c] /\ held'[c] = held[c]

\* EventBus sees it as the same event running or over.
LEMMA SettleSeen ==
  ASSUME FlowTypes, NEW s \in Subs, NEW e \in Events,
         NEW outcome \in {"handling", "acking"} \cup Outcomes, Settles(s, e, outcome)
  PROVE  /\ Bus!Settle(s, e, IF outcome = "handling" THEN "running" ELSE "over")
         /\ {d \in Events : stage[d] # "new"}' = {d \in Events : stage[d] # "new"}
         /\ \A c \in Subs \ {s} : BusState(c)' = BusState(c)
<1>1. task'[s][e] = outcome /\ \A c \in Subs, d \in Events : c # s \/ d # e => task'[c][d] = task[c][d]
  BY DEF Settles, Settle, FlowTypes
<1>2. \A c \in Subs, d \in Events : BusFate(c, d)' =
        IF c = s /\ d = e THEN IF outcome = "handling" THEN "running" ELSE "over" ELSE BusFate(c, d)
  BY <1>1 DEF BusFate, Outcomes
<1>3. Bus!Settle(s, e, IF outcome = "handling" THEN "running" ELSE "over")
  BY <1>2 DEF Bus!Settle
<1>4. \A c \in Subs \ {s} : BusState(c)' = BusState(c)  BY DEF Settles, BusState
<1> QED  BY <1>3, <1>4 DEF Settles

\* A message that is at hand for s is dropped: EventBus discards it.
LEMMA DropSeen ==
  ASSUME ExactTopics, LifeInv, FlowInv, NameInv, NEW s \in Subs, NEW e \in Events, Waiting(s, e),
         NEW outcome \in Outcomes, Settles(s, e, outcome),
         \/ BusState(s)' = BusState(s)
         \/ BusState(s) = "stopping" /\ BusState(s)' = "stopped"
  PROVE  Bus!Discard(s, e)
<1>0. FlowTypes /\ Given(s, e) /\ task[s][e] = "none"
  BY DEF FlowInv, PlaceInv, PlaceOf, Given
<1>1. SubTopic[s] = EventTopic[e] /\ stage[e] # "new" /\ proc[s] # "none"
  BY <1>0, GivenOfTopic
<1>2. outcome # "handling"  BY DEF Outcomes
<1>3. /\ Bus!Settle(s, e, "over")
      /\ {d \in Events : stage[d] # "new"}' = {d \in Events : stage[d] # "new"}
      /\ \A c \in Subs \ {s} : BusState(c)' = BusState(c)
  BY <1>0, <1>2, SettleSeen
<1>4. BusFate(s, e) = "none" /\ BusState(s) # "fresh"
  BY <1>0, <1>1 DEF BusFate, BusState
<1>5. Bus!Passes(s, e)
  <2>1. CASE BusState(s)' = BusState(s)
    <3>1. \A c \in Subs : BusState(c)' = BusState(c)  BY <1>3, <2>1
    <3> QED  BY <1>1, <1>3, <1>4, <3>1 DEF Bus!Passes
  <2>2. CASE BusState(s) = "stopping" /\ BusState(s)' = "stopped"
    <3>1. \A c \in Subs : BusState(c)' = IF c = s THEN "stopped" ELSE BusState(c)  BY <1>3, <2>2
    <3>2. Bus!Becomes(s, "stopped")  BY <3>1 DEF Bus!Becomes
    <3> QED  BY <1>1, <1>3, <1>4, <2>2, <3>2 DEF Bus!Passes
  <2> QED  BY <2>1, <2>2
<1> QED  BY <1>3, <1>4, <1>5 DEF Bus!Discard

\* processMessages receives a message: EventBus sees one it drops, and the end of a
\* stopped subscription.
LEMMA ReceiveSeen ==
  ASSUME ExactTopics, LifeInv, FlowInv, NameInv, NEW s \in Subs, ProcReceive(s)
  PROVE  Bus!Next \/ UNCHANGED Bus!vars
<1> DEFINE e == Head(msgChan[s])
<1>0. /\ FlowTypes /\ proc \in [Subs -> {"none", "receive", "acquire", "gone"}]
      /\ held \in [Subs -> Events \cup {None}] /\ None \notin Events
  BY Sizes DEF LifeInv, BusTypes, FlowInv, FlowTypes
<1>1. e \in Events /\ Waiting(s, e) /\ proc[s] = "receive" /\ held[s] = None
  <2>1. msgChan[s] \in Seq(Events) /\ msgChan[s] # <<>> /\ proc[s] = "receive"
    BY <1>0 DEF ProcReceive, FlowTypes
  <2>2. e \in Range(msgChan[s])  BY <2>1 DEF Range
  <2> QED  BY <1>0, <2>1, <2>2 DEF Waiting, FlowTypes
<1>2. UNCHANGED <<closed, stage>>  BY DEF ProcReceive, subVars
<1> HIDE DEF e
<1>3. ASSUME NEW outcome \in Outcomes, Settle(s, e, outcome), UNCHANGED held,
             proc' = proc \/ (closed[s] /\ proc' = [proc EXCEPT ![s] = "gone"])
      PROVE  Bus!Next
  <2>1. Settles(s, e, outcome)  BY <1>0, <1>2, <1>3 DEF Settles
  <2>2. BusState(s)' = BusState(s)  BY <1>0, <1>1, <1>2, <1>3 DEF BusState
  <2>3. Bus!Discard(s, e)  BY <1>1, <2>1, <2>2, DropSeen
  <2> QED  BY <1>1, <2>3 DEF Bus!Next
<1>4. ASSUME ~closed[s], proc' = [proc EXCEPT ![s] = "acquire"], held' = [held EXCEPT ![s] = e],
             UNCHANGED task
      PROVE  UNCHANGED Bus!vars
  <2>1. \A c \in Subs : BusState(c)' = BusState(c)  BY <1>0, <1>1, <1>2, <1>4 DEF BusState
  <2>2. \A c \in Subs, d \in Events : BusFate(c, d)' = BusFate(c, d)  BY <1>4 DEF BusFate
  <2> QED  BY <1>2, <2>1, <2>2 DEF Bus!vars
<1>5. \/ \E outcome \in Outcomes : /\ Settle(s, e, outcome) /\ UNCHANGED held
                                     /\ \/ UNCHANGED proc
                                        \/ closed[s] /\ proc' = [proc EXCEPT ![s] = "gone"]
      \/ /\ ~closed[s] /\ proc' = [proc EXCEPT ![s] = "acquire"]
         /\ held' = [held EXCEPT ![s] = e] /\ UNCHANGED task
  BY DEF ProcReceive, e, Outcomes
<1> QED  BY <1>3, <1>4, <1>5

\* processMessages passes its message on, to a handler or to nobody.
LEMMA AcquireSeen ==
  ASSUME ExactTopics, LifeInv, FlowInv, NameInv, NEW s \in Subs, ProcAcquire(s)
  PROVE  Bus!Next
<1> DEFINE e == held[s]
<1>0. /\ FlowTypes /\ proc \in [Subs -> {"none", "receive", "acquire", "gone"}]
      /\ held \in [Subs -> Events \cup {None}] /\ None \notin Events /\ PlaceOf(s)
      /\ closed \in [Subs -> BOOLEAN]
  BY Sizes DEF LifeInv, BusTypes, FlowInv, FlowTypes, PlaceInv
<1>1. e \in Events /\ e # None /\ Waiting(s, e) /\ proc[s] = "acquire"
  BY <1>0 DEF ProcAcquire, FlowTypes, Waiting
<1>2. /\ UNCHANGED <<closed, stage>> /\ proc' = [proc EXCEPT ![s] = "receive"]
      /\ held' = [held EXCEPT ![s] = None]
  BY DEF ProcAcquire, subVars
<1>3. \A c \in Subs \ {s} : proc'[c] = proc[c] /\ held'[c] = held[c]  BY <1>0, <1>2
<1>4. proc'[s] = "receive" /\ held'[s] = None  BY <1>0, <1>2
<1>5. \/ ~closed[s] /\ BusState(s) = "open" /\ BusState(s)' = "open"
      \/ closed[s] /\ BusState(s) = "stopping" /\ BusState(s)' = "stopped"
  BY <1>0, <1>1, <1>2, <1>4 DEF BusState
<1> HIDE DEF e
<1>6. CASE Settle(s, e, "dropped")
  <2>1. Settles(s, e, "dropped")  BY <1>2, <1>3, <1>6 DEF Settles
  <2>2. Bus!Discard(s, e)  BY <1>1, <1>5, <2>1, DropSeen DEF Outcomes
  <2> QED  BY <1>1, <2>2 DEF Bus!Next
<1>7. CASE Settle(s, e, "handling")
  <2>1. Settles(s, e, "handling")  BY <1>2, <1>3, <1>7 DEF Settles
  <2>2. /\ Bus!Settle(s, e, "running")
        /\ {d \in Events : stage[d] # "new"}' = {d \in Events : stage[d] # "new"}
        /\ \A c \in Subs \ {s} : BusState(c)' = BusState(c)
    BY <1>0, <1>1, <2>1, SettleSeen
  <2>3. Given(s, e) /\ task[s][e] = "none"  BY <1>0, <1>1 DEF PlaceOf, Given
  <2>4. SubTopic[s] = EventTopic[e] /\ stage[e] # "new" /\ BusFate(s, e) = "none"
    BY <1>1, <2>3, GivenOfTopic DEF BusFate
  <2>5. Bus!Passes(s, e)
    <3>1. CASE BusState(s)' = BusState(s)
      <4>1. \A c \in Subs : BusState(c)' = BusState(c)  BY <2>2, <3>1
      <4> QED  BY <1>1, <2>2, <2>4, <4>1 DEF Bus!Passes
    <3>2. CASE BusState(s) = "stopping" /\ BusState(s)' = "stopped"
      <4>1. \A c \in Subs : BusState(c)' = IF c = s THEN "stopped" ELSE BusState(c)  BY <2>2, <3>2
      <4>2. Bus!Becomes(s, "stopped")  BY <4>1 DEF Bus!Becomes
      <4> QED  BY <1>1, <2>2, <2>4, <3>2, <4>2 DEF Bus!Passes
    <3> QED  BY <1>5, <3>1, <3>2
  <2>6. Bus!Start(s, e)  BY <1>5, <2>2, <2>5 DEF Bus!Start
  <2> QED  BY <1>1, <2>6 DEF Bus!Next
<1> QED  BY <1>6, <1>7 DEF ProcAcquire, e

\* A task goes on: EventBus sees its handler return, and nothing else.
LEMMA TaskSeen ==
  ASSUME FlowInv, NEW s \in Subs, NEW e \in Events, NEW outcome \in {"acking"} \cup Outcomes,
         task[s][e] \in {"handling", "acking"}, Settle(s, e, outcome),
         UNCHANGED <<closed, stage, proc, held>>
  PROVE  Bus!Next \/ UNCHANGED Bus!vars
<1>1. FlowTypes /\ outcome # "handling"  BY DEF FlowInv, Outcomes
<1>2. Settles(s, e, outcome)  BY DEF Settles
<1>3. /\ Bus!Settle(s, e, "over")
      /\ {d \in Events : stage[d] # "new"}' = {d \in Events : stage[d] # "new"}
  BY <1>1, <1>2, SettleSeen
<1>4. \A c \in Subs : BusState(c)' = BusState(c)  BY DEF BusState
<1>5. CASE task[s][e] = "handling"
  <2>1. Bus!Finish(s, e)  BY <1>3, <1>4, <1>5 DEF Bus!Finish, BusFate
  <2> QED  BY <2>1 DEF Bus!Next
<1>6. CASE task[s][e] = "acking"
  <2>1. BusFate(s, e) = "over"  BY <1>6 DEF BusFate
  <2>2. /\ task'[s][e] = outcome
        /\ \A c \in Subs, d \in Events : c # s \/ d # e => task'[c][d] = task[c][d]
    BY <1>1 DEF Settle, FlowTypes
  <2>3. BusFate(s, e)' = "over"  BY <1>1, <2>2 DEF BusFate, Outcomes
  <2>4. \A c \in Subs, d \in Events : BusFate(c, d)' = BusFate(c, d)
    BY <2>1, <2>2, <2>3 DEF BusFate
  <2> QED  BY <1>3, <1>4, <2>4 DEF Bus!vars
<1> QED  BY <1>5, <1>6

\* Every step is one of EventBus, or unseen.
LEMMA NextBus ==
  ASSUME ExactTopics, LifeInv, FlowInv, NameInv, [Next]_vars
  PROVE  [Bus!Next]_(Bus!vars)
<1> SUFFICES Bus!Next \/ UNCHANGED Bus!vars  OBVIOUS
<1>0. /\ BusTypes /\ CallInv /\ RegistryInv /\ FlowTypes
      /\ proc \in [Subs -> {"none", "receive", "acquire", "gone"}] /\ closed \in [Subs -> BOOLEAN]
      /\ stage \in [Events -> {"new", "emitting", "published", "failed"}]
  BY DEF LifeInv, FlowInv, BusTypes
<1>1. ASSUME NEW p \in Clients, NEW e \in Events, EmitBegin(p, e) PROVE Bus!Emit(e)
  <2>1. /\ stage[e] = "new" /\ stage' = [stage EXCEPT ![e] = "emitting"]
        /\ UNCHANGED <<proc, closed, held, task>>
    BY <1>1 DEF EmitBegin, subVars, procVars, mqVars
  <2>2. {d \in Events : stage[d] # "new"}' = {d \in Events : stage[d] # "new"} \cup {e}
    BY <1>0, <2>1
  <2> QED  BY <2>1, <2>2 DEF Bus!Emit, BusState, BusFate
<1>2. ASSUME NEW p \in Clients, OnSubscribe(p) PROVE Bus!Next \/ UNCHANGED Bus!vars
  <2> DEFINE s == sub[p]
  <2>1. s \in Subs /\ phase[s] = "starting" /\ proc[s] = "none" /\ UNCHANGED <<closed, stage, held, task>>
    BY <1>0, <1>2 DEF OnSubscribe, CallInv, StartPC, procVars
  <2>2. proc' = proc \/ proc' = [proc EXCEPT ![s] = "receive"]  BY <1>2 DEF OnSubscribe
  <2> HIDE DEF s
  <2>3. ~closed[s]  BY <1>0, <2>1 DEF RegistryInv, Published
  <2>4. CASE proc' = proc  BY <2>1, <2>4, UnseenStutters DEF Unseen
  <2>5. CASE proc' = [proc EXCEPT ![s] = "receive"]
    <3>1. \A c \in Subs : BusState(c)' = IF c = s THEN "open" ELSE BusState(c)
      BY <1>0, <2>1, <2>3, <2>5 DEF BusState
    <3>2. BusState(s) = "fresh"  BY <2>1 DEF BusState
    <3>3. Bus!Open(s)  BY <2>1, <3>1, <3>2 DEF Bus!Open, Bus!Becomes, BusFate
    <3> QED  BY <2>1, <3>3 DEF Bus!Next
  <2> QED  BY <2>2, <2>4, <2>5
<1>3. ASSUME NEW p \in Clients, StopCas(p) PROVE Bus!Next \/ UNCHANGED Bus!vars
  <2> DEFINE s == sub[p]
  <2>1. s \in Subs /\ phase[s] \in Published /\ closed' = [closed EXCEPT ![s] = TRUE]
        /\ UNCHANGED <<proc, stage, held, task>>
    BY <1>0, <1>3 DEF StopCas, CallInv, StopPC, procVars, mqVars
  <2> HIDE DEF s
  <2>2. proc[s] # "none"  BY <1>0, <2>1 DEF CallInv
  <2>3. CASE closed[s]
    <3>1. UNCHANGED closed  BY <1>0, <2>1, <2>3
    <3> QED  BY <2>1, <3>1, UnseenStutters DEF Unseen
  <2>4. CASE ~closed[s]
    <3>1. BusState(s) = "open"  BY <2>2, <2>4 DEF BusState
    <3>2. \A c \in Subs : BusState(c)' =
             IF c = s THEN IF held[s] # None THEN "stopping" ELSE "stopped" ELSE BusState(c)
      BY <1>0, <2>1, <2>2 DEF BusState
    <3>3. CASE held[s] # None
      <4>1. Bus!Stop(s)  BY <2>1, <3>1, <3>2, <3>3 DEF Bus!Stop, Bus!Becomes, BusFate
      <4> QED  BY <2>1, <4>1 DEF Bus!Next
    <3>4. CASE held[s] = None
      <4>1. Bus!Stopped(s)  BY <2>1, <3>1, <3>2, <3>4 DEF Bus!Stopped, Bus!Becomes, BusFate
      <4> QED  BY <2>1, <4>1 DEF Bus!Next
    <3> QED  BY <3>3, <3>4
  <2> QED  BY <2>3, <2>4
<1>4. ASSUME NEW p \in Clients, CallBegin(p) \/ CallStep(p) PROVE Bus!Next \/ UNCHANGED Bus!vars
  <2>1. ASSUME (\E s \in Subs : OnBegin(p, s) \/ OffBegin(p, s)) \/ CloseBegin(p) PROVE Unseen
    BY <2>1 DEF OnBegin, OffBegin, CloseBegin, Unseen, subVars, procVars, mqVars
  <2>2. ASSUME EmitPublish(p) PROVE Unseen
    <3>1. stage[ev[p]] = "emitting" /\ ev[p] \in Events
      BY <1>0, <2>2 DEF EmitPublish, CallInv, EmitPC
    <3>2. \E x \in {"published", "failed"} : stage' = [stage EXCEPT ![ev[p]] = x]
      BY <2>2 DEF EmitPublish
    <3>3. UNCHANGED <<proc, closed, held, task>>
      BY <2>2 DEF EmitPublish, Publish, subVars, procVars
    <3> QED  BY <1>0, <3>1, <3>2, <3>3 DEF Unseen
  <2>3. ASSUME EmitCount(p) \/ OnAdd(p) \/ OnCount(p) \/ StopClose(p) \/ OffRemove(p) \/ OffCount(p)
        PROVE  Unseen
    BY <2>3 DEF EmitCount, OnAdd, OnCount, StopClose, OffRemove, OffCount, Unseen, subVars,
                procVars, mqVars
  <2>4. ASSUME CloseCollect(p) \/ CloseNext(p) \/ CloseAdapter(p) \/ CloseRelease(p) PROVE Unseen
    BY <2>4 DEF CloseCollect, CloseNext, CloseAdapter, CloseConnections, CloseRelease, Unseen,
                subVars, procVars, mqVars
  <2>5. Unseen => UNCHANGED Bus!vars  BY UnseenStutters
  <2> QED
    BY <1>1, <1>2, <1>3, <1>4, <2>1, <2>2, <2>3, <2>4, <2>5 DEF CallBegin, CallStep, Bus!Next
<1>5. ASSUME NEW s \in Subs, ProcStep(s) PROVE Bus!Next \/ UNCHANGED Bus!vars
  <2>1. CASE ProcEnds(s)
    <3>1. /\ proc[s] = "receive" /\ proc' = [proc EXCEPT ![s] = "gone"]
          /\ UNCHANGED <<closed, held, task, stage>>
      BY <2>1 DEF ProcEnds, subVars, procVars
    <3>2. \A c \in Subs : BusState(c)' = BusState(c)  BY <1>0, <3>1 DEF BusState
    <3>3. \A c \in Subs, d \in Events : BusFate(c, d)' = BusFate(c, d)  BY <3>1 DEF BusFate
    <3> QED  BY <3>1, <3>2, <3>3 DEF Bus!vars
  <2> QED  BY <1>5, <2>1, ReceiveSeen, AcquireSeen DEF ProcStep
<1>6. ASSUME NEW s \in Subs, PumpStep(s) \/ PushStep(s) PROVE UNCHANGED Bus!vars
  <2>1. UNCHANGED <<closed, stage, held, task>>
    BY <1>6 DEF PumpStep, PushStep, subVars, procVars
  <2>2. UNCHANGED proc
    BY <1>6 DEF PumpStep, PushStep, KafkaPump, RabbitPump, RabbitPush, KafkaCheck, KafkaFetch,
                KafkaFetchFails, KafkaSend, RabbitTake, RabbitStop, RabbitDisconnected, RabbitSend,
                RabbitDeliver, PumpSend, PumpHolds, PumpReturns
  <2> QED  BY <2>1, <2>2, UnseenStutters DEF Unseen
<1>7. ASSUME NEW s \in Subs, NEW e \in Events, HandlerStep(s, e) PROVE Bus!Next \/ UNCHANGED Bus!vars
  <2>1. UNCHANGED <<closed, stage, proc, held>> /\ task[s][e] \in {"handling", "acking"}
    BY <1>7 DEF HandlerStep, HandlerReturns, HandlerAcks, Ack, subVars, mqVars
  <2>2. \E outcome \in {"acking"} \cup Outcomes : Settle(s, e, outcome)
    BY <1>7 DEF HandlerStep, HandlerReturns, HandlerAcks, Outcomes
  <2> QED  BY <2>1, <2>2, TaskSeen
<1>8. CASE Rest \/ UNCHANGED vars
  BY <1>8, UnseenStutters DEF Rest, vars, Unseen, subVars, procVars, mqVars
<1> QED  BY <1>4, <1>5, <1>6, <1>7, <1>8 DEF Next

\* Without a clash of names or patterns the distributed bus is an event bus, on either
\* adapter and whatever fails: no handler runs for an event of another topic, twice for one
\* event, or, but for the one message in hand, once Off has closed the subscription.
THEOREM Implements == ASSUME NoClash, ExactTopics PROVE Spec => ImplementsEventBus
<1>1. Init => Bus!Init  BY InitBus
<1>2. LifeInv /\ FlowInv /\ NameInv /\ [Next]_vars => [Bus!Next]_(Bus!vars)  BY NextBus
<1> QED
  BY <1>1, <1>2, LifeInvariant, FlowInvariant, NameInvariant, PTL
  DEF Spec, ImplementsEventBus, Bus!Spec

------------------------------------------------------------------------------
(* What the bus is left with at rest *)

\* The pump closes the channel as it returns, and the loop ends only when Off or
\* Close has stopped the subscription, or at the end of a closed channel.
EndOf(s) ==
  /\ chanClosed[s] <=> pump[s] = "done"
  /\ pump[s] = "none" => proc[s] = "none"
  /\ proc[s] = "gone" => closed[s] \/ (chanClosed[s] /\ msgChan[s] = <<>>)

\* The channel holds what its buffer does, or what a receiver is about to take.
KafkaEndOf(s) ==
  Len(msgChan[s]) <= ChannelBuffer \/ (Len(msgChan[s]) = 1 /\ proc[s] = "receive")

\* One message at a time is on its way through a consumer.  What stays
\* unacknowledged on an open channel was given to the subscription and not
\* acknowledged on purpose; a loop that ended on a message leaves it so.
RabbitEndOf(s) ==
  /\ pump[s] = "done" => channel[s] # "open" /\ delivery[s] = None
  /\ \A e, d \in Events : Waiting(s, e) /\ Waiting(s, d) => e = d
  /\ proc[s] = "gone" => \A e \in Events : ~Waiting(s, e)
  /\ channel[s] = "open" =>
       /\ proc[s] = "gone" => unacked[s] # None /\ task[s][unacked[s]] = "dropped"
       /\ unacked[s] # None => /\ Given(s, unacked[s])
                               /\ task[s][unacked[s]] = "handled" => ~SubConfig(s).AutoCommit

\* Inductive together with LifeInv and FlowInv.
RestOf(s) == EndOf(s) /\ (mq = "kafka" => KafkaEndOf(s)) /\ (mq = "rabbit" => RabbitEndOf(s))
RestInv == \A s \in Subs : RestOf(s)

\* A stopped subscription stays stopped.
LEMMA ClosedKept ==
  ASSUME LifeInv, [Next]_vars
  PROVE  \A s \in Subs : closed[s] => closed'[s]
<1>1. CASE UNCHANGED vars  BY <1>1 DEF vars, subVars
<1>2. CASE Flow  BY <1>2 DEF Flow, subVars
<1>3. ASSUME NEW p \in Clients, EmitStep(p) PROVE \A s \in Subs : closed[s] => closed'[s]
  BY <1>3 DEF EmitStep, EmitBegin, EmitPublish, EmitCount, subVars
<1>4. ASSUME NEW p \in Clients, LifeStep(p) PROVE \A s \in Subs : closed[s] => closed'[s]
  BY <1>4, OpenKept DEF LifeInv
<1> QED  BY <1>1, <1>2, <1>3, <1>4, KindOfStep DEF LifeInv

\* Nothing of c is touched but that its AMQP channel may be closed.
Beside(c) ==
  /\ Same(c) /\ chanClosed'[c] = chanClosed[c]
  /\ channel'[c] = "open" => channel[c] = "open" /\ unacked'[c] = unacked[c]

\* What is beside a step keeps its RestOf.
LEMMA RestKept ==
  ASSUME NEW c \in Subs, Beside(c), closed[c] => closed'[c], mq' = mq, RestOf(c)
  PROVE  RestOf(c)'
<1>1. \A e : (Waiting(c, e)' <=> Waiting(c, e)) /\ (Given(c, e)' <=> Given(c, e))
  BY DEF Waiting, Given, Beside, Same
<1>2. EndOf(c)'  BY DEF RestOf, EndOf, Beside, Same
<1>3. mq' = "kafka" => KafkaEndOf(c)'  BY DEF RestOf, KafkaEndOf, Beside, Same
<1>4. mq' = "rabbit" => RabbitEndOf(c)'
  BY <1>1 DEF RestOf, RabbitEndOf, Beside, Same
<1> QED  BY <1>2, <1>3, <1>4 DEF RestOf

\* The types of what RestInv speaks of.
LEMMA RestTypes ==
  ASSUME LifeInv, FlowInv
  PROVE  /\ pump \in [Subs -> {"none", "check", "fetch", "select", "send", "done"}]
         /\ proc \in [Subs -> {"none", "receive", "acquire", "gone"}]
         /\ inHand \in [Subs -> Events \cup {None}] /\ msgChan \in [Subs -> Seq(Events)]
         /\ held \in [Subs -> Events \cup {None}] /\ chanClosed \in [Subs -> BOOLEAN]
         /\ task \in [Subs -> [Events -> {"none", "handling", "acking"} \cup Outcomes]]
         /\ channel \in [Subs -> {"none", "open", "closed"}]
         /\ unacked \in [Subs -> Events \cup {None}] /\ delivery \in [Subs -> Events \cup {None}]
         /\ closed \in [Subs -> BOOLEAN] /\ None \notin Events /\ ChannelBuffer \in Nat
         /\ \A s \in Subs : /\ pump[s] = "send" <=> inHand[s] # None
                            /\ proc[s] = "acquire" <=> held[s] # None
                            /\ PlaceOf(s) /\ Range(msgChan[s]) \subseteq Events
         /\ BusTypes /\ FlowTypes /\ RabbitTypes /\ PlaceInv
         /\ mq = "rabbit" => \A s \in Subs : UnackedOf(s) /\ ConsumerOf(s)
BY Sizes, KafkaAssumption, Types
DEF LifeInv, FlowInv, BusTypes, FlowTypes, RabbitTypes, PlaceInv, RabbitInv, KafkaAssumption

\* Who waits in a consumer that is active on an open channel is what it has not
\* acknowledged.
LEMMA WaitsUnacked ==
  ASSUME LifeInv, FlowInv, mq = "rabbit", NEW s \in Subs, channel[s] = "open",
         NEW e \in Events, Waiting(s, e)
  PROVE  unacked[s] = e /\ task[s][e] = "none"
BY RestTypes DEF ConsumerOf, Given, Active, PlaceOf

\* processMessages takes a message from the channel: it ends with it only when the
\* subscription is closed, and then leaves the message unacknowledged.
LEMMA ReceiveRests ==
  ASSUME LifeInv, FlowInv, RestInv, NEW s \in Subs, ProcReceive(s), closed[s] => closed'[s]
  PROVE  RestOf(s)'
<1>a. \A n \in Nat : n <= ChannelBuffer \/ n = 1 => n - 1 <= ChannelBuffer
  BY KafkaAssumption DEF KafkaAssumption
<1> USE RestTypes
<1>0. PICK q \in Seq(Events) : q = msgChan[s]  OBVIOUS
<1>1. q # <<>> /\ proc[s] = "receive" /\ held[s] = None /\ msgChan'[s] = Tail(q)
  BY <1>0 DEF ProcReceive
<1>2. PICK e \in Events : e = Head(q)  BY <1>1
<1>3. /\ UNCHANGED <<mq, pump, inHand, delivery, chanClosed, channel, unacked, closed>>
      /\ \/ closed[s] /\ proc'[s] = "gone" /\ held'[s] = None /\ task' = [task EXCEPT ![s][e] = "dropped"]
         \/ /\ proc'[s] = "receive" /\ held'[s] = None
            /\ \E o \in {"dropped", "undecodable"} : task' = [task EXCEPT ![s][e] = o]
         \/ proc'[s] = "acquire" /\ held'[s] = e /\ UNCHANGED task
  <2>1. UNCHANGED <<mq, pump, inHand, delivery, chanClosed, channel, unacked, closed>>
    BY DEF ProcReceive, busVars, subVars, rabbitVars
  <2> QED  BY <1>0, <1>1, <1>2, <2>1 DEF ProcReceive, Settle
<1>4. /\ Range(Tail(q)) = Range(q) \ {e} /\ e \in Range(q) /\ Len(Tail(q)) = Len(q) - 1
  BY <1>0, <1>1, <1>2, TailDistinct DEF PlaceOf
<1>5. RestOf(s)  BY DEF RestInv
<1>6. EndOf(s)'  BY <1>1, <1>3, <1>5 DEF RestOf, EndOf
<1>7. ASSUME mq' = "kafka" PROVE KafkaEndOf(s)'
  <2>1. Len(q) <= ChannelBuffer \/ Len(q) = 1
    BY <1>0, <1>3, <1>5, <1>7 DEF RestOf, KafkaEndOf
  <2>2. Len(q) \in Nat  BY <1>0
  <2>3. Len(q) - 1 <= ChannelBuffer  BY <1>a, <2>1, <2>2
  <2>4. Len(Tail(q)) <= ChannelBuffer  BY <1>4, <2>3
  <2> QED  BY <1>1, <2>4 DEF KafkaEndOf
<1>8. ASSUME mq' = "rabbit" PROVE RabbitEndOf(s)'
  <2>0. mq = "rabbit" /\ RabbitEndOf(s)  BY <1>3, <1>5, <1>8 DEF RestOf
  <2>1. Waiting(s, e) /\ e # delivery[s] /\ e # inHand[s]
    BY <1>0, <1>4 DEF Waiting, PlaceOf
  <2>2. \A x \in Events : Waiting(s, x)' => x = e /\ held'[s] = e
    <3>1. \A x \in Events : Waiting(s, x)' => Waiting(s, x)
      BY <1>0, <1>1, <1>3, <1>4 DEF Waiting
    <3>2. \A x \in Events : Waiting(s, x) => x = e  BY <2>0, <2>1 DEF RabbitEndOf
    <3>3. Waiting(s, e)' => held'[s] = e
      BY <1>1, <1>3, <1>4, <2>1 DEF Waiting
    <3> QED  BY <3>1, <3>2, <3>3
  <2>3. pump'[s] = "done" => channel'[s] # "open" /\ delivery'[s] = None
    BY <1>3, <2>0 DEF RabbitEndOf
  <2>4. proc'[s] = "gone" => \A x \in Events : ~Waiting(s, x)'  BY <1>3, <2>2
  <2>5. channel'[s] = "open" => unacked[s] = e /\ unacked'[s] = e
    BY <1>3, <2>0, <2>1, WaitsUnacked
  <2>6. task'[s][e] # "handled" /\ (proc'[s] = "gone" => task'[s][e] = "dropped")
    <3>1. task[s][e] = "none"  BY <2>1 DEF PlaceOf
    <3> QED  BY <1>3, <3>1
  <2>7. Given(s, e)'
    <3>1. task'[s][e] # "none" \/ held'[s] = e  BY <1>3
    <3> QED  BY <3>1 DEF Given, Waiting
  <2> QED  BY <2>2, <2>3, <2>4, <2>5, <2>6, <2>7 DEF RabbitEndOf
<1> QED  BY <1>6, <1>7, <1>8 DEF RestOf

\* processMessages hands what it holds to a task, or drops it, and goes on.
LEMMA AcquireRests ==
  ASSUME LifeInv, FlowInv, RestInv, NEW s \in Subs, ProcAcquire(s), closed[s] => closed'[s]
  PROVE  RestOf(s)'
<1> USE RestTypes
<1>1. PICK e \in Events : e = held[s] /\ proc[s] = "acquire"  BY DEF ProcAcquire
<1>2. /\ UNCHANGED <<mq, pump, inHand, delivery, msgChan, chanClosed, channel, unacked>>
      /\ proc'[s] = "receive" /\ held'[s] = None
      /\ \E o \in {"handling", "dropped"} : task' = [task EXCEPT ![s][e] = o]
  <2>1. UNCHANGED <<mq, pump, inHand, delivery, msgChan, chanClosed, channel, unacked>>
    BY DEF ProcAcquire, busVars, chanVars, rabbitVars
  <2>2. proc'[s] = "receive" /\ held'[s] = None  BY DEF ProcAcquire
  <2> QED  BY <1>1, <2>1, <2>2 DEF ProcAcquire, Settle
<1>3. RestOf(s) /\ Waiting(s, e)  BY <1>1 DEF RestInv, Waiting
<1>4. EndOf(s)'  BY <1>1, <1>2, <1>3 DEF RestOf, EndOf
<1>5. mq' = "kafka" => KafkaEndOf(s)'  BY <1>1, <1>2, <1>3 DEF RestOf, KafkaEndOf
<1>6. ASSUME mq' = "rabbit" PROVE RabbitEndOf(s)'
  <2>0. mq = "rabbit" /\ RabbitEndOf(s)  BY <1>2, <1>3, <1>6 DEF RestOf
  <2>1. \A x \in Events : Waiting(s, x)' => Waiting(s, x)
    BY <1>2 DEF Waiting
  <2>2. channel[s] = "open" => unacked[s] = e  BY <1>3, <2>0, WaitsUnacked
  <2>3. task'[s][e] \notin {"none", "handled"}  BY <1>2
  <2>4. Given(s, e)'  BY <2>3 DEF Given
  <2> QED  BY <1>2, <2>0, <2>1, <2>2, <2>3, <2>4 DEF RabbitEndOf
<1> QED  BY <1>4, <1>5, <1>6 DEF RestOf

\* The loop ends at the end of the closed channel: nothing is on its way any more.
LEMMA EndsRests ==
  ASSUME LifeInv, FlowInv, RestInv, NEW s \in Subs, ProcEnds(s), closed[s] => closed'[s]
  PROVE  RestOf(s)'
<1> USE RestTypes
<1>1. /\ proc[s] = "receive" /\ msgChan[s] = <<>> /\ chanClosed[s] /\ proc'[s] = "gone"
      /\ UNCHANGED <<mq, pump, inHand, delivery, held, msgChan, chanClosed, channel, unacked, task>>
  BY DEF ProcEnds, busVars, procVars, chanVars, rabbitVars
<1>2. RestOf(s)  BY DEF RestInv
<1>3. pump[s] = "done"  BY <1>1, <1>2 DEF RestOf, EndOf
<1>4. EndOf(s)'  BY <1>1, <1>2, <1>3 DEF RestOf, EndOf
<1>5. mq' = "kafka" => KafkaEndOf(s)'  BY <1>1 DEF KafkaEndOf
<1>6. ASSUME mq' = "rabbit" PROVE RabbitEndOf(s)'
  <2>1. channel[s] # "open" /\ delivery[s] = None
    BY <1>1, <1>2, <1>3, <1>6 DEF RestOf, RabbitEndOf
  <2>2. inHand[s] = None /\ held[s] = None  BY <1>1, <1>3
  <2>3. \A x \in Events : ~Waiting(s, x)'
    BY <1>1, <2>1, <2>2 DEF Waiting, Range
  <2> QED  BY <1>1, <2>1, <2>3 DEF RabbitEndOf
<1> QED  BY <1>4, <1>5, <1>6 DEF RestOf

\* A task goes on or ends.  What it acknowledges was given to a loop that has not
\* ended on an unacknowledged message.
LEMMA TaskRests ==
  ASSUME LifeInv, FlowInv, RestInv, NEW s \in Subs, NEW e \in Events,
         (\E ok \in BOOLEAN : HandlerReturns(s, e, ok)) \/ HandlerAcks(s, e), closed[s] => closed'[s]
  PROVE  RestOf(s)'
<1> USE RestTypes
<1>1. /\ UNCHANGED <<mq, pump, proc, inHand, delivery, held, msgChan, chanClosed, channel>>
      /\ task[s][e] \in {"handling", "acking"}
      /\ \E o \in {"failed", "acking", "handled", "unacknowledged"} : task' = [task EXCEPT ![s][e] = o]
  <2>1. CASE \E ok \in BOOLEAN : HandlerReturns(s, e, ok)
    BY <2>1 DEF HandlerReturns, Settle, busVars, mqVars, chanVars, rabbitVars
  <2>2. CASE HandlerAcks(s, e)
    BY <2>2 DEF HandlerAcks, Settle, Ack, Kafka, RabbitAck, busVars, chanVars, rabbitVars
  <2> QED  BY <2>1, <2>2
<1>2. RestOf(s)  BY DEF RestInv
<1>3. EndOf(s)'  BY <1>1, <1>2 DEF RestOf, EndOf
<1>4. mq' = "kafka" => KafkaEndOf(s)'  BY <1>1, <1>2 DEF RestOf, KafkaEndOf
<1>5. ASSUME mq' = "rabbit" PROVE RabbitEndOf(s)'
  <2>0. mq = "rabbit" /\ mq # "kafka" /\ RabbitEndOf(s)  BY <1>1, <1>2, <1>5 DEF RestOf
  <2>1. \A x \in Events : Waiting(s, x)' <=> Waiting(s, x)  BY <1>1 DEF Waiting
  <2>2. task'[s][e] # "none" /\ \A x \in Events \ {e} : task'[s][x] = task[s][x]  BY <1>1
  <2>3. \A x \in Events : Given(s, x) => Given(s, x)'  BY <1>1, <2>1, <2>2 DEF Given
  <2>4. ASSUME channel[s] = "open"
        PROVE  /\ unacked[s] = e
               /\ proc[s] # "gone"
               /\ unacked'[s] # None => /\ unacked'[s] = e
                                        /\ task'[s][e] = "handled" => ~SubConfig(s).AutoCommit
    <3>1. unacked[s] = e
      BY <1>1, <2>0, <2>4 DEF ConsumerOf, Given, Active
    <3>2. proc[s] # "gone"  BY <1>1, <2>0, <2>4, <3>1 DEF RabbitEndOf
    <3>3. CASE \E ok \in BOOLEAN : HandlerReturns(s, e, ok)
      <4>1. UNCHANGED unacked  BY <3>3 DEF HandlerReturns, mqVars, rabbitVars
      <4>2. task'[s][e] = "handled" => ~SubConfig(s).AutoCommit
        BY <3>3 DEF HandlerReturns, Settle
      <4> QED  BY <3>1, <3>2, <4>1, <4>2
    <3>4. CASE HandlerAcks(s, e)
      <4>1. unacked'[s] = None \/ (UNCHANGED unacked /\ task'[s][e] = "unacknowledged")
        BY <2>0, <2>4, <3>4 DEF HandlerAcks, Settle, Ack, Kafka, RabbitAck
      <4> QED  BY <3>1, <3>2, <4>1
    <3> QED  BY <3>3, <3>4
  <2> QED  BY <1>1, <2>0, <2>1, <2>3, <2>4 DEF RabbitEndOf
<1> QED  BY <1>3, <1>4, <1>5 DEF RestOf

\* The pump of Kafka: a message goes from the reader to the channel, and the channel
\* is closed as the pump returns.
LEMMA KafkaPumpRests ==
  ASSUME LifeInv, FlowInv, RestInv, NEW s \in Subs, mq = "kafka", mq' = mq, closed[s] => closed'[s],
         KafkaCheck(s) \/ KafkaFetch(s) \/ KafkaFetchFails(s) \/ KafkaSend(s)
  PROVE  RestOf(s)' /\ \A c \in Subs \ {s} : chanClosed'[c] = chanClosed[c]
<1> USE RestTypes
<1>1. RestOf(s)  BY DEF RestInv
<1>2. CASE KafkaSend(s)
  <2>0. PICK q \in Seq(Events) : q = msgChan[s]  OBVIOUS
  <2>1. /\ pump[s] = "send" /\ pump'[s] = "check" /\ inHand[s] \in Events
        /\ msgChan'[s] = Append(q, inHand[s])
        /\ Len(q) < ChannelBuffer \/ (q = <<>> /\ proc[s] = "receive")
        /\ UNCHANGED <<proc, chanClosed>>
    BY <1>2, <2>0 DEF KafkaSend, PumpSend, Room
  <2>2. Len(msgChan'[s]) = Len(q) + 1 /\ Len(q) \in Nat  BY <2>0, <2>1
  <2>3. q = <<>> => Len(q) = 0  OBVIOUS
  <2>4. KafkaEndOf(s)'  BY <2>1, <2>2, <2>3 DEF KafkaEndOf
  <2>5. EndOf(s)'  BY <1>1, <2>1 DEF RestOf, EndOf
  <2> QED  BY <2>1, <2>4, <2>5 DEF RestOf
<1>3. CASE KafkaCheck(s) \/ KafkaFetch(s) \/ KafkaFetchFails(s)
  <2>1. /\ pump[s] \in {"check", "fetch"} /\ UNCHANGED <<proc, msgChan>>
        /\ \/ pump' = [pump EXCEPT ![s] = "done"] /\ chanClosed' = [chanClosed EXCEPT ![s] = TRUE]
           \/ /\ \E l \in {"fetch", "send"} : pump' = [pump EXCEPT ![s] = l]
              /\ UNCHANGED chanClosed
    BY <1>3 DEF KafkaCheck, KafkaFetch, KafkaFetchFails, PumpHolds, PumpReturns, chanVars
  <2>2. KafkaEndOf(s)'  BY <1>1, <2>1 DEF RestOf, KafkaEndOf
  <2>3. EndOf(s)'  BY <1>1, <2>1 DEF RestOf, EndOf
  <2> QED  BY <2>1, <2>2, <2>3 DEF RestOf
<1> QED  BY <1>2, <1>3

\* The pump of RabbitMQ: a delivery goes from the consumer to the channel, which is
\* closed as the pump returns, when the AMQP channel is no longer open.
LEMMA RabbitPumpRests ==
  ASSUME LifeInv, FlowInv, RestInv, NEW s \in Subs, mq = "rabbit", mq' = mq, closed[s] => closed'[s],
         RabbitTake(s) \/ RabbitStop(s) \/ RabbitDisconnected(s) \/ RabbitSend(s), UNCHANGED procVars
  PROVE  RestOf(s)' /\ \A c \in Subs \ {s} : chanClosed'[c] = chanClosed[c]
<1> USE RestTypes
<1>0. UNCHANGED <<held, task>>  BY DEF procVars
<1>1. RestOf(s) /\ EndOf(s) /\ RabbitEndOf(s)  BY DEF RestInv, RestOf
<1>a. ASSUME \A x \in Events : Waiting(s, x)' => Waiting(s, x),
             proc[s] = "gone" => \A x \in Events : ~Waiting(s, x),
             UNCHANGED <<proc, channel, unacked>>, pump'[s] # "done",
             \A x \in Events : Given(s, x) => Given(s, x)'
      PROVE  RabbitEndOf(s)'
  BY <1>0, <1>1, <1>a DEF RabbitEndOf
<1>2. CASE RabbitTake(s)
  <2>1. /\ pump'[s] = "send" /\ pump[s] = "select" /\ inHand'[s] = delivery[s] /\ delivery'[s] = None
        /\ inHand[s] = None
        /\ UNCHANGED <<msgChan, chanClosed, proc, channel, unacked>>
    BY <1>2 DEF RabbitTake, PumpHolds
  <2>2. \A x \in Events : Waiting(s, x)' <=> Waiting(s, x)
    BY <1>0, <2>1 DEF Waiting
  <2>3. \A x \in Events : Given(s, x)' <=> Given(s, x)  BY <1>0, <2>2 DEF Given
  <2>4. RabbitEndOf(s)'  BY <1>1, <1>a, <2>1, <2>2, <2>3 DEF RabbitEndOf
  <2>5. EndOf(s)'  BY <1>1, <2>1 DEF EndOf
  <2> QED  BY <2>1, <2>4, <2>5 DEF RestOf
<1>3. CASE RabbitSend(s)
  <2>0. PICK q \in Seq(Events), e \in Events : q = msgChan[s] /\ e = inHand[s]
    BY <1>3 DEF RabbitSend, PumpSend
  <2>1. /\ pump'[s] = "select" /\ pump[s] = "send" /\ inHand'[s] = None
        /\ msgChan'[s] = Append(q, e)
        /\ UNCHANGED <<delivery, chanClosed, proc, channel, unacked>>
    BY <1>3, <2>0 DEF RabbitSend, PumpSend, rabbitVars
  <2>2. Range(Append(q, e)) = Range(q) \cup {e}
    <3>1. IsInjective(q) /\ e \notin Range(q)  BY <2>0 DEF PlaceOf
    <3> QED  BY <2>0, <3>1, AppendDistinct
  <2>3. \A x \in Events : Waiting(s, x)' <=> Waiting(s, x)
    BY <1>0, <2>0, <2>1, <2>2 DEF Waiting
  <2>4. \A x \in Events : Given(s, x)' <=> Given(s, x)  BY <1>0, <2>3 DEF Given
  <2>5. RabbitEndOf(s)'  BY <1>1, <1>a, <2>1, <2>3, <2>4 DEF RabbitEndOf
  <2>6. EndOf(s)'
    <3>1. ~chanClosed[s]  BY <1>1, <2>1 DEF EndOf
    <3> QED  BY <1>1, <2>1, <3>1 DEF EndOf
  <2> QED  BY <2>1, <2>5, <2>6 DEF RestOf
<1>4. CASE RabbitStop(s) \/ RabbitDisconnected(s)
  <2>1. /\ pump' = [pump EXCEPT ![s] = "done"] /\ chanClosed' = [chanClosed EXCEPT ![s] = TRUE]
        /\ delivery'[s] = None /\ pump[s] = "select"
        /\ UNCHANGED <<inHand, msgChan, proc>>
    BY <1>4 DEF RabbitStop, RabbitDisconnected, PumpReturns, rabbitVars
  <2>2. channel'[s] # "open"
    <3>1. CASE RabbitStop(s)  BY <3>1 DEF RabbitStop
    <3>2. CASE RabbitDisconnected(s)
      BY <3>2 DEF RabbitDisconnected, rabbitVars, ConsumerOf
    <3> QED  BY <1>4, <3>1, <3>2
  <2>3. \A x \in Events : Waiting(s, x)' => Waiting(s, x)
    BY <1>0, <2>1 DEF Waiting
  <2>4. RabbitEndOf(s)'  BY <1>1, <2>1, <2>2, <2>3 DEF RabbitEndOf
  <2>5. EndOf(s)'  BY <1>1, <2>1 DEF EndOf
  <2> QED  BY <2>1, <2>4, <2>5 DEF RestOf
<1> QED  BY <1>2, <1>3, <1>4

\* The broker pushes a message only to a consumer that has none.
LEMMA DeliverRests ==
  ASSUME LifeInv, FlowInv, RestInv, NEW s \in Subs, mq = "rabbit", mq' = mq, closed[s] => closed'[s],
         RabbitDeliver(s), UNCHANGED procVars
  PROVE  RestOf(s)'
<1> USE RestTypes
<1>0. RestOf(s) /\ EndOf(s) /\ RabbitEndOf(s)  BY DEF RestInv, RestOf
<1>1. PICK e \in Events :
        /\ unacked' = [unacked EXCEPT ![s] = e]
        /\ \A x \in Events : (Given(s, x)' <=> (Given(s, x) \/ x = e)) /\ (Active(s, x)' => x = e)
        /\ PlaceOf(s)' /\ pump'[s] = pump[s]
  BY DeliverGives
<1>2. /\ channel[s] = "open" /\ unacked[s] = None
      /\ UNCHANGED <<channel, proc, msgChan, chanClosed, task>>
      /\ delivery' = [delivery EXCEPT ![s] = Head(queue[KeyOf(s)])]
  BY DEF RabbitDeliver, chanVars, procVars
<1>3. pump[s] # "done" /\ proc[s] # "gone"  BY <1>0, <1>2 DEF RabbitEndOf
<1>4. EndOf(s)'  BY <1>0, <1>1, <1>2 DEF EndOf
<1>5. \A x \in Events : Waiting(s, x)' => x = e  BY <1>1 DEF Active
<1>6. unacked'[s] = e /\ Given(s, e)' /\ task'[s][e] # "handled"
  <2>1. unacked'[s] = e /\ Given(s, e)'  BY <1>1
  <2>2. task[s][e] # "handled"
    <3>1. Head(queue[KeyOf(s)]) = e
      BY <1>1 DEF RabbitDeliver
    <3>2. Waiting(s, e)'  BY <1>2, <3>1 DEF Waiting
    <3> QED  BY <1>1, <1>2, <3>2 DEF PlaceOf
  <2> QED  BY <1>2, <2>1, <2>2
<1>7. RabbitEndOf(s)'  BY <1>1, <1>2, <1>3, <1>5, <1>6 DEF RabbitEndOf
<1> QED  BY <1>4, <1>7 DEF RestOf

\* The adapter's Subscribe starts the pump, and On the loop, with nothing given.
LEMMA SubscribeRests ==
  ASSUME LifeInv, FlowInv, RestInv, NEW p \in Clients, OnSubscribe(p),
         \A c \in Subs : closed[c] => closed'[c]
  PROVE  RestInv'
<1> USE RestTypes
<1>1. PICK s \in Subs : s = sub[p] /\ proc[s] = "none"
  <2>1. pc[p] = "on.subscribe"  BY DEF OnSubscribe
  <2> QED  BY <2>1 DEF LifeInv, CallInv, StartPC
<1>2. /\ pump[s] = "none" /\ \A x \in Events : ~Given(s, x)
  BY <1>1 DEF PlaceOf
<1>3. PICK ok \in BOOLEAN : Subscribe(s, ok) /\ proc' = IF ok THEN [proc EXCEPT ![s] = "receive"] ELSE proc
  BY <1>1 DEF OnSubscribe
<1>4. /\ (Kafka /\ ok /\ KafkaSubscribe(s)) \/ (Rabbit /\ RabbitSubscribe(s, ok))
      /\ UNCHANGED <<inHand, msgChan, chanClosed, held, task, mq>>
  BY <1>3 DEF OnSubscribe, Subscribe, chanVars, procVars, busVars
<1>5. /\ UNCHANGED <<delivery, unacked>>
      /\ IF ok THEN \E l \in {"check", "select"} : pump' = [pump EXCEPT ![s] = l] ELSE UNCHANGED pump
      /\ channel' = channel \/ (mq = "rabbit" /\ ok /\ channel' = [channel EXCEPT ![s] = "open"])
  BY <1>4 DEF Kafka, Rabbit, KafkaSubscribe, RabbitSubscribe, rabbitVars
<1>6. RestOf(s) /\ \A x : Waiting(s, x)' <=> Waiting(s, x)  BY <1>4, <1>5 DEF RestInv, Waiting
<1>7. \A c \in Subs \ {s} : Beside(c)
  BY <1>3, <1>4, <1>5 DEF Beside, Same
<1>8. EndOf(s)'
  BY <1>1, <1>2, <1>3, <1>4, <1>5, <1>6 DEF RestOf, EndOf
<1>9. mq' = "kafka" => KafkaEndOf(s)'
  BY <1>1, <1>4, <1>6 DEF RestOf, KafkaEndOf
<1>10. ASSUME mq' = "rabbit" PROVE RabbitEndOf(s)'
  <2>1. mq = "rabbit" /\ channel[s] = "none" /\ unacked'[s] = None
    BY <1>2, <1>4, <1>5, <1>10 DEF ConsumerOf, UnackedOf
  <2>2. proc'[s] # "gone" /\ pump'[s] # "done"  BY <1>1, <1>2, <1>3, <1>5
  <2>3. \A x \in Events : ~Waiting(s, x)'  BY <1>2, <1>6 DEF Given
  <2> QED  BY <2>1, <2>2, <2>3 DEF RabbitEndOf
<1>11. \A c \in Subs \ {s} : RestOf(c)'
  BY <1>4, <1>7, RestKept DEF RestInv
<1> QED  BY <1>8, <1>9, <1>10, <1>11 DEF RestOf, RestInv

\* At first no pump and no loop runs, and nothing waits anywhere.
LEMMA RestInit == ASSUME Init PROVE RestInv
<1>1. /\ proc = [s \in Subs |-> "none"] /\ pump = [s \in Subs |-> "none"]
      /\ chanClosed = [s \in Subs |-> FALSE] /\ msgChan = [s \in Subs |-> <<>>]
      /\ inHand = [s \in Subs |-> None] /\ held = [s \in Subs |-> None]
      /\ delivery = [s \in Subs |-> None] /\ channel = [s \in Subs |-> "none"]
  BY DEF Init, ChannelInit, RabbitInit
<1>2. \A s \in Subs, e \in Events : ~Waiting(s, e)
  BY <1>1, Sizes DEF Waiting, Range
<1>3. \A s \in Subs : EndOf(s)  BY <1>1 DEF EndOf
<1>4. \A s \in Subs : KafkaEndOf(s)
  BY <1>1, KafkaAssumption DEF KafkaEndOf, KafkaAssumption
<1>5. \A s \in Subs : RabbitEndOf(s)  BY <1>1, <1>2 DEF RabbitEndOf
<1> QED  BY <1>3, <1>4, <1>5 DEF RestInv, RestOf

\* Every step keeps RestInv.
LEMMA RestStep ==
  ASSUME LifeInv, FlowInv, RestInv, [Next]_vars
  PROVE  RestInv'
<1>0. /\ \A c \in Subs : RestOf(c) /\ (closed[c] => closed'[c])
      /\ mq' = mq /\ chanClosed \in [Subs -> BOOLEAN]
      /\ channel \in [Subs -> {"none", "open", "closed"}]
      /\ unacked \in [Subs -> Events \cup {None}]
  BY ClosedKept, AdapterKept, RestTypes DEF RestInv
<1>t. BusTypes /\ FlowTypes /\ RabbitTypes /\ PlaceInv  BY RestTypes
<1>1. ASSUME \A c \in Subs : Beside(c) PROVE RestInv'
  BY <1>0, <1>1, RestKept DEF RestInv
<1>2. ASSUME NEW s \in Subs, RestOf(s)', \A c \in Subs \ {s} : Beside(c) PROVE RestInv'
  BY <1>0, <1>2, RestKept DEF RestInv
<1>3. CASE Still
  <2>1. UNCHANGED <<pump, inHand, msgChan, chanClosed, proc, held, task, delivery, channel, unacked>>
    BY <1>3 DEF Still, procVars, rabbitVars
  <2> QED  BY <1>1, <2>1 DEF Beside, Same
<1>4. ASSUME NEW s \in Subs, Inner(s) PROVE RestInv'
  <2>1. (\A c \in Subs \ {s} : Same(c)) /\ UNCHANGED <<channel, unacked>>
    BY <1>4, <1>t, InnerMoves DEF Moved, Untouched
  <2>2. ASSUME RestOf(s)', \A c \in Subs \ {s} : chanClosed'[c] = chanClosed[c] PROVE RestInv'
    BY <1>2, <2>1, <2>2 DEF Beside
  <2>3. CASE ProcStep(s)
    <3>1. RestOf(s)'
      BY <1>0, <2>3, ReceiveRests, AcquireRests, EndsRests DEF ProcStep
    <3>2. UNCHANGED chanClosed
      BY <2>3 DEF ProcStep, ProcReceive, ProcAcquire, ProcEnds, chanVars
    <3> QED  BY <2>2, <3>1, <3>2
  <2>4. ASSUME NEW e \in Events, NEW ok \in BOOLEAN, HandlerReturns(s, e, ok) PROVE RestInv'
    <3>1. RestOf(s)'  BY <1>0, <2>4, TaskRests
    <3>2. UNCHANGED chanClosed  BY <2>4 DEF HandlerReturns, mqVars, chanVars
    <3> QED  BY <2>2, <3>1, <3>2
  <2>5. CASE Kafka /\ (KafkaCheck(s) \/ KafkaFetchFails(s) \/ KafkaSend(s))
    BY <1>0, <2>2, <2>5, KafkaPumpRests DEF Kafka
  <2>6. CASE Rabbit /\ (RabbitTake(s) \/ RabbitDisconnected(s) \/ RabbitSend(s)) /\ UNCHANGED procVars
    BY <1>0, <2>2, <2>6, RabbitPumpRests DEF Rabbit
  <2> QED  BY <1>4, <2>3, <2>4, <2>5, <2>6 DEF Inner
<1>5. CASE Outer
  <2>1. ASSUME NEW s \in Subs, Kafka, KafkaFetch(s), UNCHANGED <<mq, stage, procVars>> PROVE RestInv'
    <3>1. \A c \in Subs \ {s} : Same(c)  BY <2>1, FetchGives DEF Kafka
    <3>2. RestOf(s)' /\ \A c \in Subs \ {s} : chanClosed'[c] = chanClosed[c]
      BY <1>0, <2>1, KafkaPumpRests DEF Kafka
    <3>3. UNCHANGED <<channel, unacked>>  BY <2>1 DEF Kafka, rabbitVars
    <3> QED  BY <1>2, <3>1, <3>2, <3>3 DEF Beside
  <2>2. ASSUME NEW s \in Subs, Rabbit, RabbitStop(s), UNCHANGED <<mq, stage, procVars>> PROVE RestInv'
    <3>1. \A c \in Subs \ {s} : Same(c)  BY <2>2, StopDrops DEF Rabbit
    <3>2. RestOf(s)' /\ \A c \in Subs \ {s} : chanClosed'[c] = chanClosed[c]
      BY <1>0, <2>2, RabbitPumpRests DEF Rabbit
    <3>3. \A c \in Subs \ {s} : channel'[c] = channel[c] /\ unacked'[c] = unacked[c]
      BY <1>0, <2>2 DEF RabbitStop
    <3> QED  BY <1>2, <3>1, <3>2, <3>3 DEF Beside
  <2>3. ASSUME NEW s \in Subs, Rabbit, RabbitDeliver(s), UNCHANGED <<mq, stage, procVars>> PROVE RestInv'
    <3>1. \A c \in Subs \ {s} : Same(c)  BY <2>3, DeliverGives DEF Rabbit
    <3>2. RestOf(s)'  BY <1>0, <2>3, DeliverRests DEF Rabbit
    <3>3. UNCHANGED <<channel, chanClosed>> /\ \A c \in Subs \ {s} : unacked'[c] = unacked[c]
      BY <1>0, <2>3 DEF RabbitDeliver, chanVars
    <3> QED  BY <1>2, <3>1, <3>2, <3>3 DEF Beside
  <2>4. ASSUME NEW s \in Subs, NEW e \in Events, HandlerAcks(s, e) PROVE RestInv'
    <3>1. \A c \in Subs \ {s} : Same(c)  BY <1>t, <2>4, TaskMoves DEF Moved
    <3>2. RestOf(s)'  BY <1>0, <2>4, TaskRests
    <3>3. /\ UNCHANGED <<channel, chanClosed>>
          /\ unacked' = unacked \/ unacked' = [unacked EXCEPT ![s] = None]
      BY <2>4 DEF HandlerAcks, Ack, Kafka, RabbitAck, chanVars, rabbitVars
    <3>4. \A c \in Subs \ {s} : unacked'[c] = unacked[c]  BY <1>0, <3>3
    <3> QED  BY <1>2, <3>1, <3>2, <3>3, <3>4 DEF Beside
  <2>5. ASSUME NEW p \in Clients, EmitPublish(p) PROVE RestInv'
    <3>1. UNCHANGED <<pump, inHand, msgChan, chanClosed, proc, held, task, delivery, channel, unacked>>
      BY <2>5 DEF EmitPublish, Publish, Kafka, RabbitPublish, chanVars, procVars, rabbitVars
    <3> QED  BY <1>1, <3>1 DEF Beside, Same
  <2>6. ASSUME NEW p \in Clients, OnSubscribe(p) PROVE RestInv'
    BY <1>0, <2>6, SubscribeRests
  <2>7. ASSUME NEW p \in Clients, CloseAdapter(p) PROVE RestInv'
    <3>1. UNCHANGED <<pump, inHand, msgChan, chanClosed, proc, held, task, delivery>>
      BY <2>7 DEF CloseAdapter, CloseConnections, Kafka, RabbitClose, chanVars, procVars, rabbitVars
    <3>2. \A c \in Subs : channel'[c] = "open" => channel[c] = "open" /\ unacked'[c] = unacked[c]
      BY <1>0, <2>7 DEF CloseAdapter, CloseConnections, Kafka, RabbitClose, rabbitVars
    <3> QED  BY <1>1, <3>1, <3>2 DEF Beside, Same
  <2> QED  BY <1>5, <2>1, <2>2, <2>3, <2>4, <2>5, <2>6, <2>7 DEF Outer
<1> QED  BY <1>t, <1>3, <1>4, <1>5, KindOfFlow

\* Where the pumps and the loops end, and what they leave behind.
THEOREM RestInvariant == Spec => []RestInv
<1>1. Init => RestInv  BY RestInit
<1>2. LifeInv /\ FlowInv /\ RestInv /\ [Next]_vars => RestInv'  BY RestStep
<1> QED  BY <1>1, <1>2, LifeInvariant, FlowInvariant, PTL DEF Spec

\* At rest no goroutine of the pool works on a message.
LEMMA NoneRuns ==
  ASSUME LifeInv, FlowInv, Running = 0, NEW s \in Subs, NEW e \in Events
  PROVE  task[s][e] \in {"none"} \cup Outcomes
<1> DEFINE R == {t \in Subs \X Events : task[t[1]][t[2]] \in {"handling", "acking"}}
<1>1. IsFiniteSet(R)
  <2>1. IsFiniteSet(Subs \X Events)
    BY AdapterAssumption, FS_Product DEF AdapterAssumption
  <2> QED  BY <2>1, FS_Subset
<1>2. R = {}  BY <1>1, FS_EmptySet DEF Running
<1>3. <<s, e>> \in Subs \X Events /\ <<s, e>>[1] = s /\ <<s, e>>[2] = e  OBVIOUS
<1>4. task[s][e] \notin {"handling", "acking"}  BY <1>2, <1>3
<1> QED  BY <1>4, RestTypes

\* What a subscription is left with when the bus is at rest.
LEMMA AtRestOf ==
  ASSUME LifeInv, FlowInv, RestInv, AtRest, NEW s \in Subs
  PROVE  /\ held[s] = None /\ proc[s] \in {"none", "receive", "gone"}
         /\ proc[s] = "receive" => msgChan[s] = <<>> /\ inHand[s] = None /\ pump[s] # "done"
         /\ proc[s] = "none" => pump[s] = "none" /\ inHand[s] = None /\ msgChan[s] = <<>>
         /\ proc[s] = "gone" => closed[s] \/ (inHand[s] = None /\ msgChan[s] = <<>>)
         /\ \A e \in Events : task[s][e] \in {"none"} \cup Outcomes
<1> USE RestTypes
<1>1. /\ RestOf(s) /\ EndOf(s) /\ proc[s] # "acquire"
      /\ proc[s] = "receive" => msgChan[s] = <<>> /\ ~chanClosed[s]
      /\ mq \in {"kafka", "rabbit"}
  BY BusAssumption DEF RestInv, RestOf, AtRest, BusTypes, BusAssumption
<1>2. pump[s] = "send" => proc[s] # "receive"
  <2>1. CASE mq = "kafka"  BY <1>1, <2>1 DEF AtRest, KafkaAtRest, Room
  <2>2. CASE mq = "rabbit"
    <3>1. RabbitAtRest(s)  BY <2>2 DEF AtRest
    <3> QED  BY <1>1, <3>1 DEF RabbitAtRest, Room
  <2> QED  BY <1>1, <2>1, <2>2
<1>3. proc[s] = "none" => pump[s] = "none" /\ msgChan[s] = <<>>
  <2>1. proc[s] = "none" => pump[s] = "none" /\ \A e \in Events : ~Given(s, e)  BY DEF PlaceOf
  <2>2. proc[s] = "none" => Range(msgChan[s]) = {}  BY <2>1 DEF Given, Waiting
  <2>3. Range(msgChan[s]) = {} => msgChan[s] = <<>>
    <3>1. PICK q \in Seq(Events) : q = msgChan[s]  OBVIOUS
    <3>2. q # <<>> => 1 \in DOMAIN q  BY <3>1
    <3>3. \A i \in DOMAIN q : q[i] \in Range(q)  BY DEF Range
    <3> QED  BY <3>1, <3>2, <3>3
  <2> QED  BY <2>1, <2>2, <2>3
<1>4. \A e \in Events : task[s][e] \in {"none"} \cup Outcomes  BY NoneRuns DEF AtRest
<1> QED  BY <1>1, <1>2, <1>3, <1>4 DEF EndOf

\* At rest only a stopped subscription, whose loop has ended, is left with messages.
LEMMA HoldsNothing == ASSUME LifeInv, FlowInv, RestInv PROVE RestHoldsNothing
<1>1. SUFFICES ASSUME AtRest, NEW s \in Subs, inHand[s] # None \/ msgChan[s] # <<>>
               PROVE  closed[s] /\ proc[s] = "gone"
  BY DEF RestHoldsNothing
<1> QED  BY <1>1, AtRestOf

\* An open subscription reads: its pump and its loop have been started.
LEMMA OpenReads ==
  ASSUME LifeInv, FlowInv, RestInv, NEW s \in Subs, phase[s] = "open"
  PROVE  proc[s] # "none" /\ pump[s] # "none"
BY DEF LifeInv, CallInv, Published, RestInv, RestOf, EndOf

\* The reader of an active Kafka subscription has handed out all of its log.
LEMMA LogRead ==
  ASSUME LifeInv, FlowInv, RestInv, AtRest, mq = "kafka", NEW s \in Subs,
         phase[s] = "open", ~closed[s], pump[s] # "done"
  PROVE  Reader(s) # None /\ Reader(s).pos = Len(log[Reader(s).topic])
<1> USE RestTypes, OpenReads
<1>1. proc[s] = "receive" /\ inHand[s] = None  BY AtRestOf DEF RestInv, RestOf, EndOf
<1>2. pump[s] # "select" /\ Reader(s) # None
  BY DEF FlowInv, KafkaInv, KafkaOf
<1>3. pump[s] = "fetch"  BY <1>1, <1>2 DEF AtRest
<1> QED  BY <1>2, <1>3 DEF AtRest, KafkaAtRest

\* What a reader has handed out is settled, or stuck in a stopped subscription.
LEMMA FetchedSettled ==
  ASSUME LifeInv, FlowInv, RestInv, AtRest, mq = "kafka",
         NEW k \in Keys, NEW e \in Fetched(k)
  PROVE  \E c \in Subs : KeyOf(c) = k /\
           (task[c][e] \in Outcomes \/ (closed[c] /\ e \in {inHand[c]} \cup Range(msgChan[c])))
<1>1. PICK c \in Subs : KeyOf(c) = k /\ Given(c, e)
  BY DEF FlowInv, KafkaInv, FetchedOf
<1>2. e \in Events
  <2>1. readers[k] # None  BY DEF Fetched
  <2> QED  BY <2>1, FetchedLogged DEF FlowInv, LogInv
<1>3. task[c][e] \in Outcomes \/ task[c][e] = "none"  BY <1>2, NoneRuns DEF AtRest
<1>4. ASSUME task[c][e] = "none" PROVE closed[c] /\ e \in {inHand[c]} \cup Range(msgChan[c])
  <2>1. delivery[c] = None /\ held[c] = None /\ None \notin Events
    BY AtRestOf, RestTypes DEF FlowInv, KafkaInv, KafkaOf
  <2>2. e \in {inHand[c]} \cup Range(msgChan[c])  BY <1>1, <1>2, <1>4, <2>1 DEF Given, Waiting
  <2>3. inHand[c] # None \/ msgChan[c] # <<>>  BY <1>2, <2>1, <2>2 DEF Range
  <2> QED  BY <2>2, <2>3, HoldsNothing DEF RestHoldsNothing
<1> QED  BY <1>1, <1>3, <1>4

\* At rest what a reader with an active subscription has in its log is settled.
LEMMA SettlesLog == ASSUME LifeInv, FlowInv, RestInv PROVE RestSettlesLog
<1>1. SUFFICES ASSUME mq = "kafka", AtRest, NEW s \in Subs, phase[s] = "open", ~closed[s],
                      pump[s] # "done", Reader(s).open,
                      NEW i \in (Reader(s).first + 1)..Len(log[Reader(s).topic])
               PROVE  LET e == log[Reader(s).topic][i] IN
                      \E c \in Subs : KeyOf(c) = KeyOf(s) /\
                        (task[c][e] \in Outcomes \/ (closed[c] /\ e \in {inHand[c]} \cup Range(msgChan[c])))
  BY DEF RestSettlesLog
<1>2. KeyOf(s) \in Keys /\ Reader(s) = readers[KeyOf(s)]  BY Sizes DEF Reader
<1>3. log[Reader(s).topic][i] \in Fetched(KeyOf(s))
  BY <1>1, <1>2, LogRead DEF Fetched
<1> QED  BY <1>1, <1>2, <1>3, FetchedSettled

\* A consumer that is active on an open channel works on nothing any more: what it
\* has not acknowledged is settled without an acknowledgement.
LEMMA StallsOnFailure == ASSUME LifeInv, FlowInv, RestInv PROVE RestStallsOnFailure
<1>1. SUFFICES ASSUME mq = "rabbit", AtRest, NEW s \in Subs, channel[s] = "open",
                      queue[KeyOf(s)] # <<>>
               PROVE  unacked[s] # None /\
                        (task[s][unacked[s]] \in Outcomes \ {"handled"}
                           \/ ~SubConfig(s).AutoCommit)
  BY DEF RestStallsOnFailure
<1> USE RestTypes
<1>2. RabbitAtRest(s) /\ RabbitEndOf(s)
  BY <1>1 DEF AtRest, RestInv, RestOf
<1>3. PICK e \in Events : e = unacked[s]  BY <1>1, <1>2 DEF RabbitAtRest
<1>4. Given(s, e) /\ (task[s][e] = "handled" => ~SubConfig(s).AutoCommit)
  BY <1>1, <1>2, <1>3 DEF RabbitEndOf
<1>5. task[s][e] # "none"
  <2>1. SUFFICES ASSUME Waiting(s, e) PROVE FALSE  BY <1>4 DEF Given
  <2>2. proc[s] = "receive"
    <3>1. proc[s] # "none"
      BY <1>1, AtRestOf DEF ConsumerOf
    <3> QED  BY <1>1, <1>2, <2>1, <3>1, AtRestOf DEF RabbitEndOf
  <2>3. held[s] = None /\ inHand[s] = None /\ msgChan[s] = <<>> /\ pump[s] # "done"
    BY <1>1, <2>2, AtRestOf
  <2>4. delivery[s] = e  BY <2>1, <2>3 DEF Waiting, Range
  <2>5. pump[s] = "select"
    BY <1>1, <2>3, <2>2 DEF ConsumerOf, RestInv, RestOf, EndOf
  <2> QED  BY <1>2, <2>4, <2>5 DEF RabbitAtRest
<1>6. task[s][e] \in Outcomes  BY <1>1, <1>5, AtRestOf
<1> QED  BY <1>3, <1>4, <1>6 DEF Outcomes

\* Close has signalled every subscription it owed a stop.
LEMMA ClosedAtRest ==
  ASSUME LifeInv, AtRest, poolClosed, NEW s \in openAtClose
  PROVE  s \in Subs /\ phase[s] = "open" /\ stopChan[s] /\ closed[s]
<1>1. \A p \in Clients : At(p, "idle")  BY DEF AtRest
<1>2. s \in Subs /\ phase[s] = "open" /\ closer \in Clients
  BY DEF LifeInv, CloseInv, BusTypes, Closed
<1>3. closed[s]  BY <1>1, <1>2 DEF LifeInv, CloseInv, At, StopPC
<1>4. ~BeingStopped(s)  BY <1>1 DEF BeingStopped, At
<1> QED  BY <1>2, <1>3, <1>4 DEF LifeInv, RegistryInv

\* At rest after Close nothing runs for a subscription but a stuck Kafka pump.
LEMMA AfterClose == ASSUME LifeInv, FlowInv, RestInv PROVE RestAfterClose
<1>1. SUFFICES ASSUME AtRest, poolClosed, \A k \in Keys : ~ReaderOpen(k), NEW s \in openAtClose
               PROVE  /\ proc[s] = "gone"
                      /\ pump[s] = "done" \/ (mq = "kafka" /\ Len(msgChan[s]) = ChannelBuffer)
  BY DEF RestAfterClose
<1>2. s \in Subs /\ phase[s] = "open" /\ stopChan[s] /\ closed[s]  BY <1>1, ClosedAtRest
<1>3. proc[s] # "none" /\ pump[s] # "none"  BY <1>2, OpenReads
<1>a. \A m, n \in Nat : m <= n /\ ~(m < n) => m = n  OBVIOUS
<1> USE RestTypes
<1>4. CASE mq = "kafka"
  <2>1. pump[s] # "select" /\ Reader(s) # None /\ pump[s] # "check"
    BY <1>1, <1>2, <1>3, <1>4 DEF FlowInv, KafkaInv, KafkaOf, AtRest
  <2>2. pump[s] # "fetch"
    <3>1. KeyOf(s) \in Keys  BY <1>2, Sizes
    <3>2. ~Reader(s).open  BY <1>1, <2>1, <3>1 DEF ReaderOpen, Reader
    <3> QED  BY <1>1, <1>2, <1>4, <3>2 DEF AtRest, KafkaAtRest
  <2>3. pump[s] \in {"send", "done"}  BY <1>2, <1>3, <2>1, <2>2
  <2>4. proc[s] = "gone"  BY <1>1, <1>2, <1>3, <2>3, AtRestOf
  <2>5. ASSUME pump[s] = "send" PROVE Len(msgChan[s]) = ChannelBuffer
    <3>1. ~Room(s, ChannelBuffer)  BY <1>1, <1>2, <1>4, <2>5 DEF AtRest, KafkaAtRest
    <3>2. ~(Len(msgChan[s]) < ChannelBuffer)  BY <3>1 DEF Room
    <3>3. Len(msgChan[s]) <= ChannelBuffer
      BY <1>2, <1>4, <2>4 DEF RestInv, RestOf, KafkaEndOf
    <3>4. Len(msgChan[s]) \in Nat  BY <1>2
    <3> QED  BY <1>a, <3>2, <3>3, <3>4
  <2> QED  BY <1>4, <2>3, <2>4, <2>5
<1>5. CASE mq = "rabbit"
  <2>1. RabbitAtRest(s) /\ RabbitEndOf(s)  BY <1>1, <1>2, <1>5 DEF AtRest, RestInv, RestOf
  <2>2. pump[s] \in {"send", "done"}
    BY <1>2, <1>3, <1>5, <2>1 DEF RabbitAtRest, ConsumerOf
  <2>3. proc[s] = "gone"  BY <1>1, <1>2, <1>3, <2>2, AtRestOf
  <2>4. pump[s] # "send"  BY <1>2, <2>1, <2>3 DEF RabbitEndOf, Waiting
  <2> QED  BY <2>2, <2>3, <2>4
<1> QED  BY <1>4, <1>5, BusAssumption DEF BusTypes, BusAssumption

\* A pump or a channel of an active subscription holds nothing at rest.
THEOREM RestHolds == Spec => []RestHoldsNothing
<1>1. LifeInv /\ FlowInv /\ RestInv => RestHoldsNothing  BY HoldsNothing
<1> QED  BY <1>1, LifeInvariant, FlowInvariant, RestInvariant, PTL

\* An active Kafka subscription comes to rest with its whole log settled.
THEOREM RestSettles == Spec => []RestSettlesLog
<1>1. LifeInv /\ FlowInv /\ RestInv => RestSettlesLog  BY SettlesLog
<1> QED  BY <1>1, LifeInvariant, FlowInvariant, RestInvariant, PTL

\* A RabbitMQ consumer stops short of its queue's end only behind a message that it
\* has been given and not acknowledged.
THEOREM RestStalls == Spec => []RestStallsOnFailure
<1>1. LifeInv /\ FlowInv /\ RestInv => RestStallsOnFailure  BY StallsOnFailure
<1> QED  BY <1>1, LifeInvariant, FlowInvariant, RestInvariant, PTL

\* After Close the loops end, and the pumps but those stuck on a full channel.
THEOREM RestCloses == Spec => []RestAfterClose
<1>1. LifeInv /\ FlowInv /\ RestInv => RestAfterClose  BY AfterClose
<1> QED  BY <1>1, LifeInvariant, FlowInvariant, RestInvariant, PTL

===============================================================================
