---------------------------- MODULE RabbitAdapter ----------------------------
(***************************************************************************)
(* The RabbitMQ adapter of the examples (custom_adapter/adapter.go) and,   *)
(* external to it, what it uses of the broker: durable queues bound to an  *)
(* exchange, and consumers that hold one unacknowledged message at a time  *)
(* (Qos(1)).  What a closed consumer has not acknowledged goes back to the *)
(* front of its queue.  The connection does not fail by itself.            *)
(***************************************************************************)
EXTENDS MQAdapter

\* The exchange puts a message with the routing key r into a queue that is bound by
\* the key b when <<r, b>> is in Routes: with the type direct when they are equal,
\* with topic, the default, also when b is a pattern for r, and with fanout always.
CONSTANT Routes

ASSUME RabbitAssumption == Routes \subseteq Topics \X Topics

VARIABLES
  queue,      \* the messages of each queue, named by topic and group
  bound,      \* the topics that each queue is bound to the exchange by
  routed,     \* auxiliary: every message ever put into each queue
  channel,    \* the AMQP channel of each subscription
  unacked,    \* the message the broker waits to see acknowledged on it
  delivery,   \* that message, until the pump takes it from deliveries
  conn        \* whether the connection is open

rabbitVars == <<queue, bound, routed, channel, unacked, delivery, conn>>

RabbitInit ==
  /\ queue = [k \in Keys |-> <<>>]
  /\ bound = [k \in Keys |-> {}] /\ routed = [k \in Keys |-> {}]
  /\ channel = [s \in Subs |-> "none"]
  /\ unacked = [s \in Subs |-> None]
  /\ delivery = [s \in Subs |-> None]
  /\ conn = TRUE

RabbitPublish(e, ok) ==
  LET to == {k \in Keys : \E t \in bound[k] : <<EventTopic[e], t>> \in Routes}
  IN  /\ \/ /\ ok /\ conn
            /\ queue' = [k \in Keys |-> IF k \in to THEN Append(queue[k], e) ELSE queue[k]]
            /\ routed' = [k \in Keys |-> IF k \in to THEN routed[k] \cup {e} ELSE routed[k]]
         \/ ~ok /\ (~conn \/ MayFail("publish")) /\ UNCHANGED <<queue, routed>>
      /\ UNCHANGED <<bound, channel, unacked, delivery, conn>>

\* Channel, QueueDeclare, QueueBind, Qos and Consume in turn.  Each may fail, and
\* the channel is then closed; the queue remains if it was bound before.
RabbitSubscribe(s, ok) ==
  /\ \/ /\ ok /\ conn
        /\ bound' = [bound EXCEPT ![KeyOf(s)] = @ \cup {SubTopic[s]}]
        /\ channel' = [channel EXCEPT ![s] = "open"]
        /\ pump' = [pump EXCEPT ![s] = "select"]
     \/ /\ ~ok /\ conn /\ MayFail("subscribe")
        /\ bound' \in {bound, [bound EXCEPT ![KeyOf(s)] = @ \cup {SubTopic[s]}]}
        /\ UNCHANGED <<channel, pump>>
     \/ ~ok /\ ~conn /\ UNCHANGED <<bound, channel, pump>>
  /\ UNCHANGED <<queue, routed, unacked, delivery, conn>>

\* The broker pushes a message to a consumer that has acknowledged its last one.
RabbitDeliver(s) ==
  LET k == KeyOf(s)
  IN  /\ channel[s] = "open" /\ unacked[s] = None /\ queue[k] # <<>>
      /\ queue' = [queue EXCEPT ![k] = Tail(@)]
      /\ unacked' = [unacked EXCEPT ![s] = Head(queue[k])]
      /\ delivery' = [delivery EXCEPT ![s] = Head(queue[k])]
      /\ UNCHANGED <<bound, routed, channel, conn, pump, chanVars, proc>>

\* The pump's select takes a delivery ...
RabbitTake(s) ==
  /\ pump[s] = "select" /\ delivery[s] # None
  /\ PumpHolds(s, delivery[s])
  /\ delivery' = [delivery EXCEPT ![s] = None]
  /\ UNCHANGED <<queue, bound, routed, channel, unacked, conn>>

\* The messages that the consumers in S have not acknowledged return to queue k.
Requeued(k, S) ==
  SetToSeq({unacked[s] : s \in {c \in S : KeyOf(c) = k}} \ {None}) \o queue[k]

\* ... or the stop signal, upon which it closes the AMQP channel ...
RabbitStop(s) ==
  /\ pump[s] = "select" /\ stopChan[s]
  /\ PumpReturns(s)
  /\ queue' = [queue EXCEPT ![KeyOf(s)] = Requeued(KeyOf(s), {s})]
  /\ channel' = [channel EXCEPT ![s] = "closed"]
  /\ unacked' = [unacked EXCEPT ![s] = None]
  /\ delivery' = [delivery EXCEPT ![s] = None]
  /\ UNCHANGED <<bound, routed, conn>>

\* ... or finds that the connection is gone.
RabbitDisconnected(s) ==
  /\ pump[s] = "select" /\ ~conn /\ delivery[s] = None
  /\ PumpReturns(s)
  /\ UNCHANGED rabbitVars

RabbitSend(s) == PumpSend(s, 0, "select") /\ UNCHANGED rabbitVars

\* Mutant of RabbitAck: the delivery is not acknowledged.
RabbitAckMutant(s, e, ok) == ok /\ UNCHANGED rabbitVars

\* The delivery is acknowledged on the channel it came by, or Ack fails, as it does
\* when that is closed.
RabbitAck(s, e, ok) ==
  /\ \/ ok /\ channel[s] = "open" /\ unacked' = [unacked EXCEPT ![s] = None]
     \/ ~ok /\ (channel[s] # "open" \/ MayFail("ack")) /\ UNCHANGED unacked
  /\ UNCHANGED <<queue, bound, routed, channel, delivery, conn>>

\* conn.Close closes every channel.  When it fails, the connection may be gone all
\* the same.
RabbitClose(ok) ==
  /\ ok \/ MayFail("close")
  /\ \/ /\ conn' = FALSE
        /\ queue' = [k \in Keys |-> Requeued(k, Subs)]
        /\ channel' = [s \in Subs |-> IF channel[s] = "open" THEN "closed" ELSE channel[s]]
        /\ unacked' = [s \in Subs |-> None]
     \/ ~ok /\ UNCHANGED <<conn, queue, channel, unacked>>
  /\ UNCHANGED <<bound, routed, delivery>>

==============================================================================
