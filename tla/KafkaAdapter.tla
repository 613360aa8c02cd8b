----------------------------- MODULE KafkaAdapter -----------------------------
(***************************************************************************)
(* The Kafka adapter (kafka_adapter.go) and, external to it, what it uses  *)
(* of kafka-go and the broker: a log per topic, a committed position per   *)
(* group and topic, and readers that hand out the log in order.  Topics    *)
(* have one partition, and a reader is not rebalanced.                     *)
(***************************************************************************)
EXTENDS MQAdapter

CONSTANTS
  StartOffset,    \* KafkaConsumerConfig.StartOffset
  ChannelBuffer   \* capacity of msgChan, 100 in the code

\* A reader: its topic and group, the position it began at and the next one it
\* hands out, and whether it is open.
ReaderType == [topic : Topics, group : Groups, first : Nat, pos : Nat, open : BOOLEAN]

ASSUME KafkaAssumption == None \notin ReaderType /\ ChannelBuffer \in Nat

VARIABLES
  log,            \* the broker's log of each topic
  committed,      \* committed[g, t]: messages of t that group g is done with
  readers,        \* the adapter's map of readers by key
  producerClosed

kafkaVars == <<log, committed, readers, producerClosed>>

KafkaInit ==
  /\ log = [t \in Topics |-> <<>>]
  /\ committed = [gt \in Groups \X Topics |-> 0]
  /\ readers = [k \in Keys |-> None]
  /\ producerClosed = FALSE

Reader(s) == readers[KeyOf(s)]
ReaderOpen(k) == readers[k] # None /\ readers[k].open

\* Where a reader of a group without a committed position begins.
FirstOffset(topic) == IF StartOffset = "earliest" THEN 0 ELSE Len(log[topic])

Offset(e) == CHOOSE i \in DOMAIN log[EventTopic[e]] : log[EventTopic[e]][i] = e

\* WriteMessages; when it fails the message may have been written all the same.
KafkaPublish(e, ok) ==
  LET written == [log EXCEPT ![EventTopic[e]] = Append(@, e)]
  IN  /\ \/ ok /\ ~producerClosed /\ log' = written
         \/ ~ok /\ ~producerClosed /\ MayFail("publish") /\ log' \in {log, written}
         \/ ~ok /\ producerClosed /\ UNCHANGED log
      /\ UNCHANGED <<committed, readers, producerClosed>>

\* Mutant of KafkaSubscribe: a reader of its own for each subscription.
KafkaSubscribeMutant(s) ==
  LET k == KeyOf(s)
      first == IF committed[SubGroup[s], SubTopic[s]] > 0
               THEN committed[SubGroup[s], SubTopic[s]] ELSE FirstOffset(SubTopic[s])
  IN  /\ readers' = [readers EXCEPT ![k] = [topic |-> SubTopic[s], group |-> SubGroup[s],
                                            first |-> first, pos |-> first, open |-> TRUE]]
      /\ pump' = [pump EXCEPT ![s] = "check"]
      /\ UNCHANGED <<log, committed, producerClosed>>

\* A reader that exists under the key is used again, whatever its topic, its
\* group and its state are.
KafkaSubscribe(s) ==
  LET k == KeyOf(s)
      done == committed[SubGroup[s], SubTopic[s]]
      first == IF done > 0 THEN done ELSE FirstOffset(SubTopic[s])
  IN  /\ readers' = IF readers[k] # None THEN readers
                    ELSE [readers EXCEPT ![k] =
                            [topic |-> SubTopic[s], group |-> SubGroup[s],
                             first |-> first, pos |-> first, open |-> TRUE]]
      /\ pump' = [pump EXCEPT ![s] = "check"]
      /\ UNCHANGED <<log, committed, producerClosed>>

\* The pump looks at stopChan only here, before it waits for a message.
KafkaCheck(s) ==
  /\ pump[s] = "check"
  /\ \/ stopChan[s] /\ PumpReturns(s)
     \/ /\ ~stopChan[s]
        /\ pump' = [pump EXCEPT ![s] = "fetch"]
        /\ UNCHANGED <<chanVars, proc>>
  /\ UNCHANGED kafkaVars

\* FetchMessage hands out the next message to one of the pumps that wait, and goes
\* on to do so with what a reader had in its queue when it was closed.
KafkaFetch(s) ==
  LET k == KeyOf(s)
      r == readers[k]
  IN  /\ pump[s] = "fetch" /\ r.pos < Len(log[r.topic])
      /\ readers' = [readers EXCEPT ![k].pos = @ + 1]
      /\ PumpHolds(s, log[r.topic][r.pos + 1])
      /\ UNCHANGED <<log, committed, producerClosed>>

\* FetchMessage fails, because the reader is closed or for a reason of its own.
KafkaFetchFails(s) ==
  /\ pump[s] = "fetch" /\ (~Reader(s).open \/ MayFail("fetch"))
  /\ PumpReturns(s)
  /\ UNCHANGED kafkaVars

KafkaSend(s) == PumpSend(s, ChannelBuffer, "check") /\ UNCHANGED kafkaVars

\* Mutant of KafkaAck: the message after this one is committed too.
KafkaAckMutant(s, e, ok) ==
  LET k == Key(EventTopic[e], SubGroup[s])
      g == readers[k].group
  IN  /\ ok /\ ReaderOpen(k)
      /\ committed' = [committed EXCEPT ![<<g, EventTopic[e]>>] = Offset(e) + 1]
      /\ UNCHANGED <<log, readers, producerClosed>>

\* CommitMessages sets the group's position behind the message.  The position is
\* replaced, or with a CommitInterval raised, or the commit fails.
KafkaAck(s, e, ok) ==
  LET k == Key(EventTopic[e], SubGroup[s])
      g == readers[k].group
      n == committed[g, EventTopic[e]]
  IN  /\ \/ /\ ok /\ ReaderOpen(k)
            /\ \E m \in {Offset(e), IF n < Offset(e) THEN Offset(e) ELSE n} :
                 committed' = [committed EXCEPT ![<<g, EventTopic[e]>>] = m]
         \/ ~ok /\ (~ReaderOpen(k) \/ MayFail("ack")) /\ UNCHANGED committed
      /\ UNCHANGED <<log, readers, producerClosed>>

\* The producer is closed first; if that fails the readers stay open.
KafkaClose(ok) ==
  /\ ok \/ MayFail("close")
  /\ producerClosed' = TRUE
  /\ readers' = [k \in Keys |-> IF ok /\ readers[k] # None
                                THEN [readers[k] EXCEPT !.open = FALSE] ELSE readers[k]]
  /\ UNCHANGED <<log, committed>>

==============================================================================
