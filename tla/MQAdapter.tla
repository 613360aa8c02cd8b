------------------------------ MODULE MQAdapter ------------------------------
(***************************************************************************)
(* What the distributed bus and every message queue adapter share: the     *)
(* interface MQAdapter (adapter.go) with the channel that Subscribe        *)
(* returns.  At one end of the channel is the adapter's pump, a goroutine  *)
(* that takes messages from the queue, at the other the goroutine that     *)
(* runs processMessages.  A message carries one event and stands for it.   *)
(***************************************************************************)
EXTENDS Config, FiniteSets

CONSTANTS
  Subs,        \* subscriptions, one per On call
  Events,      \* events, one per Emit call
  SubTopic, SubGroup, EventTopic,
  Faults       \* the outside calls that may fail

\* A name is the sequence of the words between its dashes.
Topics == Range(SubTopic) \cup Range(EventTopic)
Groups == Range(SubGroup)

\* Sprintf("%s-%s", topic, group), which names a reader and a queue.
Key(topic, group) == topic \o group
Keys == {Key(t, g) : t \in Topics, g \in Groups}
KeyOf(s) == Key(SubTopic[s], SubGroup[s])

ASSUME AdapterAssumption ==
  /\ IsFiniteSet(Subs) /\ IsFiniteSet(Events)
  /\ DOMAIN SubTopic = Subs /\ DOMAIN SubGroup = Subs /\ DOMAIN EventTopic = Events
  /\ Faults \subseteq {"publish", "subscribe", "fetch", "decode", "ack", "close"}
  /\ None \notin Subs \cup Events

VARIABLES
  pump,        \* program counter of a subscription's pump
  inHand,      \* the message the pump is about to send
  msgChan, chanClosed, stopChan,
  proc         \* program counter of a subscription's processMessages

chanVars == <<inHand, msgChan, chanClosed, stopChan>>

ChannelInit ==
  /\ pump = [s \in Subs |-> "none"] /\ proc = [s \in Subs |-> "none"]
  /\ inHand = [s \in Subs |-> None]
  /\ msgChan = [s \in Subs |-> <<>>]
  /\ chanClosed = [s \in Subs |-> FALSE]
  /\ stopChan = [s \in Subs |-> FALSE]

MayFail(call) == call \in Faults

\* The pump has taken e from the queue.
PumpHolds(s, e) ==
  /\ pump' = [pump EXCEPT ![s] = "send"]
  /\ inHand' = [inHand EXCEPT ![s] = e]
  /\ UNCHANGED <<msgChan, chanClosed, stopChan, proc>>

\* A channel has room in its buffer, or a receiver waits at it.
Room(s, capacity) ==
  Len(msgChan[s]) < capacity \/ (msgChan[s] = <<>> /\ proc[s] = "receive")

\* Mutant of PumpSend: a message for which there is no room is thrown away.
PumpSendMutant(s, capacity, next) ==
  /\ pump[s] = "send"
  /\ msgChan' = IF Room(s, capacity) THEN [msgChan EXCEPT ![s] = Append(@, inHand[s])]
                                     ELSE msgChan
  /\ inHand' = [inHand EXCEPT ![s] = None]
  /\ pump' = [pump EXCEPT ![s] = next]
  /\ UNCHANGED <<chanClosed, stopChan, proc>>

\* msgChan <- msg, which nothing but room on the channel can unblock.
PumpSend(s, capacity, next) ==
  /\ pump[s] = "send" /\ Room(s, capacity)
  /\ msgChan' = [msgChan EXCEPT ![s] = Append(@, inHand[s])]
  /\ inHand' = [inHand EXCEPT ![s] = None]
  /\ pump' = [pump EXCEPT ![s] = next]
  /\ UNCHANGED <<chanClosed, stopChan, proc>>

\* Mutant of PumpReturns: the channel is not closed.
PumpReturnsMutant(s) ==
  pump' = [pump EXCEPT ![s] = "done"] /\ UNCHANGED <<chanVars, proc>>

\* The pump returns; its deferred call closes the channel.
PumpReturns(s) ==
  /\ pump' = [pump EXCEPT ![s] = "done"]
  /\ chanClosed' = [chanClosed EXCEPT ![s] = TRUE]
  /\ UNCHANGED <<inHand, msgChan, stopChan, proc>>

==============================================================================
