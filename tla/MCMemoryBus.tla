----------------------------- MODULE MCMemoryBus -----------------------------
(* Small instances of MemoryBus for TLC. *)
EXTENDS MemoryBus, TLC

CONSTANTS c1, c2, c3, s1, s2, e1, e2, e3, t1, t2

\* Subscriptions and events on one topic, or the third event on another one.
OneSubTopic == [s \in Subs |-> t1]
OneEventTopic == [e \in Events |-> t1]
ThirdEventElsewhere == [e \in Events |-> IF e = e3 THEN t2 ELSE t1]

\* The options of the On calls: buffers and retries of one, ...
One == [s \in Subs |-> 1]
\* ... or no buffer for the first, and for the second a negative MaxRetries,
\* which nothing validates: handleEvent's loop then has no turn.
NoBufferFirst == [s \in Subs |-> IF s = s1 THEN 0 ELSE 1]
NoAttemptSecond == [s \in Subs |-> IF s = s1 THEN 1 ELSE -1]

\* With one topic and equal options the clients, the subscriptions and the events
\* are alike; otherwise only the clients, or the events of the first topic, are.
AlikeClients == Permutations(Clients)
AlikeEvents == Permutations({e1, e2})
Alike == AlikeClients \cup Permutations(Subs) \cup Permutations(Events)

==============================================================================
