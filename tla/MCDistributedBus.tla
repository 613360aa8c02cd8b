--------------------------- MODULE MCDistributedBus ---------------------------
(* Small instances of DistributedBus for TLC. *)
EXTENDS DistributedBus

CONSTANTS c1, c2, s1, s2, e1, e2

\* Two subscriptions of one topic and group, which share a reader or a queue.
\* The topic and the group have the parts that the name of the reader joins.
OneTopic == [s \in Subs |-> <<"user", "created">>]
OneGroup == [s \in Subs |-> <<"service">>]
OneEventTopic == [e \in Events |-> <<"user", "created">>]

\* Two subscriptions of different topics and groups, for which the name is
\* user-created-service all the same.
ClashTopic == [s \in Subs |-> IF s = s1 THEN <<"user">> ELSE <<"user", "created">>]
ClashGroup == [s \in Subs |-> IF s = s1 THEN <<"created", "service">> ELSE <<"service">>]
ClashEventTopic == [e \in Events |-> IF e = e1 THEN <<"user">> ELSE <<"user", "created">>]

\* No topic is a pattern for another.
ExactRoutes == {<<t, t>> : t \in Topics}

\* One client publishes, subscribes and unsubscribes, the other closes the bus.
Roles == [c \in Clients |-> IF c = c1 THEN {"Emit", "On", "Off"} ELSE {"Close"}]

\* Subscriptions with the same options are alike, and so are events.
Alike == Permutations(Subs) \cup Permutations(Events)

\* The configuration given to New.
SmallConfig ==
  [DefaultDistributedConfig EXCEPT
     !.PoolSize = 1, !.Distributed = [MQAdapter |-> "adapter", EnableMetrics |-> TRUE]]

\* The options of each On call: none, or no automatic acknowledgement for the first.
NoOptions == [s \in Subs |-> <<>>]
ManualFirst ==
  [s \in Subs |-> IF s = s1 THEN << [field |-> "AutoCommit", value |-> FALSE] >> ELSE <<>>]

==============================================================================
