-------------------------------- MODULE Config --------------------------------
(***************************************************************************)
(* Configurations and subscription options (config.go, eventstream.go,     *)
(* utils.go).  A configuration is a record of the fields that decide what  *)
(* the bus does; None stands for nil.                                      *)
(***************************************************************************)
EXTENDS Integers, SequencesExt

CONSTANT None

MemoryValid(m) ==
  /\ m.BufferSize >= 0
  /\ m.EnableHistory => m.MaxHistorySize > 0

\* Config.Validate
Valid(c) ==
  /\ c.Mode \in {"memory", "distributed"}
  /\ c.PoolSize > 0
  /\ c.Mode = "distributed" => c.Distributed # None /\ c.Distributed.MQAdapter # None
  /\ c.Mode = "memory" /\ c.Memory # None => MemoryValid(c.Memory)

DefaultConfig ==
  [Mode |-> "memory", PoolSize |-> 1000, Distributed |-> None,
   Memory |-> [BufferSize |-> 1000, EnableHistory |-> FALSE,
               MaxHistorySize |-> 10000, EnableMetrics |-> FALSE]]

DefaultDistributedConfig ==
  [DefaultConfig EXCEPT
    !.Mode = "distributed", !.PoolSize = 2000, !.Memory = None,
    !.Distributed = [MQAdapter |-> None, EnableMetrics |-> FALSE]]

\* What New makes of a configuration: the kind of bus, or nothing.
New(c) == IF c # None /\ Valid(c) THEN c.Mode ELSE None

DefaultSubscribeConfig ==
  [Concurrency |-> 1, AutoCommit |-> TRUE, MaxRetries |-> 3, BufferSize |-> 100,
   StartOffset |-> "latest"]

\* An option is the field it sets and the value it gives it.
WithOption(config, option) == [config EXCEPT ![option.field] = option.value]

\* The options are applied in the order they are given: a later one wins.
mergeSubscribeOptions(options) ==
  FoldLeft(WithOption, DefaultSubscribeConfig, options)

===============================================================================
