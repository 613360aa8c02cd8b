SPECIFICATION Spec
CONSTANTS
  c1 = c1
  c2 = c2
  s1 = s1
  s2 = s2
  e1 = e1
  e2 = e2
  None = None
  Clients = {c1, c2}
  Subs = {s1, s2}
  Events = {e1}
  SubTopic <- OneTopic
  SubGroup <- OneGroup
  EventTopic <- OneEventTopic
  Faults = {"publish", "subscribe", "fetch", "decode", "ack", "close"}
  StartOffset = "earliest"
  ChannelBuffer = 1
  Routes <- ExactRoutes
  ClientCalls <- Roles
  Adapters = {"kafka", "rabbit"}
  BusConfig <- SmallConfig
  SubOptions <- ManualFirst
  MaxOffCalls = 2
INVARIANTS
  TypeOK
  StopExclusive
  RegistryTracksActive
  CloseStopsOpen
  SubscribedAgrees
  CommitWasHandled
  HandledOrRedelivered
