SPECIFICATION Spec
CONSTANTS
  c1 = c1
  c2 = c2
  s1 = s1
  s2 = s2
  e1 = e1
  e2 = e2
  None = None
  Clients = {c1, c2}
  Subs = {s1, s2}
  Events = {e1}
  SubTopic <- ClashTopic
  SubGroup <- ClashGroup
  EventTopic <- ClashEventTopic
  Faults = {}
  StartOffset = "earliest"
  ChannelBuffer = 1
  Routes <- ExactRoutes
  ClientCalls <- Roles
  Adapters = {"kafka", "rabbit"}
  BusConfig <- SmallConfig
  SubOptions <- NoOptions
  MaxOffCalls = 0
CHECK_DEADLOCK FALSE
INVARIANTS
  TopicIsolation
