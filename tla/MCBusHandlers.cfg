SPECIFICATION Spec
CONSTANTS
  c1 = c1
  c2 = c2
  c3 = c3
  s1 = s1
  s2 = s2
  e1 = e1
  e2 = e2
  e3 = e3
  t1 = t1
  t2 = t2
  None = None
  Clients = {c1}
  Subs = {s1}
  Events = {e1, e2, e3}
  Topics = {t1, t2}
  SubTopic <- OneSubTopic
  EventTopic <- ThirdEventElsewhere
  Concurrency = 2
  BufferSize <- One
  MaxRetries <- One
  PoolSize = 4
  EnableHistory = TRUE
  MaxHistorySize = 2
  EnableMetrics = TRUE
  ClientCalls = {"Emit", "On", "Off", "Close"}
  HandlerCalls = {"Emit", "On", "Off", "Close"}
  HandlersPanic = TRUE
  MaxOffCalls = 1
SYMMETRY AlikeEvents
CHECK_DEADLOCK FALSE
INVARIANTS
  StopInv
  FateInv
  TopicIsolation
  FateConsistent
  RecordedBeforeDelivered
PROPERTIES
  FateFinal
  ImplementsEventBus
