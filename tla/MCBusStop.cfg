SPECIFICATION Spec
CONSTANTS
  c1 = c1
  c2 = c2
  c3 = c3
  s1 = s1
  s2 = s2
  e1 = e1
  e2 = e2
  e3 = e3
  t1 = t1
  t2 = t2
  None = None
  Clients = {c1, c2}
  Subs = {s1, s2}
  Events = {e1}
  Topics = {t1}
  SubTopic <- OneSubTopic
  EventTopic <- OneEventTopic
  Concurrency = 1
  BufferSize <- NoBufferFirst
  MaxRetries <- NoAttemptSecond
  PoolSize = 4
  EnableHistory = TRUE
  MaxHistorySize = 2
  EnableMetrics = TRUE
  ClientCalls = {"Emit", "On", "Off", "Close"}
  HandlerCalls = {}
  HandlersPanic = TRUE
  MaxOffCalls = 2
SYMMETRY AlikeClients
INVARIANTS
  TypeOK
  StopExclusive
  Quiesced
  WorkerAccounting
  RegistryTracksActive
  CloseStopsOpen
  SubscribedAgrees
  DeliveredAgrees
