SPECIFICATION Spec
CONSTANTS
  MaxInt = 127
  Precision = 32
  MaxFloat = 500
  Policies <- SomePolicies
  NilPolicy = NilPolicy
  Second = 10
CHECK_DEADLOCK FALSE
INVARIANTS
  TypeOK
  HandlerCallsExact
  WaitsAsConfigured
  WaitBounded
