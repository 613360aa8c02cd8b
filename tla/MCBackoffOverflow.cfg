SPECIFICATION Spec
CONSTANTS
  MaxInt = 127
  Precision = 1000
  MaxFloat = 100000
  Policies <- CappedPolicies
  NilPolicy = NilPolicy
  Second = 10
CHECK_DEADLOCK FALSE
INVARIANTS
  LongWaitIsMaxDelay
