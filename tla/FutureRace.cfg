CONSTANTS
  None = None
  a = a
  b = b
  all = all
  out = out
  outer = outer
  inner = inner
  flat = flat
  waiter = waiter
  flattener = flattener
  s1 = s1
  s2 = s2
  s3 = s3
  s4 = s4
  Future = {a}
  Event = {waiter, s1}
  Scenarios <- ThenScenarios
  Inputs <- AllInputs
SPECIFICATION Spec
INVARIANTS NoLostContinuation
CHECK_DEADLOCK FALSE
