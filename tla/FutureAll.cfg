CONSTANTS
  None = None
  a = a
  b = b
  all = all
  out = out
  outer = outer
  inner = inner
  flat = flat
  waiter = waiter
  flattener = flattener
  s1 = s1
  s2 = s2
  s3 = s3
  s4 = s4
  Future = {a, b, all, out, outer, inner, flat}
  Event = {waiter, flattener, s1, s2, s3, s4}
  Scenarios <- AllScenarios
  Inputs <- AllInputs
SPECIFICATION FairSpec
INVARIANTS ContinuationsRun OutcomesRight
PROPERTIES ResultIsFinal CallsReturn
CHECK_DEADLOCK FALSE
