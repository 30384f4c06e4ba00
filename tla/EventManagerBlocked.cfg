CONSTANTS
  NCpus = 1
  Stack = {s1, s2, s3}
  Callbacks = {k1}
  NewEvent = NewEvent
  IdleCpus = {}
  MaxSpawns = 1
  MaxBlocks = 1
SPECIFICATION FairSpec
PROPERTY RcuCallbackRuns
CHECK_DEADLOCK FALSE
