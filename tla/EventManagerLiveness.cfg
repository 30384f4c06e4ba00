CONSTANTS
  NCpus = 3
  Stack = {s1, s2, s3}
  Callbacks = {k1}
  NewEvent = NewEvent
  IdleCpus = {}
  MaxSpawns = 1
  MaxBlocks = 0
SPECIFICATION FairSpec
PROPERTIES RcuCallbackRuns RemoteTaskTaken
