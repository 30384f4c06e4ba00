CONSTANTS
  NCpus = 2
  Stack = {s1, s2, s3}
  Callbacks = {k1}
  NewEvent = NewEvent
  IdleCpus = {0}
  MaxSpawns = 1
  MaxBlocks = 1
SPECIFICATION Spec
INVARIANTS TypeOK GracePeriod OneToken RemoteTaskAnnounced StackOwnership InterruptsOnActiveStack CountCoversLive
PROPERTY ImplementsGracePeriod
CHECK_DEADLOCK FALSE
