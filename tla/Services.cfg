CONSTANTS
  Scopes = {"client", "ebb", "jute", "tables", "args", "files", "nodes", "reps", "hosted", "locks", "clock", "counters", "routines", "pci", "paging", "traps"}
  None = None
  Caller = {"c", "d"}
  PathPrefixes <- PathAndParent
  MaxCalls = 3
  MaxLosses = 1
  MaxOthers = 1
  Client = {"c", "d"}
  Content <- ThreeBytes
  MaxTakes = 3
  Lengths = {0, 2}
  Void = None
  Core = {"c", "d"}
  Events = {1, 2, 3}
  CoreOf <- TwoOnOneCore
  CountMax = 2
  NoCore = None
SPECIFICATION ServicesSpec
CHECK_DEADLOCK FALSE
INVARIANTS RequestsComplete ClientDataRight   EbbsFound LocksExclude ReadingsRight 
