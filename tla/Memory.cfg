CONSTANTS
  Node = {0, 1}
  MaxOrder = 2
  NumPages = 8
  RangeSets <- AllRanges
  Limits = {4, 8}
  FreedOn <- Local
  PageSize = 2
  AnyNid = 99
  NoNode = 0
  Thread = {1, 2, 3}
  MaxRound = 1
  Kend = 7
  InitialMapEnd = 30
  SectionPages = 8
  MapPages = 1
  MaxTables = 1
  SlabCore = {"c1", "c2", "c3"}
  BootCore = "c3"
  Slab = {"s1", "s2"}
  PerSlab = 3
  FreeBatch = 1
  None = "none"
  Core = {"c1", "c2"}
  RangeStart = 3
  RangeEnd = 8
  MaxPages = 2
  Aligns = {1, 2}
  MaxAllocs = 3
SPECIFICATION MemorySpec
CHECK_DEADLOCK FALSE
INVARIANTS PagesRight BootRight  FaultsFindHandler
