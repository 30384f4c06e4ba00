CONSTANTS
  None = None
  Pcb = {1, 2, 3}
  Reader = {11}
  PortLimit = 4
  PoolFrom = 2
  ReserveFrom = 3
  Asked = {0, 3}
  Sought = {3}
  Buckets = 2
  Nil = 99
  Xid = {1, 2}
  MaxTries = 2
  Sender = {"s1", "s2", "s3"}
  Receiver = {"r1", "r2"}
  ToUs = {"r1"}
SPECIFICATION NetworkSpec
CHECK_DEADLOCK FALSE
INVARIANTS RingsSafe UdpSafe DhcpSafe PacketsResolved BuffersChained PacketsTaken  LookupsServed
