\* Two hosts, a window of two bytes advertised in units of two.
SPECIFICATION FairSpec
CONSTANTS
  SeqSpace = 16
  kTcpWnd = 2
  kWindowShift = 1
  Iss <- StartNumbers
  MaxChunk = 2
  Plans <- AllPlans
INVARIANTS StreamIntact Retransmittable
PROPERTIES DataArrives 
\* A connection that was closed, or that nobody uses, stays as it is.
CHECK_DEADLOCK FALSE
