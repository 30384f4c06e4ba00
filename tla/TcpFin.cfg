\* One byte, then the client closes; one segment is overtaken.
SPECIFICATION Spec
CONSTANTS
  SeqSpace = 16
  kTcpWnd = 2
  kWindowShift = 1
  Iss <- StartNumbers
  MaxChunk = 1
  Plans <- DataThenClose
INVARIANT AckedIsReceived
CHECK_DEADLOCK FALSE
