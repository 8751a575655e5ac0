SPECIFICATION IpcSpec
CONSTANTS
  MaxPipes = 2
  MaxQueues = 1
  QueueCap = 2
  RingSize = 2
  MaxMsgSize = 2
  Byte = {a, b}
  Zero = zero
  NOFD = nofd
  CLOSED = closed
  OK = ok
  FAIL = fail
PROPERTIES RefinesIpcService
CONSTRAINT OneTable
SYMMETRY ByteSymmetry
VIEW Tables
CHECK_DEADLOCK FALSE
