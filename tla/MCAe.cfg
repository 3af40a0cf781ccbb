\* All tests with their own priorities and sizes; six TCBs; an eight-byte command
\* buffer; TEST 3 with its 8 rounds of 8 messages.
CONSTANTS
  MAX_TASKS = 6
  PRIO_NULL = 255
  MaxBootTasks = 4
  Block = {1, 2, 3, 4, 5, 6, 7}
  MbxSizes = {}
  MsgLens = {}
  MaxBurst = 6
  StaleSlotsReused = TRUE
  NULL = NULL
  DORMANT = DORMANT
  READY = READY
  RUNNING = RUNNING
  BLK_MSG = BLK_MSG
  BUF = 8
  Iterations = 8
  Dequeues = 8
  Tests = {0, 1, 2, 3, 4, 5, 6, 7, 8}
  HeapBytes = 1073741824
  NoiseKeys = 3
  FifoMax = 6
SPECIFICATION AeSpec
INVARIANTS TestsPass
PROPERTIES TestsEnd KeysAreSeen
