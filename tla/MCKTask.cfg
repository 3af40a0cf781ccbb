\* Five TCBs (null, three ordinary, KCD), priorities 0..3, one stack block too few.
CONSTANTS
  MAX_TASKS = 5
  PRIO_NULL = 3
  MaxBootTasks = 3
  b1 = b1
  b2 = b2
  b3 = b3
  Block = {b1, b2, b3}
  NULL = NULL
  DORMANT = DORMANT
  READY = READY
  RUNNING = RUNNING
  BLK_MSG = BLK_MSG
SPECIFICATION TaskSpec
SYMMETRY BlockSymmetry
INVARIANTS TypeOK ReadyQueueOK OneRunning NullSchedulable ActiveCount StacksPrivate
PROPERTIES StrictPriority FCFS
