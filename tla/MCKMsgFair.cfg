\* Liveness: no symmetry; one message length, one keystroke per interrupt.
CONSTANTS
  MAX_TASKS = 4
  PRIO_NULL = 2
  MaxBootTasks = 2
  b1 = b1
  b2 = b2
  b3 = b3
  Block = {b1, b2}
  MbxSizes = {32}
  MsgLens = {9}
  MaxBurst = 1
  StaleSlotsReused = FALSE
  NULL = NULL
  DORMANT = DORMANT
  READY = READY
  RUNNING = RUNNING
  BLK_MSG = BLK_MSG
SPECIFICATION FairSpec
PROPERTIES WokenReceives RoundRobin
