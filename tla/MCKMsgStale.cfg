\* Every slot may be used again: does a live task's mbx still point at a mailbox?
CONSTANTS
  MAX_TASKS = 4
  PRIO_NULL = 2
  MaxBootTasks = 2
  b1 = b1
  b2 = b2
  b3 = b3
  Block = {b1, b2}
  MbxSizes = {32}
  MsgLens = {9}
  MaxBurst = 1
  StaleSlotsReused = TRUE
  NULL = NULL
  DORMANT = DORMANT
  READY = READY
  RUNNING = RUNNING
  BLK_MSG = BLK_MSG
SPECIFICATION Spec
INVARIANTS MailboxAllocated
