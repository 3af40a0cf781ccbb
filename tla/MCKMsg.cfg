\* Four TCBs (null, two ordinary, KCD); priorities 0..3; a mailbox that two keystrokes,
\* or one keystroke and one message, or one message fit into, the second exactly; a
\* block short of a stack and a mailbox for everyone.
CONSTANTS
  MAX_TASKS = 4
  PRIO_NULL = 3
  MaxBootTasks = 2
  b1 = b1
  b2 = b2
  b3 = b3
  Block = {b1, b2, b3}
  MbxSizes = {32}
  MsgLens = {13}
  MaxBurst = 3
  StaleSlotsReused = FALSE
  NULL = NULL
  DORMANT = DORMANT
  READY = READY
  RUNNING = RUNNING
  BLK_MSG = BLK_MSG
SPECIFICATION Spec
SYMMETRY BlockSymmetry
INVARIANTS MsgTypeOK BlockedHasNoMail WokenHasMail MailboxesPrivate NoLeak WithinCapacity
PROPERTIES StrictPriority WakeupPreempts
