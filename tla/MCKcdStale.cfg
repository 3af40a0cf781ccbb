\* As MCKcd, with Enter on short lines and registrations without a body; memory
\* starts out as zeros.
CONSTANTS
  MAX_TASKS = 4
  BUF = 3
  Senders = {1, 2}
  Keys = {13, 37, 65}
  Bodies = {57, 65, 123}
  Garbage = {0}
  Careful = FALSE
SPECIFICATION Spec
INVARIANTS CommandWasTyped
