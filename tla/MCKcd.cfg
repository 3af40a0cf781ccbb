\* A buffer of three characters; %, the first capital and Enter as keys; two tasks, which
\* ask for the last digit, the first capital and {, which is no command; memory that
\* already looks like a command.
CONSTANTS
  MAX_TASKS = 4
  BUF = 3
  Senders = {1, 2}
  Keys = {13, 37, 65}
  Bodies = {57, 65, 123}
  Garbage = {37, 65}
  Careful = TRUE
SPECIFICATION Spec
INVARIANTS KcdTypeOK
PROPERTIES ImplementsCommandLine
