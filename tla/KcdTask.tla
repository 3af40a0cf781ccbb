------------------------------ MODULE KcdTask ------------------------------
(***************************************************************************)
(* The keyboard command dispatcher (kcd_task.c): what the KCD does with one *)
(* message.  Characters are their ASCII codes, because the table of        *)
(* commands is indexed by arithmetic on them.                              *)
(***************************************************************************)
EXTENDS Naturals, Sequences

CONSTANTS
  MAX_TASKS,   \* number of TCBs; as an entry of commands: nobody registered
  BUF          \* sizeof(command_string), 64 in the code

ASSUME KcdAssumption == MAX_TASKS \in 1 .. 254 /\ BUF \in 2 .. 253

TID_UART_IRQ == 255

\* Message types (common.h:100-104).
DEFAULT == 0
KCD_REG == 1
KCD_CMD == 2
KEY_IN  == 4

CR      == 13
Percent == 37
Digit   == 48 .. 57
Upper   == 65 .. 90
Lower   == 97 .. 122
Byte    == 0 .. 255

HdrLen  == 8    \* sizeof(RTX_MSG_HDR)

\* A command is one digit or letter.
IsCommand(c) == c \in Digit \cup Upper \cup Lower

\* Where commands keeps the task registered for c.
CommandIndex(c) ==
  CASE c \in Digit -> c - 48 [] c \in Upper -> c - 55 [] c \in Lower -> c - 61

\* The KCD's own memory.  msg_body is the first byte behind the header in its
\* only message buffer, which stays there until a message overwrites it.
KcdState == [commands : [0 .. 61 -> 0 .. MAX_TASKS],
             command_string : [0 .. BUF - 1 -> Byte],
             count : 0 .. BUF + 1,
             msg_body : Byte]

\* Neither command_string nor the message buffer is initialised: s and b are
\* what they happen to contain.
KcdInit(s, b) == [commands |-> [i \in 0 .. 61 |-> MAX_TASKS],
                  command_string |-> s, count |-> 0, msg_body |-> b]

\* recv_msg copies the message m into the buffer.
Received(k, m) == IF m.body = <<>> THEN k ELSE [k EXCEPT !.msg_body = Head(m.body)]

\* recv_msg takes a header and one byte; what is longer is lost (RTX_ERR).
Fits(m) == Len(m.body) <= 1

\* The array f once v has been stored at i.  C does not ask whether i is an index of f:
\* if it is not, what is behind f is overwritten, and f is no longer what it was.
Stored(f, i, v) == [j \in DOMAIN f \cup {i} |-> IF j = i THEN v ELSE f[j]]

\* Mutant of Register: the first registration counts.
Register_First(k, from) ==
  IF IsCommand(k.msg_body) /\ k.commands[CommandIndex(k.msg_body)] = MAX_TASKS
  THEN [k EXCEPT !.commands = Stored(k.commands, CommandIndex(k.msg_body), from)] ELSE k

\* A registration: the last one for a command counts.
Register(k, from) ==
  IF IsCommand(k.msg_body)
  THEN [k EXCEPT !.commands = Stored(k.commands, CommandIndex(k.msg_body), from)] ELSE k

\* Mutant of StoreKey: one key too many is stored.
StoreKey_OneMore(k) ==
  IF k.count <= BUF
  THEN [k EXCEPT !.command_string = Stored(k.command_string, k.count, k.msg_body),
                 !.count = k.count + 1]
  ELSE [k EXCEPT !.count = BUF + 1]

\* A key other than Enter.  A count of BUF + 1 marks a line that is too long.
StoreKey(k) ==
  IF k.count < BUF
  THEN [k EXCEPT !.command_string = Stored(k.command_string, k.count, k.msg_body),
                 !.count = k.count + 1]
  ELSE [k EXCEPT !.count = BUF + 1]

\* Enter: whom the line in the buffer is for, if for anybody.
Addressee(k) ==
  LET c == k.command_string[1]
  IN  IF k.command_string[0] = Percent /\ k.count <= BUF /\ IsCommand(c)
      THEN k.commands[CommandIndex(c)] ELSE MAX_TASKS

\* The KCD_CMD message for it.  count - 1 is what it is told to copy, whether or
\* not that much was typed; an empty line makes it minus one.
CommandMessage(k, to) == [to |-> to, length |-> HdrLen + k.count - 1,
                          body |-> [i \in 1 .. k.count - 1 |-> k.command_string[i]]]

\* Mutant of AfterEnter: a line that cannot be processed is kept.
AfterEnter_KeepsRefused(k, sends) == IF sends THEN [k EXCEPT !.count = 0] ELSE k

\* Enter starts a new line; the buffer itself is not cleared.
AfterEnter(k, sends) ==
  [k EXCEPT !.count = 0,
            !.msg_body = IF sends /\ k.count > 1 THEN k.command_string[1] ELSE @]

NoCommand(k) == [kcd |-> k, out |-> <<>>]

\* One pass of the loop: the message m has been received, the tasks in dormant
\* are DORMANT.  out is the message the KCD sends then, if any.
Handle(k0, m, dormant) ==
  LET k == Received(k0, m)
      to == Addressee(k)
      sends == to < MAX_TASKS /\ to \notin dormant
      typed == m.type = KEY_IN /\ m.from = TID_UART_IRQ
  IN  CASE m.type = KCD_REG -> NoCommand(Register(k, m.from))
        [] typed /\ k.msg_body # CR -> NoCommand(StoreKey(k))
        [] typed /\ k.msg_body = CR ->
             [kcd |-> AfterEnter(k, sends), out |-> IF sends THEN <<CommandMessage(k, to)>> ELSE <<>>]
        [] OTHER -> NoCommand(k)
=============================================================================
