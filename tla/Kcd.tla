-------------------------------- MODULE Kcd --------------------------------
(***************************************************************************)
(* The KCD among tasks that register commands, come and go, and send it all *)
(* kinds of messages, and a user who types.  Messages reach it one by one,  *)
(* in the order its mailbox received them (KMsg models the waiting).        *)
(***************************************************************************)
EXTENDS KcdTask, FiniteSets

CONSTANTS
  Senders,     \* the tasks that talk to the KCD
  Keys,        \* the keys the user presses
  Bodies,      \* what tasks put into their messages
  Garbage,     \* what uninitialised memory holds
  Careful      \* FALSE: Enter is pressed on lines with less than % and a command,
               \* and tasks register with messages that have no body

ASSUME InputAssumption == /\ Senders \subseteq 1 .. MAX_TASKS - 1
                          /\ Keys \subseteq Byte /\ Bodies \subseteq Byte
                          /\ Garbage \subseteq Byte
                          /\ Careful \in BOOLEAN

VARIABLES
  kcd,     \* the KCD's memory
  alive,   \* the tasks that are not DORMANT
  input,   \* history: the key pressed or the message sent to the KCD last
  parity,  \* history: of the number of keys the user pressed
  sent     \* the command sent in the last pass of the loop: one, or none

kcdVars == <<kcd, alive, input, parity, sent>>

Dormant == Senders \ alive

Init == /\ \E b \in Garbage, s \in [0 .. BUF - 1 -> Garbage] : kcd = KcdInit(s, b)
        /\ alive = Senders
        /\ input = [op |-> "none"] /\ parity = 0
        /\ sent = <<>>

\* The KCD receives m.  The send_msg that may end the pass reports a full mailbox
\* to the user and changes nothing here.
Receive(m) ==
  /\ IF Fits(m)
     THEN LET h == Handle(kcd, m, Dormant)
          IN  kcd' = h.kcd /\ sent' = h.out
     ELSE sent' = <<>> /\ UNCHANGED kcd
  /\ UNCHANGED alive

Keystroke == \E c \in Keys :
  /\ Careful /\ c = CR => kcd.count >= 2
  /\ Receive([from |-> TID_UART_IRQ, type |-> KEY_IN, body |-> <<c>>])
  /\ input' = [op |-> "key", char |-> c] /\ parity' = 1 - parity

\* The bodies of tasks' messages: none, one byte, or too much.
TaskBody == {<<c>> : c \in Bodies} \cup {<<c, c>> : c \in Bodies}

Registration == \E t \in alive, b \in TaskBody \cup (IF Careful THEN {} ELSE {<<>>}) :
  /\ Receive([from |-> t, type |-> KCD_REG, body |-> b])
  /\ input' = [op |-> "register", from |-> t, body |-> b] /\ UNCHANGED parity

\* Everything else a task may send: forged keys and types the KCD does not know.
OtherMessage == \E t \in alive, b \in TaskBody \cup {<<>>}, y \in {DEFAULT, KCD_CMD, KEY_IN} :
  /\ Receive([from |-> t, type |-> y, body |-> b])
  /\ input' = [op |-> "other"] /\ UNCHANGED parity

\* tsk_exit does not tell the KCD, nor does tsk_create when it reuses the slot.
ExitOrCreate == \E t \in Senders :
  /\ alive' = IF t \in alive THEN alive \ {t} ELSE alive \cup {t}
  /\ UNCHANGED <<kcd, input, parity, sent>>

Next == Keystroke \/ Registration \/ OtherMessage \/ ExitOrCreate

Spec == Init /\ [][Next]_kcdVars

-----------------------------------------------------------------------------
(* What makes the KCD correct.                                             *)

\* Every registration is stored inside commands and every key inside command_string,
\* whose count stays inside its byte: it stops at BUF + 1 however long the user types.
KcdTypeOK == kcd \in KcdState /\ alive \subseteq Senders

\* The characters counted since the last Enter.
Typed == [i \in 1 .. (IF kcd.count > BUF THEN BUF ELSE kcd.count) |-> kcd.command_string[i - 1]]

Registrable == {c \in Keys \cup Bodies : IsCommand(c)}

\* The buffer, its count and the table behave like a line and a directory that hear
\* what was pressed and sent (input): commands go to the last registrant, whole and only
\* when typed, although the buffer is never cleared and forged, overlong and unknown
\* messages arrive in between.
Promise == INSTANCE CommandLine WITH
  Char <- Keys \cup Bodies, Task <- Senders, NoTask <- MAX_TASKS, Limit <- BUF,
  owner <- [c \in Registrable |-> kcd.commands[CommandIndex(c)]],
  line <- Typed, overlong <- (kcd.count > BUF),
  sent <- [i \in DOMAIN sent |-> [to |-> sent[i].to, body |-> sent[i].body]]
ImplementsCommandLine == Promise!LineSpec

-----------------------------------------------------------------------------
(* What a comment of the source says and the code does not do.             *)

\* "count the number of times you have put stuff into the command array [...] Upon
\* hearing enter we reset counter to 0" (kcd_task.c:114-115): what is dispatched is
\* what was put there since, so it holds at least the command's own character.
CommandWasTyped == \A i \in DOMAIN sent : sent[i].length > HdrLen
=============================================================================
