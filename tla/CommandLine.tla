---------------------------- MODULE CommandLine ----------------------------
(***************************************************************************)
(* What the keyboard command dispatcher promises: a line that begins with  *)
(* % and a command goes, without the %, to the task that registered the    *)
(* command last, provided it is alive; any other line goes nowhere.        *)
(***************************************************************************)
EXTENDS Naturals, Sequences

CONSTANTS
  Char,      \* the characters
  Task,      \* the tasks
  NoTask,    \* the owner of a command nobody registered
  Limit      \* the longest line, % included

Enter   == 13
Percent == 37

\* The characters that can be registered: 0-9, A-Z and a-z.
Command == {c \in Char : c \in (48 .. 57) \cup (65 .. 90) \cup (97 .. 122)}

VARIABLES
  owner,     \* who registered each command last
  alive,     \* the tasks that exist
  line,      \* what was typed since the last Enter, up to Limit characters
  overlong,  \* more than that was typed
  input,     \* history: the key pressed or the message sent last
  parity,    \* history: of the number of keys: none goes by without a step
  sent       \* the command this step sent: one, or none

lineVars == <<owner, alive, line, overlong, input, parity, sent>>

LineInit == /\ owner = [c \in Command |-> NoTask]
            /\ line = <<>> /\ overlong = FALSE /\ sent = <<>>
            /\ input = [op |-> "none"] /\ parity = 0

\* The task t asks for c.
RegisterFor(t, c) ==
  /\ input' = [op |-> "register", from |-> t, body |-> <<c>>]
  /\ owner' = [owner EXCEPT ![c] = t]
  /\ sent' = <<>>
  /\ UNCHANGED <<alive, line, overlong, parity>>

\* The user presses c.
Pressed(c) == input' = [op |-> "key", char |-> c] /\ parity' = 1 - parity

Type(c) ==
  /\ Pressed(c) /\ c # Enter
  /\ IF Len(line) < Limit THEN line' = Append(line, c) /\ UNCHANGED overlong
     ELSE overlong' = TRUE /\ UNCHANGED line
  /\ sent' = <<>>
  /\ UNCHANGED <<owner, alive>>

\* The line asks for a command of a task that is alive.
ForSomebody == /\ ~overlong /\ Len(line) >= 2 /\ line[1] = Percent
               /\ line[2] \in Command /\ owner[line[2]] \in alive

Dispatch ==
  /\ Pressed(Enter)
  /\ sent' = IF ForSomebody THEN <<[to |-> owner[line[2]], body |-> Tail(line)]>> ELSE <<>>
  /\ line' = <<>> /\ overlong' = FALSE
  /\ UNCHANGED <<owner, alive>>

\* The message asks for one command that there is.
IsRequest(i) == i.op = "register" /\ \E c \in Command : i.body = <<c>>

\* A message that is neither a key nor a request for a command.
Ignore == /\ input'.op # "key" /\ ~IsRequest(input')
          /\ sent' = <<>>
          /\ UNCHANGED <<owner, alive, line, overlong, parity>>

\* A task comes or goes.
ComeOrGo == /\ alive' \subseteq Task
            /\ UNCHANGED <<owner, line, overlong, input, parity, sent>>

LineNext == \/ \E t \in Task, c \in Command : RegisterFor(t, c)
            \/ \E c \in Char : Type(c)
            \/ Dispatch
            \/ Ignore
            \/ ComeOrGo

LineSpec == LineInit /\ [][LineNext]_lineVars
=============================================================================
