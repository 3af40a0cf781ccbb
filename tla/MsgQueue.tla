------------------------------ MODULE MsgQueue ------------------------------
(***************************************************************************)
(* What a mailbox promises: messages come out whole and in the order they  *)
(* went in, and one is refused only if the mailbox has no room for it.     *)
(***************************************************************************)
EXTENDS Naturals, Sequences

CONSTANTS
  Message,    \* the messages
  Size(_),    \* the bytes a message takes up
  Capacity    \* the bytes a mailbox holds

VARIABLES
  queue,      \* the messages in the mailbox, oldest first
  got         \* the messages taken out last: one, or none yet

\* The bytes in use.
Filled ==
  LET sum[n \in 0 .. Len(queue)] == IF n = 0 THEN 0 ELSE sum[n - 1] + Size(queue[n])
  IN  sum[Len(queue)]

HasRoom(m) == Filled + Size(m) <= Capacity

QueueInit == queue = <<>> /\ got = <<>>

Put(m) == HasRoom(m) /\ queue' = Append(queue, m) /\ UNCHANGED got

Take == queue # <<>> /\ queue' = Tail(queue) /\ got' = <<Head(queue)>>

QueueNext == Take \/ \E m \in Message : Put(m)

QueueSpec == QueueInit /\ [][QueueNext]_<<queue, got>>
=============================================================================
