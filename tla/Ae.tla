--------------------------------- MODULE Ae ---------------------------------
(***************************************************************************)
(* The whole system under its own tests: the kernel of KMsg, the KCD, the   *)
(* test programs, and a keyboard whose characters wait in the UART until    *)
(* the receive interrupt is taken.  The kernel decides by the lengths of    *)
(* messages (box); here they have senders, types and bodies as well (mail). *)
(***************************************************************************)
EXTENDS KMsg

CONSTANTS
  BUF, Iterations, Dequeues,  \* see KcdTask and AeScripts
  Tests,       \* the values of TEST to run
  HeapBytes,   \* no mailbox is larger than that
  NoiseKeys,   \* how many keys the user presses that no test asks for
  FifoMax      \* characters the UART holds

INSTANCE AeScripts

VARIABLES
  test,     \* the value of TEST the system was built with
  ptask,    \* the program of each task
  pc,       \* the next call of that program
  mail,     \* the messages in each task's mailbox
  kcd,      \* the KCD's memory
  out,      \* the command the KCD is about to send, if any
  turn,     \* the variable of that name of TEST 2
  what,     \* what_to_send of TEST 3: the number of the next message
  marks,    \* tests each task counted as passed
  failed,   \* the calls that did not do what the test wanted
  fifo,     \* the characters in the UART
  typed     \* number of keys pressed

appVars == <<test, ptask, pc, mail, kcd, out, turn, what, marks, failed>>
aeVars == <<vars, appVars, fifo, typed>>

cur == gp_current_task

Script(t) == Programs[test + 1][ptask[t]]
Now == Script(cur)[pc[cur]]

-----------------------------------------------------------------------------
(* A call returns: the program goes on, or skips what depends on it.       *)

\* The task's program continues after a call that went well (good) or did not.
Advance(c, good) ==
  LET next == pc[cur] + 1 + (IF good THEN 0 ELSE c.skip)
      last == Len(Script(cur))
  IN  /\ pc' = [pc EXCEPT ![cur] = IF next > last THEN last ELSE next]
      /\ failed' = IF good THEN failed ELSE failed \cup {<<cur, pc[cur]>>}
      /\ marks' = IF good THEN [marks EXCEPT ![cur] = @ + c.scores] ELSE marks

\* A call that enters the kernel and comes back without changing anything.
Rejected(c) == /\ Advance(c, c.want = ERR)
               /\ UNCHANGED <<vars, test, ptask, mail, kcd, out, turn, what>>

\* The allocator answers with the lowest free block (first fit).
FirstFit == heap' \subseteq heap \/ heap' \ heap = {Min(Block \ heap)}

Calls(name) == InUserCode /\ Now.call = name

-----------------------------------------------------------------------------
(* The calls of the test programs.                                         *)

MbxCreates ==
  LET c == Now
      refused == mbx[cur] # NULL \/ c.size < 1 \/ c.size > HeapBytes \/ heap = Block
  IN  /\ Calls("mbx_create")
      /\ IF refused THEN Rejected(c)
         ELSE /\ k_mbx_create(c.size) /\ FirstFit
              /\ Advance(c, c.want = OK)
              /\ UNCHANGED <<test, ptask, mail, kcd, out, turn, what>>

\* The messages ms are in r's mailbox.
Posted(r, ms) == mail' = [mail EXCEPT ![r] = @ \o ms]

\* send_msg of a body of this type; accepted messages go behind those that wait.
Send(c, r, type, body) ==
  /\ IF Accepts(r, HdrLen + Len(body))
     THEN /\ k_send_msg(r, HdrLen + Len(body))
          /\ Posted(r, <<[from |-> cur, type |-> type, body |-> body]>>)
          /\ Advance(c, c.want = OK)
     ELSE /\ Advance(c, c.want = ERR)
          /\ UNCHANGED <<vars, mail>>
  /\ UNCHANGED <<test, ptask, kcd, out, turn>>

Sends == /\ Calls("send_msg")
         /\ Send(Now, Now.to, Now.type, Now.body) /\ UNCHANGED what

\* TEST 2: task 2 tells task 1 how many tests it passed.
Reports == /\ Calls("report")
           /\ Send(Now, 1, DEFAULT, <<marks[cur]>> \o GTA) /\ UNCHANGED what

\* TEST 3: the next number.
SendsNext == /\ Calls("send_next")
             /\ Send(Now, 1, DEFAULT, Number(what)) /\ what' = what + 1

\* TEST 3: numbers are sent until one is refused.
Fills ==
  LET full == ~Accepts(1, HdrLen + 4)
  IN  /\ Calls("fill")
      /\ IF full
         THEN /\ Advance(Now, what > Dequeues)
              /\ UNCHANGED <<vars, test, ptask, mail, kcd, out, turn, what>>
         ELSE /\ k_send_msg(1, HdrLen + 4)
              /\ Posted(1, <<[from |-> cur, type |-> DEFAULT, body |-> Number(what)]>>)
              /\ what' = what + 1
              /\ UNCHANGED <<test, ptask, pc, kcd, out, turn, marks, failed>>

\* What recv_msg returns for m, and whether the test is content with it.
Result(c, m) == IF HdrLen + Len(m.body) > c.cap THEN ERR ELSE OK
Wanted(c, m) == /\ Result(c, m) \in c.want
                /\ Result(c, m) = OK => m.from \in c.froms /\ m.type \in c.types /\ m.body \in c.bodies

Takes(c) ==
  /\ RecvNow \/ RecvResume
  /\ mail' = [mail EXCEPT ![cur] = Tail(@)]
  /\ Advance(c, Wanted(c, Head(mail[cur])))
  /\ UNCHANGED <<test, ptask, kcd, out, turn, what>>

Receives ==
  LET c == Now
  IN  /\ CanCall /\ c.call = "recv_msg"
      /\ IF mbx[cur] = NULL
         THEN /\ Advance(c, ERR \in c.want)
              /\ UNCHANGED <<vars, test, ptask, mail, kcd, out, turn, what>>
         ELSE \/ Takes(c)
              \/ RecvBlock /\ UNCHANGED appVars

\* Calls with a NULL buffer.
Nulls == (Calls("send_null") \/ Calls("recv_null")) /\ Rejected(Now)

SetsPrio ==
  LET c == Now
  IN  /\ Calls("tsk_set_prio")
      /\ IF MaySetPrio(c.task, c.prio)
         THEN k_tsk_set_prio(c.task, c.prio) /\ UNCHANGED msgVars /\ Advance(c, TRUE)
         ELSE Advance(c, FALSE) /\ UNCHANGED vars
      /\ UNCHANGED <<test, ptask, mail, kcd, out, turn, what>>

\* tsk_create: the new task's program begins at its first call.
Creates ==
  LET c == Now
      tid == FreeSlot
  IN  /\ Calls("tsk_create")
      /\ k_tsk_create(c.prio) /\ FirstFit /\ UNCHANGED msgVars
      /\ ptask' = [ptask EXCEPT ![tid] = c.program]
      /\ pc' = [pc EXCEPT ![cur] = @ + 1, ![tid] = 1]
      /\ UNCHANGED <<test, mail, kcd, out, turn, what, marks, failed>>

\* tsk_get_info only reads; of a DORMANT task there is nothing to tell.
GetsInfo ==
  LET c == Now
      result == IF state[c.task] = DORMANT THEN ERR ELSE OK
  IN  /\ Calls("tsk_get_info")
      /\ Advance(c, c.want = result)
      /\ UNCHANGED <<vars, test, ptask, mail, kcd, out, turn, what>>

\* The mailbox goes with the task, and the mail in it.
Exits == /\ Calls("tsk_exit")
         /\ ExitM
         /\ mail' = [mail EXCEPT ![cur] = <<>>]
         /\ UNCHANGED <<test, ptask, pc, kcd, out, turn, what, marks, failed>>

Yields == Calls("yield_forever") /\ YieldM /\ UNCHANGED appVars

\* TEST 2: task 2 spins on turn, without a call, until task 1 sets it.
Turns == /\ \/ Calls("set_turn") /\ turn' = 2
            \/ Calls("wait_turn") /\ turn = 2 /\ UNCHANGED turn
         /\ Advance(Now, TRUE)
         /\ UNCHANGED <<vars, test, ptask, mail, kcd, out, what>>

-----------------------------------------------------------------------------
(* The KCD.                                                                *)

\* The tasks whose commands cannot be processed because they ended.
DormantTasks == {t \in TaskId : state[t] = DORMANT}

KcdReceives ==
  LET m == Head(mail[cur])
      h == Handle(kcd, m, DormantTasks)
  IN  /\ CanCall /\ Now.call = "kcd_loop" /\ mbx[cur] # NULL /\ out = <<>>
      /\ \/ /\ RecvNow \/ RecvResume
            /\ mail' = [mail EXCEPT ![cur] = Tail(@)]
            /\ IF Fits(m) THEN kcd' = h.kcd /\ out' = h.out ELSE UNCHANGED <<kcd, out>>
            /\ UNCHANGED <<test, ptask, pc, turn, what, marks, failed>>
         \/ RecvBlock /\ UNCHANGED appVars

\* The addressee may have ended or its mailbox filled up since: the KCD tells the
\* user and forgets the command.
KcdSends ==
  /\ Calls("kcd_loop") /\ out # <<>>
  /\ LET r == out[1].to
     IN  IF Accepts(r, out[1].length)
         THEN /\ k_send_msg(r, out[1].length)
              /\ Posted(r, <<[from |-> cur, type |-> KCD_CMD, body |-> out[1].body]>>)
         ELSE UNCHANGED <<vars, mail>>
  /\ out' = <<>>
  /\ UNCHANGED <<test, ptask, pc, kcd, turn, what, marks, failed>>

-----------------------------------------------------------------------------
(* The keyboard.                                                           *)

Line(c) == <<Percent, c>> \o GTA \o <<CR>>
Lines == IF test # 2 THEN <<>>
         ELSE <<Line(Letter_c), Line(Letter_c), Line(Letter_c), Line(Letter_d),
                Line(Letter_c), Line(Letter_d)>>
LineLen == 6
AskedKeys == LineLen * Len(Lines)

\* How many lines the tasks have asked for: they do so right before each recv_msg.
Prompts == Cardinality({<<t, i>> \in {1, 2} \X (1 .. 12) :
             /\ ptask[t] \in {"utask1", "utask2"} /\ i <= pc[t]
             /\ Script(t)[i].call = "recv_msg" /\ Script(t)[i].prompt})

\* The user types a line when it is asked for, and presses a few other keys whenever.
KeyAt(n) == IF n < AskedKeys THEN Lines[(n \div LineLen) + 1][(n % LineLen) + 1] ELSE 120
MayType == IF typed < AskedKeys THEN Prompts > typed \div LineLen
           ELSE typed < AskedKeys + NoiseKeys

KeyPress ==
  /\ Booted /\ MayType /\ Len(fifo) < FifoMax
  /\ fifo' = Append(fifo, KeyAt(typed))
  /\ typed' = typed + 1
  /\ UNCHANGED <<vars, appVars>>

\* The receive interrupt empties the UART into the KCD's mailbox, as far as it goes.
UartInterrupt ==
  LET n == Len(fifo)
      keys == [i \in 1 .. KeysAccepted(n) |->
                 [from |-> TID_UART_IRQ, type |-> KEY_IN, body |-> <<fifo[i]>>]]
  IN  /\ fifo # <<>>
      /\ c_IRQ_Handler(n)
      /\ Posted(TID_KCD, keys)
      /\ fifo' = <<>>
      /\ UNCHANGED <<test, ptask, pc, kcd, out, turn, what, marks, failed, typed>>

-----------------------------------------------------------------------------
(* Boot and the system as a whole.                                         *)

AeInit ==
  /\ MsgInit
  /\ test \in Tests
  /\ boot_left = Len(BootTable(test))
  /\ ptask = [t \in TaskId |-> "none"]
  /\ pc = [t \in TaskId |-> 1]
  /\ mail = [t \in TaskId |-> <<>>]
  /\ kcd = KcdInit([i \in 0 .. BUF - 1 |-> 0], 0)
  /\ out = <<>>
  /\ turn = 1
  /\ what = 0
  /\ marks = [t \in TaskId |-> 0]
  /\ failed = {}
  /\ fifo = <<>>
  /\ typed = 0

\* One entry of the boot table; an unusable one ends the boot.
AeBoot ==
  LET table == BootTable(test)
      e == table[Len(table) - boot_left + 1]
      isKcd == e.ptask = "kcd_task"
      tid == IF isKcd THEN TID_KCD ELSE boot_i + 1
      bad == e.priv = 0 /\ e.u_stack_size < MinStack
  IN  /\ BootTask(isKcd, e.prio, e.priv) /\ FirstFit
      /\ g_num_active_tasks' = g_num_active_tasks + (IF bad THEN 0 ELSE 1)
      /\ bad => boot_left' = 0
      /\ ptask' = [ptask EXCEPT ![tid] = e.ptask]
      /\ UNCHANGED <<msgVars, test, pc, mail, kcd, out, turn, what, marks, failed>>

NullYields == Booted /\ cur = TID_NULL /\ YieldM /\ UNCHANGED appVars

\* The CPU goes on.
CpuStep == /\ \/ AeBoot \/ NullYields
              \/ MbxCreates \/ Sends \/ Reports \/ SendsNext \/ Fills \/ Receives \/ Nulls
              \/ SetsPrio \/ Creates \/ GetsInfo \/ Exits \/ Yields \/ Turns
              \/ KcdReceives \/ KcdSends
           /\ UNCHANGED <<fifo, typed>>

AeNext == CpuStep \/ UartInterrupt \/ KeyPress

\* The CPU never stops, an interrupt that stays possible is taken, and the user
\* types what the test asks for.
AeSpec == /\ AeInit /\ [][AeNext]_aeVars
          /\ WF_aeVars(CpuStep) /\ WF_aeVars(UartInterrupt) /\ WF_aeVars(KeyPress)

-----------------------------------------------------------------------------
(* What the tests expect of the system.                                    *)

Ended(t) == state[t] = DORMANT /\ Booted

\* Every call of every test does what the test wants, wherever keystrokes interrupt it
\* and however tasks are preempted, and a score is complete when it is printed.
TestsPass ==
  /\ failed = {}
  /\ Marks(test) # 0 /\ Ended(1) => marks[1] + marks[2] = Marks(test)

\* Every test comes to its end, although task 2 of TEST 2 spins without a call and the
\* programs wait for each other and for the user; in TEST 0 both kernel tasks go on.
TestsEnd ==
  /\ (test # 0) => <>[](\A t \in TaskId : ptask[t] \in {"utask1", "utask2"} => Ended(t))
  /\ (test = 0) => []<>(cur = 1) /\ []<>(cur = 2)

\* While some task other than the null task is left to run, no keystroke waits for
\* ever.  The null task runs with interrupts masked: without task 3, the keys pressed
\* after the end of TEST 2 would never be seen.
KeysAreSeen == (test = 2) => (fifo # <<>> ~> fifo = <<>>)
=============================================================================
