-------------------------------- MODULE KMsg --------------------------------
(***************************************************************************)
(* The kernel with message passing: the task manager (KTask), the mailbox  *)
(* system calls (k_msg.c) and the UART receive interrupt (HAL_CA.c), which *)
(* posts keystrokes to the KCD's mailbox from whatever task was running.   *)
(*                                                                         *)
(* A mailbox is here what mailbox.c promises of it: a FIFO of messages in a*)
(* bounded number of bytes.  How the bytes are used is not modelled here.  *)
(***************************************************************************)
EXTENDS KTask

CONSTANTS
  MbxSizes,     \* arguments of mbx_create
  MsgLens,      \* lengths of the messages tasks send, header included
  MaxBurst,     \* bound on the characters one UART interrupt finds
  StaleSlotsReused  \* may a TCB that still points at the mailbox of a task that
                    \* ended be used again?

KeyLen    == 9   \* sizeof(U8) + sizeof(RTX_MSG_HDR)
MbxHeader == 8   \* sizeof(mailbox)
TidSize   == 1   \* sizeof(task_t), stored with each message

\* Lengths the code subtracts a header from are at least a header; shorter ones
\* pass the checks against MIN_MSG_SIZE and MIN_MBX_SIZE and then wrap around.
ASSUME MsgAssumption == /\ MbxSizes \subseteq Nat /\ \A s \in MbxSizes : s >= MbxHeader
                        /\ MsgLens \subseteq Nat /\ \A l \in MsgLens : l >= 8
                        /\ MaxBurst \in Nat
                        /\ StaleSlotsReused \in BOOLEAN

VARIABLES
  box,       \* the contents of each heap block that was made a mailbox
  in_recv    \* the tasks that called k_recv_msg, blocked and have not returned

msgVars == <<box, in_recv>>
vars == <<state, prio, priv, usp, mbx, ready, gp_current_task, g_num_active_tasks,
          current_tid, heap, boot_i, boot_left, box, in_recv>>

\* A message is known by its length: no kernel decision looks further into it.
Mailbox == [size : Nat, msgs : Seq(Nat)]

MsgTypeOK ==
  /\ TypeOK
  /\ box \in [Block -> Mailbox]
  /\ in_recv \subseteq TaskId

-----------------------------------------------------------------------------
(* Mailboxes.                                                              *)

\* Bytes a message occupies: its length and the sender's id.
Footprint(len) == len + TidSize

\* Bytes that the messages ms occupy together.
Load(ms) ==
  LET sum[n \in 0 .. Len(ms)] == IF n = 0 THEN 0 ELSE sum[n - 1] + Footprint(ms[n])
  IN  sum[Len(ms)]

Used(b) == Load(box[b].msgs)

\* Mutant of Space: the mailbox's own header is not counted.
Space_NoHeader(b) == box[b].size - Used(b)

\* Bytes left in the mailbox at b (push_message's space_remaining).
Space(b) == box[b].size - MbxHeader - Used(b)

\* Mutant of empty: a single message is overlooked.
empty_MissesLast(b) == Len(box[b].msgs) <= 1

empty(b) == box[b].msgs = <<>>

\* Mutant of Push: the first message of an empty mailbox is not linked.
Push_LosesFirst(b, ms) ==
  box' = IF empty(b) THEN box ELSE [box EXCEPT ![b].msgs = @ \o ms]

\* push_message puts the messages ms into the mailbox at b.
Push(b, ms) == box' = [box EXCEPT ![b].msgs = @ \o ms]

\* pop_message takes the oldest message out of the mailbox at b.
Pop(b) == box' = [box EXCEPT ![b].msgs = Tail(@)]

\* Mutant of WokenState: the receiver counts as running at once.
WokenState_Running(r) ==
  IF state[r] = BLK_MSG THEN [state EXCEPT ![r] = RUNNING] ELSE state

\* Mutant of WokenReady: the receiver is queued whether it was blocked or not.
WokenReady_Always(r) == pl_insert(ready, r, prio[r])

\* k_send_msg's wake-up of a receiver blocked in k_recv_msg.
WokenState(r) == IF state[r] = BLK_MSG THEN [state EXCEPT ![r] = READY] ELSE state
WokenReady(r) == IF state[r] = BLK_MSG THEN pl_insert(ready, r, prio[r]) ELSE ready

-----------------------------------------------------------------------------
(* System calls.                                                           *)

\* The running task is in its own code, not on its way out of k_recv_msg.
InUserCode == CanCall /\ gp_current_task \notin in_recv

k_mbx_create(size) ==
  /\ InUserCode
  /\ mbx[gp_current_task] = NULL
  /\ \E b \in Block :
       /\ k_mem_alloc_with_tid(b)
       /\ mbx' = [mbx EXCEPT ![gp_current_task] = b]
       /\ box' = [box EXCEPT ![b] = [size |-> size, msgs |-> <<>>]]
  /\ UNCHANGED <<state, prio, priv, usp, ready, gp_current_task,
                 g_num_active_tasks, current_tid, boot_i, boot_left, in_recv>>

\* The receiver exists and its mailbox has room for the message.
Accepts(r, len) == state[r] # DORMANT /\ mbx[r] # NULL /\ Space(mbx[r]) >= Footprint(len)

k_send_msg(r, len) ==
  /\ InUserCode
  /\ Accepts(r, len)
  /\ Push(mbx[r], <<len>>)
  /\ run_new_wrapper(TRUE, WokenReady(r), WokenState(r), prio)
  /\ UNCHANGED <<prio, priv, usp, mbx, g_num_active_tasks, current_tid, heap,
                 boot_i, boot_left, in_recv>>

\* The message is gone whether or not the caller's buffer was big enough for it.
RecvNow ==
  LET b == mbx[gp_current_task]
  IN  /\ InUserCode
      /\ b # NULL
      /\ ~empty(b)
      /\ Pop(b)
      /\ UNCHANGED <<taskVars, in_recv>>

RecvBlock ==
  LET cur == gp_current_task
  IN  /\ InUserCode
      /\ mbx[cur] # NULL
      /\ empty(mbx[cur])
      /\ in_recv' = in_recv \cup {cur}
      /\ run_new_wrapper(FALSE, ready, [state EXCEPT ![cur] = BLK_MSG], prio)
      /\ UNCHANGED <<prio, priv, usp, mbx, g_num_active_tasks, current_tid, heap,
                     boot_i, boot_left, box>>

\* A receiver that was blocked has the CPU again: it comes back from
\* run_new_wrapper inside k_recv_msg and pops without looking for mail again.
RecvResume ==
  LET cur == gp_current_task
  IN  /\ cur \in in_recv
      /\ Pop(mbx[cur])
      /\ in_recv' = in_recv \ {cur}
      /\ UNCHANGED taskVars

-----------------------------------------------------------------------------
(* The UART receive interrupt.  It is taken in the running task's own code: *)
(* system calls run with interrupts masked, and so does the null task, which*)
(* is main() after a boot that never unmasks them.  All the keystrokes of a *)
(* burst are posted before the one scheduling decision at the end.          *)

\* How many of n keystrokes the KCD's mailbox takes: as many as fit.
KeysAccepted(n) ==
  IF state[TID_KCD] = DORMANT \/ mbx[TID_KCD] = NULL THEN 0
  ELSE Max({0} \cup {k \in 1 .. n : k * Footprint(KeyLen) <= Space(mbx[TID_KCD])})

c_IRQ_Handler(n) ==
  LET k == KeysAccepted(n)
  IN  /\ InUserCode
      /\ IF k = 0
         THEN k_tsk_run_new(ready, state, prio) /\ UNCHANGED box
         ELSE /\ k_tsk_run_new(WokenReady(TID_KCD), WokenState(TID_KCD), prio)
              /\ Push(mbx[TID_KCD], [i \in 1 .. k |-> KeyLen])
      /\ UNCHANGED <<prio, priv, usp, mbx, g_num_active_tasks, current_tid, heap,
                     boot_i, boot_left, in_recv>>

-----------------------------------------------------------------------------
(* The calls of the task manager leave the mailboxes alone.                *)

Returned == gp_current_task \notin in_recv

MsgInit == /\ Init
           /\ box = [b \in Block |-> [size |-> 0, msgs |-> <<>>]]
           /\ in_recv = {}

\* TCBs that still point at the mailbox of a task that ended.
StaleSlots == {t \in TaskId : state[t] = DORMANT /\ mbx[t] # NULL}

BootM    == Boot /\ UNCHANGED msgVars
YieldM   == Returned /\ k_tsk_yield /\ UNCHANGED msgVars
CreateM  == /\ Returned
            /\ FreeSlot \notin StaleSlots \/ StaleSlotsReused
            /\ Create /\ UNCHANGED msgVars
ExitM    == Returned /\ k_tsk_exit /\ UNCHANGED msgVars
SetPrioM == Returned /\ SetPrio /\ UNCHANGED msgVars
MbxCreate == \E s \in MbxSizes : k_mbx_create(s)
SendMsg   == \E r \in TaskId, l \in MsgLens : k_send_msg(r, l)
RecvMsg   == RecvNow \/ RecvBlock
UartIrq   == \E n \in 1 .. MaxBurst : c_IRQ_Handler(n)

Next == \/ BootM \/ YieldM \/ CreateM \/ ExitM \/ SetPrioM
        \/ MbxCreate \/ SendMsg \/ RecvMsg \/ RecvResume \/ UartIrq

Spec == MsgInit /\ [][Next]_vars

\* Tasks cooperate: whoever has the CPU yields sooner or later.  The kernel has no
\* time slice, so without this a task may keep the CPU for ever.  And the kernel
\* finishes a k_recv_msg it resumed: that code has nothing to wait for.
FairSpec == /\ Spec
            /\ WF_vars(BootM) /\ WF_vars(YieldM) /\ WF_vars(RecvResume)

-----------------------------------------------------------------------------
(* What makes message passing correct.                                     *)

Live(t) == state[t] # DORMANT

\* What mbx points at is a mailbox: push_message takes a pointer that is not NULL
\* to mean that the receiver has one ("check to see if receiver has mailbox?",
\* mailbox.c:26).
MailboxAllocated == \A t \in TaskId : Live(t) /\ mbx[t] # NULL => mbx[t] \in heap

\* No lost wake-up: a blocked receiver is inside k_recv_msg and has no mail.
\* Mail in its box would never be announced, for only the next send to find
\* it blocked wakes it.
BlockedHasNoMail ==
  \A t \in TaskId : state[t] = BLK_MSG =>
     t \in in_recv /\ mbx[t] # NULL /\ box[mbx[t]].msgs = <<>>

\* A receiver that was woken finds mail whenever it gets round to popping it.
\* pop_message returns NULL on an empty mailbox and k_recv_msg dereferences that.
WokenHasMail ==
  \A t \in in_recv : state[t] # BLK_MSG =>
     Live(t) /\ mbx[t] # NULL /\ box[mbx[t]].msgs # <<>>

\* What a live task calls its mailbox is allocated, is nobody else's mailbox
\* and is nobody's stack.
MailboxesPrivate ==
  \A t \in TaskId : Live(t) /\ mbx[t] # NULL =>
     /\ mbx[t] \in heap
     /\ \A u \in TaskId \ {t} : Live(u) => mbx[u] # mbx[t]
     /\ \A u \in UserTasks : usp[u] # mbx[t]

\* Nothing leaks: every allocated block is the stack or the mailbox of a live task.
NoLeak == heap \subseteq {usp[t] : t \in UserTasks} \cup {mbx[t] : t \in {u \in TaskId : Live(u)}}

\* push_message never accepts more than the mailbox holds, however calls and
\* interrupts share it.
WithinCapacity ==
  \A t \in TaskId : Live(t) /\ mbx[t] # NULL => Used(mbx[t]) <= box[mbx[t]].size - MbxHeader

\* A wake-up takes effect at once: a receiver more urgent than everyone waiting
\* and no less urgent than the running task has the CPU when the call or the
\* interrupt that woke it ends.
WakeupPreempts ==
  [][\A r \in TaskId :
       /\ state[r] = BLK_MSG /\ state'[r] # BLK_MSG
       /\ prio[r] <= prio[gp_current_task]
       /\ \A u \in TaskId : state[u] = READY => prio[r] < prio[u]
       => gp_current_task' = r]_vars

\* A woken receiver gets to take its mail if nobody runnable beats its priority,
\* although sends and interrupts keep re-ordering its list, once set_prio stops.
WokenReceives ==
  \A t \in TaskId :
    (/\ <>[](\A u \in TaskId : state[u] \in {READY, RUNNING} => prio[t] <= prio[u])
     /\ <>[][~SetPrio]_vars)
    => ((t \in in_recv /\ state[t] = READY) ~> (t \notin in_recv))
=============================================================================
