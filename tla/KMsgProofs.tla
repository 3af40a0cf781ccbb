----------------------------- MODULE KMsgProofs -----------------------------
(***************************************************************************)
(* Proofs about message passing.  First the invariant of the task manager  *)
(* is carried over to the kernel with messages and interrupts: a wake-up   *)
(* and a block prepare the scheduler as the calls of KTask do (KTaskProofs).*)
(* Then the mailboxes: who owns which block, and who waits for mail.       *)
(***************************************************************************)
EXTENDS KMsg, KTaskProofs, InductionLemmas

-----------------------------------------------------------------------------
(* The task manager's invariant in the kernel with messages.               *)

\* A call that neither creates nor ends a task and leaves the scheduler a queue
\* and states that fit together.
LEMMA DispatchStep ==
  ASSUME TaskInv, Booted, NEW rq, NEW st,
         Prepared(rq, st, prio), Dispatched(st, prio),
         \A t \in TaskId : st[t] = DORMANT <=> state[t] = DORMANT,
         st[TID_NULL] \in {READY, RUNNING},
         UNCHANGED <<prio, priv, usp, mbx, g_num_active_tasks, current_tid, heap,
                     boot_i, boot_left>>
  PROVE  TaskInv' /\ MostUrgentRuns' /\ Kept(st)
<1>1. prio[TID_NULL] = PRIO_NULL
  BY DEF TaskInv, NullSchedulable
<1>2. /\ ReadyQueueOK' /\ OneRunning' /\ NullSchedulable' /\ HighestPriorityRuns'
      /\ MostUrgentRuns'
      /\ LiveSet(state') = LiveSet(st)
      /\ Kept(st)
      /\ gp_current_task' \in TaskId
      /\ state' \in [TaskId -> States]
      /\ ready' \in [prio_list : [Prio -> Seq(TaskId)], tree : SUBSET Prio]
  BY <1>1, AfterDispatch
<1>3. TypeOK'
  BY <1>2 DEF TaskInv, TypeOK, States
<1>4. ActiveCount'
  <2>1. LiveSet(st) = LiveSet(state)
    BY DEF LiveSet
  <2> QED BY <1>2, <2>1 DEF TaskInv, ActiveCount, LiveSet
<1>5. BootSlotsFree'
  BY DEF BootSlotsFree, Booted
<1> QED BY <1>2, <1>3, <1>4, <1>5 DEF TaskInv

\* Waking a receiver, or finding that it does not wait, leaves queue and states
\* fit for the scheduler.
LEMMA WokenPrepared ==
  ASSUME TaskInv, NEW r \in TaskId
  PROVE  /\ Prepared(WokenReady(r), WokenState(r), prio)
         /\ \A t \in TaskId : WokenState(r)[t] = DORMANT <=> state[t] = DORMANT
         /\ WokenState(r)[TID_NULL] \in {READY, RUNNING}
         /\ \A t \in TaskId : WokenState(r)[t] = BLK_MSG <=> state[t] = BLK_MSG /\ t # r
<1>1. /\ state \in [TaskId -> States] /\ prio \in [TaskId -> Prio]
      /\ gp_current_task \in TaskId /\ TID_NULL \in TaskId
      /\ state[TID_NULL] \in {READY, RUNNING}
      /\ \A t \in TaskId : state[t] = RUNNING <=> t = gp_current_task
  BY TaskAssumption
     DEF TaskInv, TypeOK, States, NullSchedulable, OneRunning, TID_NULL, TaskId
<1>2. Prepared(ready, state, prio)
  BY RunningPrepared
<1>3. CASE state[r] # BLK_MSG
  BY <1>1, <1>2, <1>3 DEF WokenReady, WokenState
<1>4. CASE state[r] = BLK_MSG
  <2> DEFINE st == [state EXCEPT ![r] = READY]
  <2>1. WokenState(r) = st /\ WokenReady(r) = pl_insert(ready, r, prio[r])
    BY <1>4 DEF WokenReady, WokenState
  <2>2. r \notin ReadySet(state) /\ r # gp_current_task /\ r # TID_NULL
    BY <1>1, <1>4, StateAssumption DEF ReadySet
  <2>3. Queues(pl_insert(ready, r, prio[r]), prio, ReadySet(state) \cup {r})
    BY <1>1, <1>2, <2>2, InsertQueues DEF Prepared
  <2>4. ReadySet(st) = ReadySet(state) \cup {r}
    BY <1>1 DEF ReadySet
  <2>5. st \in [TaskId -> States] /\ st[gp_current_task] = RUNNING
    BY <1>1, <2>2 DEF States
  <2>6. \A t \in TaskId : st[t] = RUNNING => t = gp_current_task
    BY <1>1, <2>2, StateAssumption
  <2>7. Prepared(pl_insert(ready, r, prio[r]), st, prio)
    BY <1>1, <2>3, <2>4, <2>5, <2>6, StateAssumption DEF Prepared, Runnable
  <2>8. /\ \A t \in TaskId : st[t] = DORMANT <=> state[t] = DORMANT
        /\ st[TID_NULL] \in {READY, RUNNING}
        /\ \A t \in TaskId : st[t] = BLK_MSG <=> state[t] = BLK_MSG /\ t # r
    BY <1>1, <1>4, <2>2, StateAssumption
  <2> QED BY <2>1, <2>7, <2>8
<1> QED BY <1>3, <1>4

LEMMA SendStep ==
  ASSUME TaskInv, NEW r \in TaskId, NEW len, k_send_msg(r, len)
  PROVE  TaskInv' /\ MostUrgentRuns' /\ Kept(WokenState(r))
<1>1. /\ Booted
      /\ run_new_wrapper(TRUE, WokenReady(r), WokenState(r), prio)
      /\ UNCHANGED <<prio, priv, usp, mbx, g_num_active_tasks, current_tid, heap,
                     boot_i, boot_left>>
  BY DEF k_send_msg, InUserCode, CanCall
<1>2. Dispatched(WokenState(r), prio)
  BY <1>1, WokenPrepared, WrapperDispatches
<1> QED BY <1>1, <1>2, WokenPrepared, DispatchStep

LEMMA RecvBlockPrepared ==
  ASSUME TaskInv, RecvBlock
  PROVE  Prepared(ready, [state EXCEPT ![gp_current_task] = BLK_MSG], prio)
<1> DEFINE cur == gp_current_task
           st == [state EXCEPT ![cur] = BLK_MSG]
<1>1. /\ Booted /\ cur # TID_NULL
      /\ run_new_wrapper(FALSE, ready, st, prio)
      /\ UNCHANGED <<prio, priv, usp, mbx, g_num_active_tasks, current_tid, heap,
                     boot_i, boot_left>>
  BY DEF RecvBlock, InUserCode, CanCall
<1>2. /\ state \in [TaskId -> States] /\ prio \in [TaskId -> Prio] /\ cur \in TaskId
      /\ \A t \in TaskId : state[t] = RUNNING <=> t = cur
  BY DEF TaskInv, TypeOK, States, OneRunning
<1>3. TID_NULL \in TaskId /\ state[TID_NULL] = READY
  BY <1>1, <1>2, TaskAssumption DEF TaskInv, NullSchedulable, TID_NULL, TaskId
<1>4. Prepared(ready, st, prio)
  <2>1. Queues(ready, prio, ReadySet(state))
    BY QueuesReady DEF TaskInv, TypeOK
  <2>2. ReadySet(st) = ReadySet(state) /\ TID_NULL \in ReadySet(st)
    BY <1>2, <1>3, StateAssumption DEF ReadySet
  <2>3. st \in [TaskId -> States] /\ st[cur] # READY
    BY <1>2, StateAssumption DEF States
  <2>4. \A t \in TaskId : st[t] = RUNNING => t = cur
    BY <1>2, StateAssumption
  <2> QED BY <1>2, <2>1, <2>2, <2>3, <2>4 DEF Prepared
<1> QED BY <1>4

LEMMA RecvBlockStep ==
  ASSUME TaskInv, RecvBlock
  PROVE  /\ TaskInv' /\ MostUrgentRuns'
         /\ Kept([state EXCEPT ![gp_current_task] = BLK_MSG])
<1> DEFINE cur == gp_current_task
           st == [state EXCEPT ![cur] = BLK_MSG]
<1>1. /\ Booted /\ cur # TID_NULL
      /\ run_new_wrapper(FALSE, ready, st, prio)
      /\ UNCHANGED <<prio, priv, usp, mbx, g_num_active_tasks, current_tid, heap,
                     boot_i, boot_left>>
  BY DEF RecvBlock, InUserCode, CanCall
<1>2. /\ state \in [TaskId -> States] /\ prio \in [TaskId -> Prio] /\ cur \in TaskId
      /\ \A t \in TaskId : state[t] = RUNNING <=> t = cur
  BY DEF TaskInv, TypeOK, States, OneRunning
<1>3. TID_NULL \in TaskId /\ state[TID_NULL] = READY
  BY <1>1, <1>2, TaskAssumption DEF TaskInv, NullSchedulable, TID_NULL, TaskId
<1>4. Prepared(ready, st, prio)
  BY RecvBlockPrepared
<1>5. Dispatched(st, prio)
  BY <1>1, <1>4, WrapperDispatches
<1>6. /\ \A t \in TaskId : st[t] = DORMANT <=> state[t] = DORMANT
      /\ st[TID_NULL] \in {READY, RUNNING}
  BY <1>1, <1>2, <1>3, StateAssumption
<1> HIDE DEF st
<1>7. TaskInv' /\ MostUrgentRuns' /\ Kept(st)
  BY <1>1, <1>4, <1>5, <1>6, DispatchStep
<1> QED BY <1>7 DEF st

\* Creating a mailbox takes a block and leaves the tasks alone.
LEMMA MbxCreateStep ==
  ASSUME TaskInv, NEW size, k_mbx_create(size)
  PROVE  TaskInv' /\ MostUrgentRuns' /\ state' = state
<1>1. /\ CanCall /\ heap' \subseteq Block
      /\ UNCHANGED <<state, prio, priv, usp, ready, gp_current_task,
                     g_num_active_tasks, current_tid, boot_i, boot_left>>
      /\ \E b \in Block : mbx' = [mbx EXCEPT ![gp_current_task] = b]
  BY DEF k_mbx_create, InUserCode, k_mem_alloc_with_tid, TaskInv, TypeOK
<1>2. TypeOK'
  BY <1>1 DEF TaskInv, TypeOK
<1>3. MostUrgentRuns'
  BY <1>1 DEF TaskInv, HighestPriorityRuns, MostUrgentRuns, CanCall
<1> QED BY <1>1, <1>2, <1>3
        DEF TaskInv, ReadyQueueOK, QueuedIsReady, ReadyIsQueued, TreeMatchesLists,
            OneRunning, NullSchedulable, ActiveCount, HighestPriorityRuns,
            BootSlotsFree, Booted

\* The interrupt handler wakes the KCD or nobody, and passes the CPU on.
LEMMA IrqStep ==
  ASSUME TaskInv, NEW n, c_IRQ_Handler(n)
  PROVE  /\ TaskInv' /\ MostUrgentRuns'
         /\ \/ KeysAccepted(n) = 0 /\ Kept(state)
            \/ KeysAccepted(n) # 0 /\ Kept(WokenState(TID_KCD))
<1>1. /\ Booted
      /\ UNCHANGED <<prio, priv, usp, mbx, g_num_active_tasks, current_tid, heap,
                     boot_i, boot_left>>
  BY DEF c_IRQ_Handler, InUserCode, CanCall
<1>2. TID_KCD \in TaskId
  BY TaskAssumption DEF TID_KCD, TaskId
<1>3. CASE KeysAccepted(n) = 0
  <2>1. k_tsk_run_new(ready, state, prio) /\ Prepared(ready, state, prio)
    BY <1>3, RunningPrepared DEF c_IRQ_Handler
  <2>2. Dispatched(state, prio)
    BY <2>1, RunNewDispatches
  <2>3. state[TID_NULL] \in {READY, RUNNING}
    BY DEF TaskInv, NullSchedulable
  <2>4. TaskInv' /\ MostUrgentRuns' /\ Kept(state)
    BY <1>1, <2>1, <2>2, <2>3, DispatchStep
  <2> QED BY <1>3, <2>4
<1>4. CASE KeysAccepted(n) # 0
  <2>1. k_tsk_run_new(WokenReady(TID_KCD), WokenState(TID_KCD), prio)
    BY <1>4 DEF c_IRQ_Handler
  <2>2. Dispatched(WokenState(TID_KCD), prio)
    BY <1>2, <2>1, WokenPrepared, RunNewDispatches
  <2>3. TaskInv' /\ MostUrgentRuns' /\ Kept(WokenState(TID_KCD))
    BY <1>1, <1>2, <2>2, WokenPrepared, DispatchStep
  <2> QED BY <1>4, <2>3
<1> QED BY <1>3, <1>4

LEMMA StutterStep ==
  ASSUME TaskInv, UNCHANGED taskVars
  PROVE  TaskInv'
BY DEF taskVars, TaskInv, TypeOK, ReadyQueueOK, QueuedIsReady, ReadyIsQueued,
   TreeMatchesLists, OneRunning, NullSchedulable, ActiveCount, HighestPriorityRuns,
   BootSlotsFree, Booted

LEMMA MsgNextTaskInv ==
  ASSUME TaskInv, [Next]_vars
  PROVE  TaskInv'
<1>1. CASE BootM
  BY <1>1, BootStep DEF BootM, Boot
<1>2. CASE YieldM
  BY <1>2, YieldStep DEF YieldM
<1>3. CASE CreateM
  BY <1>3, CreateStep DEF CreateM, Create
<1>4. CASE ExitM
  BY <1>4, ExitStep DEF ExitM
<1>5. CASE SetPrioM
  BY <1>5, SetPrioStep DEF SetPrioM, SetPrio
<1>6. CASE MbxCreate
  BY <1>6, MbxCreateStep DEF MbxCreate
<1>7. CASE SendMsg
  BY <1>7, SendStep DEF SendMsg
<1>8. CASE RecvMsg
  BY <1>8, RecvBlockStep, StutterStep DEF RecvMsg, RecvNow
<1>9. CASE RecvResume
  BY <1>9, StutterStep DEF RecvResume
<1>10. CASE UartIrq
  BY <1>10, IrqStep DEF UartIrq
<1>11. CASE UNCHANGED vars
  BY <1>11, StutterStep DEF vars, taskVars
<1> QED BY <1>1, <1>2, <1>3, <1>4, <1>5, <1>6, <1>7, <1>8, <1>9, <1>10, <1>11 DEF Next

-----------------------------------------------------------------------------
(* A wake-up takes effect at once.                                         *)

LEMMA WokenRuns ==
  ASSUME TaskInv, NEW r \in TaskId, state[r] = BLK_MSG,
         k_tsk_run_new(WokenReady(r), WokenState(r), prio),
         prio[r] <= prio[gp_current_task],
         \A u \in TaskId : state[u] = READY => prio[r] < prio[u]
  PROVE  gp_current_task' = r
<1> DEFINE rq == WokenReady(r)
           st == WokenState(r)
           cur == gp_current_task
           next == gp_current_task'
<1>1. Prepared(rq, st, prio)
  BY WokenPrepared
<1>2. Dispatched(st, prio)
  BY <1>1, RunNewDispatches
<1>3. st[r] = READY /\ \A t \in TaskId \ {r} : st[t] = state[t]
  BY DEF WokenState, TaskInv, TypeOK
<1>4. /\ cur \in TaskId /\ next \in TaskId
      /\ \A t \in TaskId : prio[t] \in Nat
  BY <1>2, TaskAssumption DEF TaskInv, TypeOK, Dispatched, Prio
<1>5. SUFFICES ASSUME next # r PROVE FALSE
  OBVIOUS
<1> HIDE DEF rq, st
<1>6. CASE next = cur
  <2>1. prio[cur] < prio[r]
    BY <1>1, <1>3, <1>6, RunNewGivesWay DEF ReadySet, rq, st
  <2> QED BY <1>4, <2>1
<1>7. CASE next # cur
  <2>1. state'[next] = RUNNING /\ state'[r] # RUNNING
    BY <1>2, <1>4, <1>5 DEF Dispatched
  <2>2. state'[r] = READY
    BY <1>2, <1>3, <2>1 DEF Dispatched
  <2>3. prio[next] <= prio[r]
    BY <1>2, <2>2 DEF Dispatched
  <2>4. st[next] = READY
    BY <1>1, <1>2, <1>4, <1>7, <2>1, StateAssumption DEF Prepared, Dispatched, States
  <2>5. prio[r] < prio[next]
    BY <1>3, <1>4, <1>5, <2>4
  <2> QED BY <1>4, <2>3, <2>5
<1> QED BY <1>6, <1>7

\* Nobody but a sender and the interrupt handler wakes a receiver.
LEMMA OnlyMailWakes ==
  ASSUME TaskInv, [Next]_vars, NEW t \in TaskId,
         state[t] = BLK_MSG, state'[t] # BLK_MSG
  PROVE  k_tsk_run_new(WokenReady(t), WokenState(t), prio)
<1>1. state \in [TaskId -> States] /\ gp_current_task \in TaskId
      /\ state[gp_current_task] = RUNNING
  BY DEF TaskInv, TypeOK, States, OneRunning
<1>2. ~BootM
  <2>1. SUFFICES ASSUME NEW kcd \in BOOLEAN, NEW p \in Prio, NEW v \in {0, 1},
                        BootTask(kcd, p, v)
                 PROVE  FALSE
    BY DEF BootM, Boot
  <2>2. state[BootSlot(kcd)] = DORMANT
    BY <2>1, BootSlotDormant
  <2> QED BY <1>1, <2>1, <2>2, StateAssumption DEF BootTask, BootCreate, BootSlot
<1>3. ~YieldM
  BY YieldStep DEF YieldM, Kept
<1>4. ~CreateM
  <2>1. SUFFICES ASSUME NEW p \in Prio, k_tsk_create(p) PROVE FALSE
    BY DEF CreateM, Create
  <2>2. Kept([state EXCEPT ![FreeSlot] = READY])
    BY <2>1, CreateStep
  <2>3. state[FreeSlot] = DORMANT
    BY <2>1, FreeSlotIsDormant DEF k_tsk_create
  <2> QED BY <1>1, <2>2, <2>3, StateAssumption DEF Kept
<1>5. ~ExitM
  BY <1>1, ExitStep, StateAssumption DEF ExitM, Kept
<1>6. ~SetPrioM
  BY SetPrioStep DEF SetPrioM, SetPrio, Kept
<1>7. ~MbxCreate
  BY MbxCreateStep DEF MbxCreate
<1>8. ~RecvMsg
  BY <1>1, RecvBlockStep DEF RecvMsg, RecvNow, taskVars, Kept
<1>9. ~RecvResume /\ ~UNCHANGED vars
  BY DEF RecvResume, taskVars, vars
<1>10. CASE SendMsg
  <2>1. PICK r \in TaskId, len \in MsgLens : k_send_msg(r, len)
    BY <1>10 DEF SendMsg
  <2>2. Kept(WokenState(r))
    BY <2>1, SendStep
  <2>3. t = r
    BY <2>2, WokenPrepared DEF Kept
  <2> QED BY <2>1, <2>3 DEF k_send_msg, run_new_wrapper
<1>11. CASE UartIrq
  <2>1. PICK n \in 1 .. MaxBurst : c_IRQ_Handler(n)
    BY <1>11 DEF UartIrq
  <2>2. TID_KCD \in TaskId
    BY TaskAssumption DEF TID_KCD, TaskId
  <2>3. KeysAccepted(n) # 0 /\ t = TID_KCD
    BY <2>1, <2>2, IrqStep, WokenPrepared DEF Kept
  <2> QED BY <2>1, <2>3 DEF c_IRQ_Handler
<1> QED BY <1>2, <1>3, <1>4, <1>5, <1>6, <1>7, <1>8, <1>9, <1>10, <1>11 DEF Next

-----------------------------------------------------------------------------
(* First come, first served, with messages.                                *)

\* A call or interrupt that posts messages to r and wakes it if it waits.
LEMMA WokenInTurn ==
  ASSUME TaskInv, OneRunning', NEW r \in TaskId, prio' = prio,
         (\E strict \in BOOLEAN :
            run_new_wrapper(strict, WokenReady(r), WokenState(r), prio))
           \/ k_tsk_run_new(WokenReady(r), WokenState(r), prio)
  PROVE  InTurn
<1> DEFINE rq == WokenReady(r)
           st == WokenState(r)
<1>1. Prepared(rq, st, prio)
  BY WokenPrepared
<1>2. /\ Queues(ready, prio, ReadySet(state)) /\ ReadySet(state) \in SUBSET TaskId
      /\ prio \in [TaskId -> Prio] /\ state \in [TaskId -> States]
  BY QueuesReady DEF TaskInv, TypeOK, ReadySet, States
<1>3. ASSUME NEW t \in TaskId, state[t] = READY
      PROVE  InOrder(ready, rq, prio[t], t) /\ st[t] = READY
  <2>1. t \in ReadySet(state) /\ prio[r] \in Prio
    BY <1>2, <1>3 DEF ReadySet
  <2>2. InOrder(ready, pl_insert(ready, r, prio[r]), prio[t], t)
    BY <1>2, <2>1, InsertOrder
  <2>3. InOrder(ready, ready, prio[t], t)
    BY SameOrder
  <2>4. st[t] = READY
    BY <1>2, <1>3 DEF WokenState
  <2> QED BY <2>2, <2>3, <2>4 DEF WokenReady
<1> HIDE DEF rq, st
<1>4. (\E strict \in BOOLEAN : run_new_wrapper(strict, rq, st, prio))
        \/ k_tsk_run_new(rq, st, prio)
  BY DEF rq, st
<1> QED BY <1>1, <1>3, <1>4, DispatchInTurn DEF InTurn

LEMMA MsgNextInTurn ==
  ASSUME TaskInv, OneRunning', Next
  PROVE  InTurn \/ UNCHANGED taskVars
<1>1. CASE BootM
  BY <1>1, BootInTurn DEF BootM
<1>2. CASE YieldM
  BY <1>2, YieldInTurn DEF YieldM
<1>3. CASE CreateM
  BY <1>3, CreateInTurn DEF CreateM, Create
<1>4. CASE ExitM
  BY <1>4, ExitInTurn DEF ExitM
<1>5. CASE SetPrioM
  BY <1>5, SetPrioInTurn DEF SetPrioM, SetPrio
<1>6. CASE MbxCreate
  <2>1. UNCHANGED <<state, prio, ready>>
    BY <1>6 DEF MbxCreate, k_mbx_create
  <2> QED BY <2>1 DEF InTurn, Ahead
<1>7. CASE SendMsg
  <2>1. PICK r \in TaskId, len \in MsgLens : k_send_msg(r, len)
    BY <1>7 DEF SendMsg
  <2> QED BY <2>1, WokenInTurn DEF k_send_msg
<1>8. CASE RecvNow \/ RecvResume
  BY <1>8 DEF RecvNow, RecvResume
<1>9. CASE RecvBlock
  <2> DEFINE st == [state EXCEPT ![gp_current_task] = BLK_MSG]
  <2>1. Prepared(ready, st, prio)
    BY <1>9, RecvBlockPrepared
  <2>2. run_new_wrapper(FALSE, ready, st, prio) /\ prio' = prio
    BY <1>9 DEF RecvBlock
  <2>3. \A t \in TaskId : InOrder(ready, ready, prio[t], t)
    BY SameOrder
  <2>4. \A t \in TaskId : state[t] = READY => st[t] = READY
    BY StateAssumption DEF TaskInv, TypeOK, OneRunning
  <2> QED BY <2>1, <2>2, <2>3, <2>4, DispatchInTurn DEF InTurn
<1>10. CASE UartIrq
  <2>1. PICK n \in 1 .. MaxBurst : c_IRQ_Handler(n)
    BY <1>10 DEF UartIrq
  <2>2. TID_KCD \in TaskId /\ prio' = prio
    BY <2>1, TaskAssumption DEF TID_KCD, TaskId, c_IRQ_Handler
  <2>3. CASE KeysAccepted(n) = 0
    <3>1. k_tsk_run_new(ready, state, prio)
      BY <2>1, <2>3 DEF c_IRQ_Handler
    <3>2. \A t \in TaskId : InOrder(ready, ready, prio[t], t)
      BY SameOrder
    <3> QED BY <2>2, <3>1, <3>2, RunningPrepared, DispatchInTurn DEF InTurn
  <2>4. CASE KeysAccepted(n) # 0
    <3>1. k_tsk_run_new(WokenReady(TID_KCD), WokenState(TID_KCD), prio)
      BY <2>1, <2>4 DEF c_IRQ_Handler
    <3> QED BY <2>2, <3>1, WokenInTurn
  <2> QED BY <2>3, <2>4
<1> QED BY <1>1, <1>2, <1>3, <1>4, <1>5, <1>6, <1>7, <1>8, <1>9, <1>10 DEF Next, RecvMsg

-----------------------------------------------------------------------------
(* Mailboxes.                                                              *)

BoxTypes == box \in [Block -> Mailbox] /\ in_recv \subseteq TaskId

\* TCBs that still point at the mailbox of a task that ended may not be used again
\* (StaleSlotsReused): the new task would own a mailbox that BlocksOwned denies it.
MailInv ==
  /\ BoxTypes
  /\ BlocksOwned
  /\ ~Booted => NoMailboxes
  /\ BlockedHasNoMail
  /\ WokenHasMail

\* What keeps the mail invariants: nobody's mailbox changes, nobody blocks or
\* wakes, and none of those who wait or were woken ends.
LEMMA MailUntouched ==
  ASSUME TaskInv, MailInv, UNCHANGED <<box, in_recv, mbx>>, BlocksOwned',
         Booted => Booted',
         \A t \in TaskId : state'[t] = BLK_MSG <=> state[t] = BLK_MSG,
         \A t \in in_recv : state'[t] = DORMANT => state[t] = DORMANT
  PROVE  MailInv'
BY DEF MailInv, BoxTypes, BlockedHasNoMail, WokenHasMail, Live, NoMailboxes

\* Messages put into the mailbox of r, with the wake-up if r was blocked.
LEMMA PostedMail ==
  ASSUME TaskInv, MailInv, NEW r \in TaskId, state[r] # DORMANT, mbx[r] # NULL,
         NEW ms \in Seq(Nat), ms # <<>>, Push(mbx[r], ms), Kept(WokenState(r)),
         Booted', UNCHANGED <<priv, usp, mbx, heap, in_recv>>
  PROVE  MailInv'
<1>1. /\ SameLive
      /\ \A t \in TaskId : state'[t] = BLK_MSG <=> state[t] = BLK_MSG /\ t # r
  BY WokenPrepared DEF Kept, SameLive
<1>2. BlocksOwned'
  BY <1>1, BlocksKept DEF MailInv
<1>3. /\ box \in [Block -> Mailbox] /\ mbx[r] \in Block
      /\ box' = [box EXCEPT ![mbx[r]].msgs = @ \o ms]
  BY DEF MailInv, BoxTypes, Push, TaskInv, TypeOK
<1>4. /\ box[mbx[r]].msgs \in Seq(Nat) /\ box[mbx[r]].msgs \o ms \in Seq(Nat)
      /\ box[mbx[r]].msgs \o ms # <<>>
  <2>1. box[mbx[r]].msgs \in Seq(Nat)
    BY <1>3 DEF Mailbox
  <2>2. /\ box[mbx[r]].msgs \o ms \in Seq(Nat)
        /\ Len(box[mbx[r]].msgs \o ms) = Len(box[mbx[r]].msgs) + Len(ms)
        /\ Len(ms) \in Nat \ {0} /\ Len(box[mbx[r]].msgs) \in Nat
    BY <2>1, ConcatProperties, EmptySeq
  <2> QED BY <2>1, <2>2, EmptySeq
<1>5. BoxTypes'
  BY <1>3, <1>4 DEF MailInv, BoxTypes, Mailbox
<1>6. /\ box'[mbx[r]].msgs # <<>>
      /\ \A t \in Owners : t # r => box'[mbx[t]] = box[mbx[t]]
  <2>1. \A t \in Owners : t # r => mbx[t] # mbx[r] /\ mbx[t] \in Block
    BY DEF MailInv, BlocksOwned, Owners, TaskInv, TypeOK
  <2> QED BY <1>3, <1>4, <2>1 DEF Mailbox
<1>7. BlockedHasNoMail'
  BY <1>1, <1>6, StateAssumption DEF MailInv, BlockedHasNoMail, Owners
<1>8. WokenHasMail'
  <2>1. SUFFICES ASSUME NEW t \in in_recv, state'[t] # BLK_MSG
                 PROVE  state'[t] # DORMANT /\ mbx[t] # NULL /\ box'[mbx[t]].msgs # <<>>
    BY DEF WokenHasMail, Live
  <2>2. t \in TaskId
    BY DEF MailInv, BoxTypes
  <2>3. CASE t = r
    BY <1>1, <1>6, <2>2, <2>3 DEF SameLive
  <2>4. CASE t # r
    BY <1>1, <1>6, <2>1, <2>2, <2>4 DEF SameLive, MailInv, WokenHasMail, Live, Owners
  <2> QED BY <2>3, <2>4
<1> QED BY <1>2, <1>5, <1>7, <1>8 DEF MailInv

\* The oldest message taken out of the mailbox of the running task, by a receive
\* that found mail or by one that was woken.
LEMMA TakenMail ==
  ASSUME TaskInv, MailInv, mbx[gp_current_task] # NULL,
         box[mbx[gp_current_task]].msgs # <<>>, Pop(mbx[gp_current_task]),
         in_recv' = in_recv \ {gp_current_task}, Booted, UNCHANGED taskVars
  PROVE  MailInv'
<1> DEFINE cur == gp_current_task
           b == mbx[cur]
<1>1. /\ cur \in TaskId /\ b \in Block /\ state[cur] = RUNNING
      /\ box \in [Block -> Mailbox] /\ box' = [box EXCEPT ![b].msgs = Tail(@)]
  BY DEF TaskInv, TypeOK, OneRunning, MailInv, BoxTypes, Pop
<1>2. UNCHANGED <<state, priv, usp, mbx, heap>> /\ Booted'
  BY DEF taskVars, Booted
<1>3. Tail(box[b].msgs) \in Seq(Nat)
  BY <1>1, EmptySeq, HeadTailProperties DEF Mailbox
<1>4. BoxTypes'
  BY <1>1, <1>3 DEF MailInv, BoxTypes, Mailbox
<1>5. BlocksOwned'
  BY <1>2, BlocksKept DEF SameLive, MailInv
<1>6. \A t \in Owners : t # cur => box'[mbx[t]] = box[mbx[t]]
  <2>1. \A t \in Owners : t # cur => mbx[t] # b /\ mbx[t] \in Block
    BY <1>1, StateAssumption DEF MailInv, BlocksOwned, Owners, TaskInv, TypeOK
  <2> QED BY <1>1, <2>1
<1>7. BlockedHasNoMail'
  BY <1>1, <1>2, <1>6, StateAssumption DEF MailInv, BlockedHasNoMail, Owners
<1>8. WokenHasMail'
  BY <1>2, <1>6 DEF MailInv, BoxTypes, WokenHasMail, Live, Owners
<1> QED BY <1>2, <1>4, <1>5, <1>7, <1>8 DEF MailInv

LEMMA RecvBlockMail ==
  ASSUME TaskInv, MailInv, RecvBlock
  PROVE  MailInv'
<1> DEFINE cur == gp_current_task
<1>1. /\ mbx[cur] # NULL /\ box[mbx[cur]].msgs = <<>> /\ cur \notin in_recv
      /\ in_recv' = in_recv \cup {cur}
      /\ UNCHANGED <<priv, usp, mbx, heap, box>> /\ Booted'
  BY DEF RecvBlock, InUserCode, CanCall, Booted, empty
<1>2. /\ cur \in TaskId /\ state[cur] = RUNNING /\ state \in [TaskId -> States]
  BY DEF TaskInv, TypeOK, OneRunning, States
<1>3. /\ SameLive
      /\ \A t \in TaskId : state'[t] = BLK_MSG <=> state[t] = BLK_MSG \/ t = cur
  BY <1>2, RecvBlockStep, StateAssumption DEF Kept, SameLive
<1>4. BlocksOwned'
  BY <1>1, <1>3, BlocksKept DEF MailInv
<1>5. BoxTypes'
  BY <1>1, <1>2 DEF MailInv, BoxTypes
<1>6. BlockedHasNoMail'
  BY <1>1, <1>3 DEF MailInv, BlockedHasNoMail
<1>7. WokenHasMail'
  BY <1>1, <1>2, <1>3 DEF MailInv, BoxTypes, WokenHasMail, Live, SameLive
<1> QED BY <1>1, <1>4, <1>5, <1>6, <1>7 DEF MailInv

\* A new mailbox is in a block that was free, so it is nobody else's.
LEMMA MbxCreateMail ==
  ASSUME TaskInv, MailInv, NEW size \in MbxSizes, k_mbx_create(size)
  PROVE  MailInv'
<1> DEFINE cur == gp_current_task
<1>1. PICK b \in Block \ heap :
         /\ heap' = heap \cup {b}
         /\ mbx' = [mbx EXCEPT ![cur] = b]
         /\ box' = [box EXCEPT ![b] = [size |-> size, msgs |-> <<>>]]
  BY DEF k_mbx_create, k_mem_alloc_with_tid
<1>2. /\ mbx[cur] = NULL /\ UNCHANGED <<state, priv, usp, in_recv>>
      /\ Booted'
  BY DEF k_mbx_create, InUserCode, CanCall, Booted
<1>3. /\ cur \in TaskId /\ state[cur] = RUNNING /\ mbx \in [TaskId -> Block \cup {NULL}]
  BY DEF TaskInv, TypeOK, OneRunning
<1>4. /\ mbx'[cur] = b /\ \A t \in TaskId : t # cur => mbx'[t] = mbx[t]
      /\ \A t \in Owners : mbx[t] # b /\ t # cur
      /\ \A t \in UserTasks : usp[t] # b
      /\ UserTasks' = UserTasks
      /\ Owners' = Owners \cup {cur}
  <2>1. b # NULL
    BY NullAssumption
  <2> QED BY <1>1, <1>2, <1>3, <2>1, StateAssumption DEF MailInv, BlocksOwned, UserTasks, Owners
<1>5. BlocksOwned'
  <2>1. \A t \in UserTasks' : usp'[t] \in heap'
    BY <1>1, <1>2, <1>4 DEF MailInv, BlocksOwned
  <2>2. \A t, u \in UserTasks' : usp'[t] = usp'[u] => t = u
    BY <1>2, <1>4 DEF MailInv, BlocksOwned
  <2>3. \A t \in Owners : t \in TaskId /\ mbx'[t] = mbx[t]
    BY <1>4 DEF Owners
  <2>4. \A t \in Owners' : mbx'[t] \in heap'
    BY <1>1, <1>4, <2>3 DEF MailInv, BlocksOwned
  <2>5. \A t, u \in Owners' : mbx'[t] = mbx'[u] => t = u
    BY <1>4, <2>3 DEF MailInv, BlocksOwned
  <2>6. \A t \in Owners', u \in UserTasks' : mbx'[t] # usp'[u]
    BY <1>2, <1>4, <2>3 DEF MailInv, BlocksOwned
  <2>7. ASSUME NEW c \in heap'
        PROVE  (\E t \in UserTasks' : usp'[t] = c) \/ (\E t \in Owners' : mbx'[t] = c)
    <3>1. CASE c = b
      BY <1>4, <3>1
    <3>2. CASE c \in heap
      BY <1>2, <1>4, <2>3, <3>2 DEF MailInv, BlocksOwned
    <3> QED BY <1>1, <3>1, <3>2
  <2> QED BY <2>1, <2>2, <2>4, <2>5, <2>6, <2>7 DEF BlocksOwned
<1>6. BoxTypes'
  BY <1>1, <1>2, MsgAssumption DEF MailInv, BoxTypes, Mailbox
<1>7. \A t \in Owners : mbx'[t] = mbx[t] /\ box'[mbx[t]] = box[mbx[t]]
  <2>1. \A t \in Owners : t \in TaskId /\ t # cur /\ mbx[t] # b /\ mbx[t] \in Block
    BY <1>3, <1>4 DEF Owners
  <2> QED BY <1>1, <1>4, <2>1 DEF MailInv, BoxTypes
<1>8. BlockedHasNoMail'
  BY <1>2, <1>7, StateAssumption DEF MailInv, BlockedHasNoMail, Owners
<1>9. WokenHasMail'
  BY <1>2, <1>7, StateAssumption DEF MailInv, BoxTypes, WokenHasMail, Live, Owners
<1> QED BY <1>2, <1>5, <1>6, <1>8, <1>9 DEF MailInv

\* A bounded set of natural numbers contains its maximum.
LEMMA MaxIsIn ==
  ASSUME NEW n \in Nat, NEW T, T \subseteq Nat, T # {}, \A x \in T : x <= n
  PROVE  Max(T) \in T
<1> DEFINE B == {m \in Nat : \A x \in T : x <= m}
<1>1. n \in B
  OBVIOUS
<1>2. PICK m \in B : \A x \in B : m <= x
  BY <1>1, LeastElement
<1>3. m \in T
  <2>1. SUFFICES ASSUME m \notin T PROVE FALSE
    OBVIOUS
  <2>2. m # 0 /\ m - 1 \in Nat
    <3>1. PICK y \in T : TRUE
      OBVIOUS
    <3>2. y \in Nat /\ y <= m /\ y # m /\ m \in Nat
      BY <2>1
    <3> QED BY <3>2
  <2>3. \A x \in T : x <= m - 1
    BY <2>1
  <2>4. m - 1 \in B
    BY <2>2, <2>3
  <2> QED BY <1>2, <2>4
<1> QED BY <1>2, <1>3 DEF Max

\* The interrupt handler posts a natural number of keystrokes.
LEMMA KeysAcceptedType ==
  ASSUME NEW n \in Nat
  PROVE  KeysAccepted(n) \in Nat
<1> DEFINE T == {0} \cup {k \in 1 .. n : k * Footprint(KeyLen) <= Space(mbx[TID_KCD])}
<1>1. T \subseteq Nat /\ T # {} /\ \A x \in T : x <= n
  OBVIOUS
<1>2. Max(T) \in T
  <2> HIDE DEF T
  <2> QED BY <1>1, MaxIsIn
<1> QED BY <1>1, <1>2 DEF KeysAccepted

LEMMA IrqMail ==
  ASSUME TaskInv, MailInv, NEW n \in 1 .. MaxBurst, c_IRQ_Handler(n)
  PROVE  MailInv'
<1> DEFINE k == KeysAccepted(n)
           ms == [i \in 1 .. k |-> KeyLen]
<1>1. TID_KCD \in TaskId /\ UNCHANGED <<priv, usp, mbx, heap, in_recv>> /\ Booted'
  BY TaskAssumption DEF TID_KCD, TaskId, c_IRQ_Handler, InUserCode, CanCall, Booted
<1>2. CASE k = 0
  <2>1. UNCHANGED box /\ Kept(state)
    BY <1>2, IrqStep DEF c_IRQ_Handler
  <2>2. BlocksOwned'
    BY <1>1, <2>1, BlocksKept DEF Kept, SameLive, MailInv
  <2> QED BY <1>1, <2>1, <2>2, MailUntouched DEF Kept, MailInv, BoxTypes
<1>3. CASE k # 0
  <2>1. Push(mbx[TID_KCD], ms) /\ Kept(WokenState(TID_KCD))
    BY <1>3, IrqStep DEF c_IRQ_Handler
  <2>2. k \in Nat \ {0}
    BY <1>3, MsgAssumption, KeysAcceptedType
  <2>3. state[TID_KCD] # DORMANT /\ mbx[TID_KCD] # NULL
    BY <1>3 DEF KeysAccepted
  <2> HIDE DEF k
  <2>4. ms \in Seq(Nat) /\ ms # <<>>
    <3>1. ms \in [1 .. k -> Nat] /\ DOMAIN ms = 1 .. k
      BY DEF KeyLen
    <3>2. ms \in Seq(Nat)
      BY <2>2, <3>1, SeqDef
    <3>3. 1 \in DOMAIN ms
      BY <2>2, <3>1
    <3> QED BY <3>2, <3>3, EmptySeq
  <2> HIDE DEF ms
  <2> QED BY <1>1, <2>1, <2>3, <2>4, PostedMail
<1> QED BY <1>2, <1>3

LEMMA SendMail ==
  ASSUME TaskInv, MailInv, NEW r \in TaskId, NEW len \in MsgLens, k_send_msg(r, len)
  PROVE  MailInv'
<1>1. /\ state[r] # DORMANT /\ mbx[r] # NULL
      /\ Push(mbx[r], <<len>>)
      /\ UNCHANGED <<priv, usp, mbx, heap, in_recv>> /\ Booted'
  BY DEF k_send_msg, Accepts, InUserCode, CanCall, Booted
<1>2. <<len>> \in Seq(Nat) /\ <<len>> # <<>>
  BY MsgAssumption
<1>3. Kept(WokenState(r))
  BY SendStep
<1> QED BY <1>1, <1>2, <1>3, PostedMail

LEMMA MsgNextMail ==
  ASSUME ~StaleSlotsReused, TaskInv, MailInv, [Next]_vars
  PROVE  MailInv'
<1>1. CASE BootM
  <2>1. PICK kcd \in BOOLEAN, p \in Prio, v \in {0, 1} : BootTask(kcd, p, v)
    BY <1>1 DEF BootM, Boot
  <2>2. UNCHANGED <<mbx, box, in_recv>>
    BY <1>1, <2>1 DEF BootM, BootTask, msgVars
  <2>3. BlocksOwned' /\ (Booted => Booted')
    BY <1>1, <2>1, BootBlocks DEF BootM, MailInv, BootTask, Booted
  <2>4. state[BootSlot(kcd)] = DORMANT /\ BootSlot(kcd) \in TaskId
    BY <2>1, BootSlotDormant
  <2>5. state' \in {state, [state EXCEPT ![BootSlot(kcd)] = READY]}
    BY <2>1 DEF BootTask, BootCreate, BootSlot
  <2>6. \A t \in TaskId : /\ state'[t] = BLK_MSG <=> state[t] = BLK_MSG
                          /\ state'[t] = DORMANT => state[t] = DORMANT
    BY <2>4, <2>5, StateAssumption DEF TaskInv, TypeOK
  <2> QED BY <2>2, <2>3, <2>6, MailUntouched DEF MailInv, BoxTypes
<1>2. CASE YieldM
  <2>1. UNCHANGED <<mbx, box, in_recv>> /\ Kept(state) /\ BlocksOwned' /\ Booted'
    BY <1>2, YieldStep, YieldBlocks DEF YieldM, k_tsk_yield, msgVars, MailInv, Booted
  <2> QED BY <2>1, MailUntouched DEF Kept, MailInv, BoxTypes
<1>3. CASE CreateM
  <2>1. PICK p \in Prio : k_tsk_create(p)
    BY <1>3 DEF CreateM, Create
  <2>2. FreeSlot \in TaskId /\ state[FreeSlot] = DORMANT
    BY <2>1, FreeSlotIsDormant DEF k_tsk_create
  <2>3. mbx[FreeSlot] = NULL
    BY <1>3, <2>2 DEF CreateM, StaleSlots
  <2>4. UNCHANGED <<mbx, box, in_recv>> /\ BlocksOwned' /\ Booted'
    BY <1>3, <2>1, <2>3, CreateBlocks
       DEF CreateM, k_tsk_create, msgVars, MailInv, CanCall, Booted
  <2>5. \A t \in TaskId : /\ state'[t] = BLK_MSG <=> state[t] = BLK_MSG
                          /\ state'[t] = DORMANT => state[t] = DORMANT
    <3>1. Kept([state EXCEPT ![FreeSlot] = READY])
      BY <2>1, CreateStep
    <3> QED BY <2>2, <3>1, StateAssumption DEF Kept, TaskInv, TypeOK
  <2> QED BY <2>4, <2>5, MailUntouched DEF MailInv, BoxTypes
<1>4. CASE ExitM
  <2>1. /\ gp_current_task \notin in_recv /\ Booted'
        /\ k_tsk_exit /\ UNCHANGED <<mbx, box, in_recv>>
    BY <1>4 DEF ExitM, Returned, k_tsk_exit, msgVars, CanCall, Booted
  <2>2. BlocksOwned'
    BY <2>1, ExitBlocks DEF MailInv
  <2>3. gp_current_task \in TaskId /\ state[gp_current_task] = RUNNING
    BY DEF TaskInv, TypeOK, OneRunning
  <2>4. \A t \in TaskId : /\ state'[t] = BLK_MSG <=> state[t] = BLK_MSG
                          /\ state'[t] = DORMANT => state[t] = DORMANT \/ t = gp_current_task
    <3>1. Kept([state EXCEPT ![gp_current_task] = DORMANT])
      BY <2>1, ExitStep
    <3> QED BY <2>3, <3>1, StateAssumption DEF Kept, TaskInv, TypeOK
  <2> QED BY <2>1, <2>2, <2>4, MailUntouched DEF MailInv, BoxTypes
<1>5. CASE SetPrioM
  <2>1. PICK t \in TaskId, p \in Prio : k_tsk_set_prio(t, p)
    BY <1>5 DEF SetPrioM, SetPrio
  <2>2. UNCHANGED <<mbx, box, in_recv>> /\ Kept(state) /\ BlocksOwned' /\ Booted'
    BY <1>5, <2>1, SetPrioStep, SetPrioBlocks
       DEF SetPrioM, k_tsk_set_prio, msgVars, MailInv, CanCall, Booted
  <2> QED BY <2>2, MailUntouched DEF Kept, MailInv, BoxTypes
<1>6. CASE MbxCreate
  BY <1>6, MbxCreateMail DEF MbxCreate
<1>7. CASE SendMsg
  BY <1>7, SendMail DEF SendMsg
<1>8. CASE RecvNow
  <2>1. /\ mbx[gp_current_task] # NULL /\ box[mbx[gp_current_task]].msgs # <<>>
        /\ Pop(mbx[gp_current_task]) /\ UNCHANGED taskVars
        /\ in_recv' = in_recv \ {gp_current_task} /\ Booted
    BY <1>8 DEF RecvNow, empty, InUserCode, CanCall
  <2> QED BY <2>1, TakenMail
<1>9. CASE RecvBlock
  BY <1>9, RecvBlockMail
<1>10. CASE RecvResume
  <2>1. /\ gp_current_task \in in_recv
        /\ Pop(mbx[gp_current_task]) /\ UNCHANGED taskVars
        /\ in_recv' = in_recv \ {gp_current_task}
    BY <1>10 DEF RecvResume
  <2>2. mbx[gp_current_task] # NULL /\ box[mbx[gp_current_task]].msgs # <<>>
    BY <2>1, StateAssumption DEF MailInv, WokenHasMail, TaskInv, TypeOK, OneRunning
  <2>3. Booted
    BY <2>2 DEF MailInv, NoMailboxes, TaskInv, TypeOK
  <2> QED BY <2>1, <2>2, <2>3, TakenMail
<1>11. CASE UartIrq
  BY <1>11, IrqMail DEF UartIrq
<1>12. CASE UNCHANGED vars
  <2>1. UNCHANGED <<state, priv, usp, mbx, heap, box, in_recv>> /\ (Booted => Booted')
    BY <1>12 DEF vars, Booted
  <2>2. BlocksOwned'
    BY <2>1, BlocksKept DEF SameLive, MailInv
  <2> QED BY <2>1, <2>2, MailUntouched DEF MailInv, BoxTypes
<1> QED BY <1>1, <1>2, <1>3, <1>4, <1>5, <1>6, <1>7, <1>8, <1>9, <1>10, <1>11, <1>12
        DEF Next, RecvMsg

LEMMA MsgInitInv ==
  ASSUME MsgInit
  PROVE  TaskInv /\ MailInv
<1>1. Init /\ TaskInv /\ BlocksOwned /\ NoMailboxes
  BY InitInv, InitBlocks DEF MsgInit
<1>2. box = [b \in Block |-> [size |-> 0, msgs |-> <<>>]] /\ in_recv = {}
  BY DEF MsgInit
<1>3. BoxTypes
  BY <1>2 DEF BoxTypes, Mailbox
<1>4. \A t \in TaskId : state[t] # BLK_MSG
  BY <1>1, StateAssumption DEF Init
<1> QED BY <1>1, <1>2, <1>3, <1>4 DEF MailInv, BlockedHasNoMail, WokenHasMail

-----------------------------------------------------------------------------
(* The bytes the messages of a mailbox occupy.                             *)

\* The function f sums up the footprints of the first messages of ms.
IsSum(f, ms, k) == f = [n \in 0 .. k |-> IF n = 0 THEN 0 ELSE f[n - 1] + Footprint(ms[n])]

\* The recursion that defines the load has a solution.
LEMMA SumExists ==
  ASSUME NEW ms, NEW k \in Nat
  PROVE  \E f : IsSum(f, ms, k)
<1> DEFINE S == {j \in 0 .. k : \E f : IsSum(f, ms, j)}
<1>1. 0 \in S
  <2> DEFINE f == [n \in 0 .. 0 |-> 0]
  <2>1. IsSum(f, ms, 0)
    BY DEF IsSum
  <2> HIDE DEF f
  <2> QED BY <2>1
<1>2. ASSUME NEW j \in 0 .. k, j \in S, j < k
      PROVE  j + 1 \in S
  <2>1. PICK f : IsSum(f, ms, j)
    BY <1>2
  <2>2. f = [n \in 0 .. j |-> IF n = 0 THEN 0 ELSE f[n - 1] + Footprint(ms[n])]
    BY <2>1 DEF IsSum
  <2> DEFINE g == [n \in 0 .. j + 1 |-> IF n <= j THEN f[n] ELSE f[j] + Footprint(ms[n])]
  <2>3. ASSUME NEW n \in 0 .. j + 1
        PROVE  g[n] = IF n = 0 THEN 0 ELSE g[n - 1] + Footprint(ms[n])
    <3>1. CASE n = 0
      BY <3>1, <2>2
    <3>2. CASE n \in 1 .. j
      <4>1. n - 1 \in 0 .. j /\ g[n - 1] = f[n - 1] /\ g[n] = f[n]
        BY <3>2
      <4> QED BY <4>1, <3>2, <2>2
    <3>3. CASE n = j + 1
      <4>1. g[n - 1] = f[j] /\ g[n] = f[j] + Footprint(ms[n])
        BY <3>3
      <4> QED BY <4>1, <3>3
    <3> QED BY <3>1, <3>2, <3>3
  <2>4. IsSum(g, ms, j + 1)
    BY <2>3 DEF IsSum
  <2> HIDE DEF g
  <2> QED BY <2>4, <1>2
<1>3. \A j \in 0 .. k : j \in S
  <2> HIDE DEF S
  <2> QED BY <1>1, <1>2, InductionUpTo
<1> QED BY <1>3

\* What the function f satisfies that the load of ms is the last value of.
Sums(f, ms) ==
  /\ f[0] = 0
  /\ \A n \in 1 .. Len(ms) : n - 1 \in 0 .. Len(ms) /\ f[n] = f[n - 1] + Footprint(ms[n])

LEMMA LoadIs ==
  ASSUME NEW ms \in Seq(Nat)
  PROVE  \E f : Sums(f, ms) /\ Load(ms) = f[Len(ms)]
<1> DEFINE f == CHOOSE g : IsSum(g, ms, Len(ms))
<1>1. Len(ms) \in Nat /\ \E g : IsSum(g, ms, Len(ms))
  BY SumExists, LenProperties
<1>2. Load(ms) = f[Len(ms)]
  BY Zenon DEF Load, IsSum
<1>3. IsSum(f, ms, Len(ms))
  BY <1>1
<1> HIDE DEF f
<1>4. f = [n \in 0 .. Len(ms) |-> IF n = 0 THEN 0 ELSE f[n - 1] + Footprint(ms[n])]
  BY <1>3 DEF IsSum
<1> DEFINE k == Len(ms)
<1> HIDE DEF k
<1>5. k \in Nat /\ f = [n \in 0 .. k |-> IF n = 0 THEN 0 ELSE f[n - 1] + Footprint(ms[n])]
  BY <1>1, <1>4 DEF k
<1>6. f[0] = 0
  BY <1>5
<1>7. ASSUME NEW n \in 1 .. k
      PROVE  n - 1 \in 0 .. k /\ f[n] = f[n - 1] + Footprint(ms[n])
  BY <1>5
<1>8. Sums(f, ms)
  BY <1>6, <1>7 DEF Sums, k
<1> QED BY <1>2, <1>8

\* The messages ns are those of ms after the first i.
Slice(ns, ms, i, k) == \A n \in 1 .. k : ns[n] = ms[i + n]

\* Two functions that sum up the same first messages agree on them, up to what
\* they start from.
LEMMA SumsShift ==
  ASSUME NEW k \in Nat, NEW i \in Nat, NEW ms \in Seq(Nat), NEW f,
         i + k <= Len(ms), Sums(f, ms), NEW ns \in Seq(Nat), NEW g, Sums(g, ns),
         k <= Len(ns), Slice(ns, ms, i, k), f[i] \in Nat
  PROVE  g[k] \in Nat /\ f[i + k] = f[i] + g[k]
<1> DEFINE S == {n \in 0 .. k : g[n] \in Nat /\ f[i + n] = f[i] + g[n]}
<1>0. Len(ms) \in Nat /\ Len(ns) \in Nat
  BY LenProperties
<1>1. 0 \in S
  BY DEF Sums
<1>2. ASSUME NEW n \in 0 .. k, n \in S, n < k
      PROVE  n + 1 \in S
  <2>1. n + 1 \in 1 .. k /\ n + 1 \in 1 .. Len(ns) /\ i + (n + 1) \in 1 .. Len(ms)
        /\ (n + 1) - 1 = n /\ (i + (n + 1)) - 1 = i + n
    BY <1>0, <1>2
  <2>2. g[n + 1] = g[n] + Footprint(ns[n + 1])
    BY <2>1 DEF Sums
  <2>3. f[i + (n + 1)] = f[i + n] + Footprint(ms[i + (n + 1)])
    BY <2>1 DEF Sums
  <2>4. ns[n + 1] = ms[i + (n + 1)] /\ ns[n + 1] \in Nat
    BY <2>1, ElementOfSeq DEF Slice
  <2>5. g[n] \in Nat /\ f[i + n] = f[i] + g[n]
    BY <1>2
  <2> DEFINE F == Footprint(ns[n + 1])
             x == f[i + (n + 1)]
             y == g[n + 1]
             a == f[i]
             b == g[n]
             c == f[i + n]
  <2>6. F \in Nat
    BY <2>4 DEF Footprint, TidSize
  <2>7. x = c + F /\ y = b + F /\ b \in Nat /\ c = a + b /\ a \in Nat
    BY <2>2, <2>3, <2>4, <2>5
  <2> HIDE DEF F, x, y, a, b, c, S
  <2>8. y \in Nat /\ x = a + y
    BY <2>6, <2>7
  <2> QED BY <2>1, <2>8 DEF x, y, a, S
<1>3. \A n \in 0 .. k : n \in S
  <2> HIDE DEF S
  <2> QED BY <1>1, <1>2, InductionUpTo
<1> QED BY <1>3

LEMMA LoadEmpty == Load(<<>>) = 0
<1>1. <<>> \in Seq(Nat) /\ Len(<<>>) = 0
  OBVIOUS
<1> QED BY <1>1, LoadIs DEF Sums

\* The load of two lists of messages is the sum of theirs.
LEMMA LoadConcat ==
  ASSUME NEW ms \in Seq(Nat), NEW ns \in Seq(Nat)
  PROVE  /\ Load(ms) \in Nat /\ Load(ns) \in Nat
         /\ Load(ms \o ns) = Load(ms) + Load(ns)
<1> DEFINE all == ms \o ns
<1>1. /\ all \in Seq(Nat) /\ Len(all) = Len(ms) + Len(ns)
      /\ Len(ms) \in Nat /\ Len(ns) \in Nat
      /\ 0 + Len(ms) <= Len(all) /\ Len(ms) <= Len(ms) /\ Len(ns) <= Len(ns)
      /\ Len(ms) + Len(ns) <= Len(all) /\ 0 \in Nat
  BY ConcatProperties, LenProperties
<1>a. Slice(ms, all, 0, Len(ms)) /\ Slice(ns, all, Len(ms), Len(ns))
  BY <1>1, ConcatProperties DEF Slice
<1> HIDE DEF all
<1>2. PICK f : Sums(f, all) /\ Load(all) = f[Len(all)]
  BY <1>1, LoadIs
<1>3. PICK g : Sums(g, ms) /\ Load(ms) = g[Len(ms)]
  BY LoadIs
<1>4. PICK h : Sums(h, ns) /\ Load(ns) = h[Len(ns)]
  BY LoadIs
<1>5. PICK z \in Nat : z = 0 /\ f[z] = 0
  BY <1>2 DEF Sums
<1>6. g[Len(ms)] \in Nat /\ f[z + Len(ms)] = f[z] + g[Len(ms)]
  <2>1. PICK k \in Nat : k = Len(ms)
    BY <1>1
  <2>2. /\ all \in Seq(Nat) /\ z + k <= Len(all) /\ k <= Len(ms)
        /\ f[z] \in Nat /\ Slice(ms, all, z, k)
    BY <1>1, <1>a, <1>5, <2>1
  <2>3. Sums(f, all) /\ Sums(g, ms)
    BY <1>2, <1>3
  <2>4. g[k] \in Nat /\ f[z + k] = f[z] + g[k]
    BY <2>2, <2>3, SumsShift
  <2> QED BY <2>1, <2>4
<1>7. f[Len(ms)] \in Nat /\ f[Len(ms)] = Load(ms)
  BY <1>1, <1>3, <1>5, <1>6
<1>8. h[Len(ns)] \in Nat /\ f[Len(ms) + Len(ns)] = f[Len(ms)] + h[Len(ns)]
  <2>1. PICK i \in Nat : i = Len(ms)
    BY <1>1
  <2>2. PICK k \in Nat : k = Len(ns)
    BY <1>1
  <2>3. /\ all \in Seq(Nat) /\ i + k <= Len(all) /\ k <= Len(ns)
        /\ f[i] \in Nat /\ Slice(ns, all, i, k)
    BY <1>1, <1>a, <1>7, <2>1, <2>2
  <2>4. Sums(f, all) /\ Sums(h, ns)
    BY <1>2, <1>4
  <2>5. h[k] \in Nat /\ f[i + k] = f[i] + h[k]
    BY <2>3, <2>4, SumsShift
  <2> QED BY <2>1, <2>2, <2>5
<1> QED BY <1>1, <1>2, <1>4, <1>7, <1>8 DEF all

\* Taking the oldest message out lowers the load by its footprint.
LEMMA LoadTail ==
  ASSUME NEW ms \in Seq(Nat), ms # <<>>
  PROVE  /\ Load(ms) \in Nat /\ Load(Tail(ms)) \in Nat
         /\ Load(Tail(ms)) <= Load(ms)
<1>1. Head(ms) \in Nat /\ Tail(ms) \in Seq(Nat) /\ <<Head(ms)>> \in Seq(Nat)
  BY EmptySeq, HeadTailProperties
<1>2. ms = <<Head(ms)>> \o Tail(ms)
  OBVIOUS
<1>3. /\ Load(<<Head(ms)>>) \in Nat /\ Load(Tail(ms)) \in Nat
      /\ Load(ms) = Load(<<Head(ms)>>) + Load(Tail(ms))
  BY <1>1, <1>2, LoadConcat
<1> QED BY <1>3

\* Messages of one length have a multiple of its footprint as their load.
LEMMA LoadEqual ==
  ASSUME NEW k \in Nat, NEW len \in Nat, NEW ms \in Seq(Nat), Len(ms) = k,
         \A n \in 1 .. k : ms[n] = len
  PROVE  Load(ms) = k * Footprint(len)
<1>1. PICK f : Sums(f, ms) /\ Load(ms) = f[Len(ms)]
  BY LoadIs
<1> DEFINE S == {n \in 0 .. k : f[n] = n * Footprint(len)}
<1>2. Footprint(len) \in Nat
  BY DEF Footprint, TidSize
<1> DEFINE F == Footprint(len)
<1> HIDE DEF F
<1>3. 0 \in S
  BY <1>1, <1>2 DEF Sums, F
<1>4. ASSUME NEW n \in 0 .. k, n \in S, n < k
      PROVE  n + 1 \in S
  <2>1. n + 1 \in 1 .. k /\ (n + 1) - 1 = n /\ ms[n + 1] = len
    BY <1>4
  <2>2. f[n + 1] = f[n] + F
    BY <1>1, <2>1 DEF Sums, F
  <2>3. f[n] = n * F
    BY <1>4 DEF F
  <2>4. (n + 1) * F = n * F + F
    BY <1>2 DEF F
  <2> QED BY <2>1, <2>2, <2>3, <2>4 DEF F
<1>5. \A n \in 0 .. k : n \in S
  <2> HIDE DEF S
  <2> QED BY <1>3, <1>4, InductionUpTo
<1> QED BY <1>1, <1>5

\* The messages of a box fit into it.
Fits(bx) == Load(bx.msgs) <= bx.size - MbxHeader

\* Nobody's mailbox changes.
LEMMA CapacityUntouched ==
  ASSUME WithinCapacity, UNCHANGED <<box, mbx>>, Owners' \subseteq Owners
  PROVE  WithinCapacity'
BY DEF Owners, WithinCapacity, Used, Live

\* The mailbox of one task changes; its messages fit afterwards.
LEMMA CapacityOfOne ==
  ASSUME WithinCapacity, NEW r \in TaskId, Fits(box'[mbx'[r]]),
         Owners' \subseteq Owners \cup {r},
         \A t \in Owners \ {r} : mbx'[t] = mbx[t] /\ box'[mbx[t]] = box[mbx[t]]
  PROVE  WithinCapacity'
BY DEF Owners, WithinCapacity, Used, Live, Fits

\* Messages that the space left suffices for are put into the mailbox of r.
LEMMA PostedCapacity ==
  ASSUME TaskInv, MailInv, WithinCapacity, NEW r \in Owners,
         NEW ms \in Seq(Nat), Load(ms) <= Space(mbx[r]), Push(mbx[r], ms), UNCHANGED mbx,
         Owners' = Owners
  PROVE  WithinCapacity'
<1> DEFINE b == mbx[r]
           old == box[b].msgs
<1>1. r \in TaskId /\ b \in Block /\ box \in [Block -> Mailbox] /\ box' = [box EXCEPT ![b].msgs = @ \o ms]
  BY DEF Owners, TaskInv, TypeOK, MailInv, BoxTypes, Push
<1>2. old \in Seq(Nat) /\ box[b].size \in Nat
  BY <1>1 DEF Mailbox
<1>3. box'[b].msgs = old \o ms /\ box'[b].size = box[b].size
  BY <1>1 DEF Mailbox
<1>4. /\ Load(old) \in Nat /\ Load(ms) \in Nat
      /\ Load(old \o ms) = Load(old) + Load(ms)
  BY <1>2, LoadConcat
<1>5. Load(ms) <= box[b].size - MbxHeader - Load(old)
  BY DEF Space, Used
<1>6. Load(old \o ms) <= box[b].size - MbxHeader
  <2> DEFINE x == Load(old)
             y == Load(ms)
             z == box[b].size
  <2>1. x \in Nat /\ y \in Nat /\ z \in Nat /\ y <= z - MbxHeader - x
    BY <1>2, <1>4, <1>5
  <2> HIDE DEF x, y, z
  <2>2. x + y <= z - MbxHeader
    BY <2>1 DEF MbxHeader
  <2> QED BY <1>4, <2>2 DEF x, y, z
<1>7. Fits(box'[mbx'[r]])
  BY <1>3, <1>6 DEF Fits
<1>8. \A t \in Owners \ {r} : box'[mbx[t]] = box[mbx[t]]
  <2>1. \A t \in Owners \ {r} : mbx[t] # b /\ mbx[t] \in Block
    BY DEF MailInv, BlocksOwned, Owners, TaskInv, TypeOK
  <2> QED BY <1>1, <2>1
<1>9. Owners' \subseteq Owners \cup {r} /\ \A t \in Owners : mbx'[t] = mbx[t]
  OBVIOUS
<1> QED BY <1>1, <1>7, <1>8, <1>9, CapacityOfOne

\* The oldest message leaves the mailbox of the running task.
LEMMA TakenCapacity ==
  ASSUME TaskInv, MailInv, WithinCapacity, mbx[gp_current_task] # NULL,
         box[mbx[gp_current_task]].msgs # <<>>, Pop(mbx[gp_current_task]), UNCHANGED <<state, mbx>>
  PROVE  WithinCapacity'
<1> DEFINE cur == gp_current_task
           b == mbx[cur]
           old == box[b].msgs
<1>1. /\ cur \in TaskId /\ b \in Block /\ state[cur] = RUNNING
      /\ box \in [Block -> Mailbox] /\ box' = [box EXCEPT ![b].msgs = Tail(@)]
  BY DEF TaskInv, TypeOK, OneRunning, MailInv, BoxTypes, Pop
<1>2. old \in Seq(Nat) /\ old # <<>> /\ box[b].size \in Nat
  BY <1>1 DEF Mailbox
<1>3. box'[b].msgs = Tail(old) /\ box'[b].size = box[b].size
  BY <1>1 DEF Mailbox
<1>4. Load(old) <= box[b].size - MbxHeader
  BY <1>1, StateAssumption DEF WithinCapacity, Live, Used
<1>5. Load(old) \in Nat /\ Load(Tail(old)) \in Nat /\ Load(Tail(old)) <= Load(old)
  BY <1>2, LoadTail
<1>6. Load(Tail(old)) <= box[b].size - MbxHeader
  <2> DEFINE x == Load(old)
             y == Load(Tail(old))
             z == box[b].size
  <2>1. x \in Nat /\ y \in Nat /\ z \in Nat /\ y <= x /\ x <= z - MbxHeader
    BY <1>2, <1>4, <1>5
  <2> HIDE DEF x, y, z
  <2>2. y <= z - MbxHeader
    BY <2>1 DEF MbxHeader
  <2> QED BY <2>2 DEF y, z
<1>7. Fits(box'[mbx'[cur]])
  BY <1>3, <1>6 DEF Fits
<1>8. \A t \in Owners \ {cur} : box'[mbx[t]] = box[mbx[t]]
  <2>1. \A t \in Owners \ {cur} : mbx[t] # b /\ mbx[t] \in Block
    BY <1>1, StateAssumption DEF MailInv, BlocksOwned, Owners, TaskInv, TypeOK
  <2> QED BY <1>1, <2>1
<1>9. Owners' \subseteq Owners \cup {cur} /\ \A t \in Owners : mbx'[t] = mbx[t]
  BY DEF Owners
<1> QED BY <1>1, <1>7, <1>8, <1>9, CapacityOfOne

LEMMA MbxCreateCapacity ==
  ASSUME TaskInv, MailInv, WithinCapacity, NEW size \in MbxSizes, k_mbx_create(size)
  PROVE  WithinCapacity'
<1> DEFINE cur == gp_current_task
<1>1. PICK b \in Block \ heap :
         /\ mbx' = [mbx EXCEPT ![cur] = b]
         /\ box' = [box EXCEPT ![b] = [size |-> size, msgs |-> <<>>]]
  BY DEF k_mbx_create, k_mem_alloc_with_tid
<1>2. /\ cur \in TaskId /\ mbx \in [TaskId -> Block \cup {NULL}] /\ box \in [Block -> Mailbox]
      /\ \A t \in Owners : mbx[t] \in Block /\ mbx[t] # b
  BY <1>1 DEF TaskInv, TypeOK, OneRunning, MailInv, BlocksOwned, BoxTypes, Owners
<1>3. mbx'[cur] = b /\ box'[b] = [size |-> size, msgs |-> <<>>]
  BY <1>1, <1>2
<1>4. Fits(box'[mbx'[cur]])
  <2>1. size \in Nat /\ size >= MbxHeader
    BY MsgAssumption
  <2>2. box'[mbx'[cur]].msgs = <<>> /\ box'[mbx'[cur]].size = size
    BY <1>3
  <2> QED BY <2>1, <2>2, LoadEmpty DEF Fits, MbxHeader
<1>5. \A t \in Owners \ {cur} : mbx'[t] = mbx[t] /\ box'[mbx[t]] = box[mbx[t]]
  BY <1>1, <1>2 DEF Owners
<1>6. Owners' \subseteq Owners \cup {cur}
  BY <1>1, <1>2 DEF Owners, k_mbx_create
<1> QED BY <1>2, <1>4, <1>5, <1>6, CapacityOfOne

\* The interrupt handler posts only as many keystrokes as the KCD's mailbox has
\* space for.
LEMMA KeysFit ==
  ASSUME NEW n \in Nat, KeysAccepted(n) # 0
  PROVE  KeysAccepted(n) * Footprint(KeyLen) <= Space(mbx[TID_KCD])
<1> DEFINE T == {0} \cup {k \in 1 .. n : k * Footprint(KeyLen) <= Space(mbx[TID_KCD])}
<1>1. T \subseteq Nat /\ T # {} /\ \A x \in T : x <= n
  OBVIOUS
<1>2. KeysAccepted(n) = Max(T)
  BY DEF KeysAccepted
<1>3. Max(T) \in T
  <2> HIDE DEF T
  <2> QED BY <1>1, MaxIsIn
<1> QED BY <1>2, <1>3

\* None of these steps makes a task the owner of a mailbox.
LEMMA NoNewOwners ==
  ASSUME ~StaleSlotsReused, TaskInv, MailInv,
         BootM \/ YieldM \/ CreateM \/ SetPrioM \/ ExitM \/ RecvBlock \/ UNCHANGED vars
  PROVE  Owners' \subseteq Owners
<1>1. CASE BootM
  <2>1. ~Booted /\ UNCHANGED mbx
    BY <1>1 DEF BootM, Boot, BootTask, Booted
  <2> QED BY <2>1 DEF MailInv, NoMailboxes, Owners
<1>2. CASE YieldM
  BY <1>2, YieldStep DEF YieldM, k_tsk_yield, Kept, Owners
<1>3. CASE CreateM
  <2>1. PICK p \in Prio : k_tsk_create(p)
    BY <1>3 DEF CreateM, Create
  <2>2. FreeSlot \in TaskId /\ state[FreeSlot] = DORMANT
    BY <2>1, FreeSlotIsDormant DEF k_tsk_create
  <2>3. mbx[FreeSlot] = NULL /\ UNCHANGED mbx
    BY <1>3, <2>1, <2>2 DEF CreateM, StaleSlots, k_tsk_create
  <2>4. \A t \in TaskId : state'[t] # DORMANT => state[t] # DORMANT \/ t = FreeSlot
    <3>1. Kept([state EXCEPT ![FreeSlot] = READY])
      BY <2>1, CreateStep
    <3> QED BY <2>2, <3>1 DEF Kept, TaskInv, TypeOK
  <2> QED BY <2>3, <2>4 DEF Owners
<1>4. CASE SetPrioM
  BY <1>4, SetPrioStep DEF SetPrioM, SetPrio, k_tsk_set_prio, Kept, Owners
<1>5. CASE ExitM
  <2>1. Kept([state EXCEPT ![gp_current_task] = DORMANT]) /\ UNCHANGED mbx
    BY <1>5, ExitStep DEF ExitM, k_tsk_exit
  <2> QED BY <2>1 DEF Kept, Owners, TaskInv, TypeOK
<1>6. CASE RecvBlock
  <2>1. Kept([state EXCEPT ![gp_current_task] = BLK_MSG]) /\ UNCHANGED mbx
    BY <1>6, RecvBlockStep DEF RecvBlock
  <2>2. state[gp_current_task] = RUNNING
    BY DEF TaskInv, TypeOK, OneRunning
  <2> QED BY <2>1, <2>2, StateAssumption DEF Kept, Owners, TaskInv, TypeOK
<1>7. CASE UNCHANGED vars
  BY <1>7 DEF vars, Owners
<1> QED BY <1>1, <1>2, <1>3, <1>4, <1>5, <1>6, <1>7

LEMMA MsgNextCapacity ==
  ASSUME ~StaleSlotsReused, TaskInv, MailInv, WithinCapacity, [Next]_vars
  PROVE  WithinCapacity'
<1>1. CASE BootM \/ YieldM \/ CreateM \/ SetPrioM \/ ExitM \/ RecvBlock \/ UNCHANGED vars
  <2>1. UNCHANGED <<box, mbx>>
    BY <1>1 DEF BootM, Boot, BootTask, YieldM, k_tsk_yield, CreateM, Create, k_tsk_create,
                SetPrioM, SetPrio, k_tsk_set_prio, ExitM, k_tsk_exit, RecvBlock, msgVars, vars
  <2>2. Owners' \subseteq Owners
    BY <1>1, NoNewOwners
  <2> QED BY <2>1, <2>2, CapacityUntouched
<1>2. CASE MbxCreate
  BY <1>2, MbxCreateCapacity DEF MbxCreate
<1>3. CASE SendMsg
  <2>1. PICK r \in TaskId, len \in MsgLens : k_send_msg(r, len)
    BY <1>3 DEF SendMsg
  <2>2. /\ r \in Owners /\ Space(mbx[r]) >= Footprint(len)
        /\ Push(mbx[r], <<len>>) /\ UNCHANGED mbx
    BY <2>1 DEF k_send_msg, Accepts, Owners
  <2>3. /\ len \in Nat /\ <<len>> \in Seq(Nat) /\ Len(<<len>>) = 1
        /\ \A n \in 1 .. 1 : <<len>>[n] = len
    BY MsgAssumption
  <2>4. Load(<<len>>) = 1 * Footprint(len)
    BY <2>3, LoadEqual
  <2>5. Footprint(len) \in Nat
    BY <2>3 DEF Footprint, TidSize
  <2>6. Load(<<len>>) <= Space(mbx[r])
    BY <2>2, <2>4, <2>5
  <2>7. Owners' = Owners
    BY <2>1, <2>2, SendStep, WokenPrepared DEF Kept, Owners
  <2> QED BY <2>2, <2>3, <2>6, <2>7, PostedCapacity
<1>4. CASE RecvNow \/ RecvResume
  <2>1. Pop(mbx[gp_current_task]) /\ UNCHANGED <<state, mbx>>
    BY <1>4 DEF RecvNow, RecvResume, taskVars
  <2>2. mbx[gp_current_task] # NULL /\ box[mbx[gp_current_task]].msgs # <<>>
    <3>1. CASE RecvNow
      BY <3>1 DEF RecvNow, empty
    <3>2. CASE RecvResume
      BY <3>2, StateAssumption
         DEF RecvResume, MailInv, WokenHasMail, TaskInv, TypeOK, OneRunning
    <3> QED BY <1>4, <3>1, <3>2
  <2> QED BY <2>1, <2>2, TakenCapacity
<1>5. CASE UartIrq
  <2>1. PICK n \in 1 .. MaxBurst : c_IRQ_Handler(n)
    BY <1>5 DEF UartIrq
  <2> DEFINE k == KeysAccepted(n)
             ms == [i \in 1 .. k |-> KeyLen]
  <2>2. TID_KCD \in TaskId /\ UNCHANGED mbx /\ n \in Nat /\ k \in Nat
    <3>1. n \in Nat
      BY MsgAssumption
    <3> QED BY <2>1, <3>1, KeysAcceptedType, TaskAssumption
            DEF TID_KCD, TaskId, c_IRQ_Handler
  <2>3. CASE k = 0
    <3>1. UNCHANGED box /\ Owners' = Owners
      BY <2>1, <2>2, <2>3, IrqStep DEF c_IRQ_Handler, Kept, Owners
    <3> QED BY <2>2, <3>1, CapacityUntouched
  <2>4. CASE k # 0
    <3>1. Push(mbx[TID_KCD], ms) /\ TID_KCD \in Owners
      BY <2>1, <2>2, <2>4 DEF c_IRQ_Handler, KeysAccepted, Owners
    <3>2. k * Footprint(KeyLen) <= Space(mbx[TID_KCD])
      BY <2>2, <2>4, KeysFit
    <3> HIDE DEF k
    <3>3. ms \in Seq(Nat) /\ Len(ms) = k /\ (\A i \in 1 .. k : ms[i] = KeyLen) /\ KeyLen \in Nat
      BY <2>2 DEF KeyLen
    <3> HIDE DEF ms
    <3>4. Load(ms) = k * Footprint(KeyLen)
      BY <2>2, <3>3, LoadEqual
    <3>5. Load(ms) <= Space(mbx[TID_KCD])
      BY <3>2, <3>4
    <3>6. Owners' = Owners
      BY <2>1, <2>2, <2>4, IrqStep, WokenPrepared DEF Kept, Owners
    <3> QED BY <2>2, <3>1, <3>3, <3>5, <3>6, PostedCapacity
  <2> QED BY <2>3, <2>4
<1> QED BY <1>1, <1>2, <1>3, <1>4, <1>5 DEF Next, RecvMsg

-----------------------------------------------------------------------------
(* The results.                                                            *)

\* Messages and interrupts keep everything the task manager guarantees: queue,
\* states and count agree, one task runs, and the null task can be scheduled.
THEOREM KernelInvariant == Spec => []TaskInv
<1>1. MsgInit => TaskInv
  BY MsgInitInv
<1>2. TaskInv /\ [Next]_vars => TaskInv'
  BY MsgNextTaskInv
<1> QED BY <1>1, <1>2, PTL DEF Spec

\* Once boot is over, every call and every interrupt leaves a most urgent task
\* with the CPU, also when it blocks, wakes a receiver or posts keystrokes.
THEOREM KernelStrictPriority == Spec => StrictPriority
<1>1. ASSUME TaskInv, [Next]_vars, Booted, ~UNCHANGED taskVars
      PROVE  MostUrgentRuns'
  <2>1. ~BootM /\ ~RecvNow /\ ~RecvResume /\ ~UNCHANGED vars
    BY <1>1 DEF BootM, Boot, BootTask, Booted, RecvNow, RecvResume, taskVars, vars
  <2>2. CASE YieldM
    BY <1>1, <2>2, YieldStep DEF YieldM
  <2>3. CASE CreateM
    BY <1>1, <2>3, CreateStep DEF CreateM, Create
  <2>4. CASE ExitM
    BY <1>1, <2>4, ExitStep DEF ExitM
  <2>5. CASE SetPrioM
    BY <1>1, <2>5, SetPrioStep DEF SetPrioM, SetPrio
  <2>6. CASE MbxCreate
    BY <1>1, <2>6, MbxCreateStep DEF MbxCreate
  <2>7. CASE SendMsg
    BY <1>1, <2>7, SendStep DEF SendMsg
  <2>8. CASE RecvBlock
    BY <1>1, <2>8, RecvBlockStep
  <2>9. CASE UartIrq
    BY <1>1, <2>9, IrqStep DEF UartIrq
  <2> QED BY <1>1, <2>1, <2>2, <2>3, <2>4, <2>5, <2>6, <2>7, <2>8, <2>9 DEF Next, RecvMsg
<1>2. TaskInv /\ [Next]_vars =>
        [Booted => \A t \in TaskId : state'[t] = READY => prio'[gp_current_task'] <= prio'[t]]_taskVars
  BY <1>1 DEF MostUrgentRuns
<1> QED BY <1>2, KernelInvariant, PTL DEF Spec, StrictPriority

\* A receiver that is woken and is more urgent than everyone who waits has the
\* CPU when the call or the interrupt that woke it ends.
THEOREM WakeupPreemptsCorrect == Spec => WakeupPreempts
<1> DEFINE Preempts == \A r \in TaskId :
             /\ state[r] = BLK_MSG /\ state'[r] # BLK_MSG
             /\ prio[r] <= prio[gp_current_task]
             /\ \A u \in TaskId : state[u] = READY => prio[r] < prio[u]
             => gp_current_task' = r
<1>1. TaskInv /\ [Next]_vars => [Preempts]_vars
  BY OnlyMailWakes, WokenRuns
<1> QED BY <1>1, KernelInvariant, PTL DEF Spec, WakeupPreempts

\* If no TCB is used again that points at the mailbox of a task that ended, the
\* invariant of the mailboxes holds.
THEOREM MailInvariant ==
  ASSUME ~StaleSlotsReused
  PROVE  Spec => []MailInv
<1>1. MsgInit => MailInv
  BY MsgInitInv
<1>2. TaskInv /\ MailInv /\ [Next]_vars => MailInv'
  BY MsgNextMail
<1> QED BY <1>1, <1>2, KernelInvariant, PTL DEF Spec

\* The variables keep their types; what pop_message leaves is a list of lengths
\* because it is never called on an empty mailbox.
THEOREM MsgTypeCorrect ==
  ASSUME ~StaleSlotsReused
  PROVE  Spec => []MsgTypeOK
<1>1. TaskInv /\ MailInv => MsgTypeOK
  BY DEF TaskInv, MailInv, BoxTypes, MsgTypeOK
<1> QED BY <1>1, KernelInvariant, MailInvariant, PTL

\* No wake-up is lost: a blocked receiver has no mail.
THEOREM NoLostWakeup ==
  ASSUME ~StaleSlotsReused
  PROVE  Spec => []BlockedHasNoMail
<1>1. MailInv => BlockedHasNoMail
  BY DEF MailInv
<1> QED BY <1>1, MailInvariant, PTL

\* No wake-up comes without mail: a receiver that was woken finds a message, so
\* k_recv_msg never dereferences the NULL of an empty mailbox.
THEOREM NoIdleWakeup ==
  ASSUME ~StaleSlotsReused
  PROVE  Spec => []WokenHasMail
<1>1. MailInv => WokenHasMail
  BY DEF MailInv
<1> QED BY <1>1, MailInvariant, PTL

\* A live task's mailbox is allocated, and nobody else's mailbox or stack.
THEOREM MailboxesPrivateCorrect ==
  ASSUME ~StaleSlotsReused
  PROVE  Spec => []MailboxesPrivate
<1>1. MailInv => MailboxesPrivate
  BY DEF MailInv, BlocksOwned, Owners, MailboxesPrivate, Live
<1> QED BY <1>1, MailInvariant, PTL

\* Every block carved from the heap is still the stack or the mailbox of a live
\* task: exit gives back what create and mbx_create took.
THEOREM NoLeakCorrect ==
  ASSUME ~StaleSlotsReused
  PROVE  Spec => []NoLeak
<1>1. TaskInv /\ MailInv => NoLeak
  <2>1. SUFFICES ASSUME TaskInv, MailInv, NEW b \in heap
                 PROVE  \/ \E t \in UserTasks : usp[t] = b
                        \/ \E t \in TaskId : state[t] # DORMANT /\ mbx[t] = b
    BY DEF NoLeak, Live
  <2>2. b # NULL
    BY <2>1, NullAssumption DEF TaskInv, TypeOK
  <2> QED BY <2>1, <2>2 DEF MailInv, BlocksOwned, Owners
<1> QED BY <1>1, KernelInvariant, MailInvariant, PTL

\* Stacks stay private with mailboxes on the same heap.
THEOREM KernelStacksPrivate ==
  ASSUME ~StaleSlotsReused
  PROVE  Spec => []StacksPrivate
<1>1. MailInv => StacksPrivate
  BY DEF MailInv, BlocksOwned, StacksPrivate
<1> QED BY <1>1, MailInvariant, PTL

\* A mailbox never holds more bytes than it was created with, its own header and
\* the sender's id of every message counted, however sends and interrupts share it.
THEOREM WithinCapacityCorrect ==
  ASSUME ~StaleSlotsReused
  PROVE  Spec => []WithinCapacity
<1>1. MsgInit => WithinCapacity
  <2>1. MsgInit => TaskInv /\ MailInv
    BY MsgInitInv
  <2>2. MsgInit => \A t \in TaskId : mbx[t] = NULL
    BY DEF MsgInit, Init
  <2> QED BY <2>2 DEF WithinCapacity
<1>2. TaskInv /\ MailInv /\ WithinCapacity /\ [Next]_vars => WithinCapacity'
  BY MsgNextCapacity
<1> QED BY <1>1, <1>2, KernelInvariant, MailInvariant, PTL DEF Spec

\* First come, first served also holds with messages: a task that waits READY keeps
\* its place while receivers are woken, sends block and keystrokes arrive.
THEOREM KernelFCFS == Spec => FCFS
<1>1. TaskInv /\ TaskInv' /\ [Next]_vars => [InTurn]_taskVars
  BY MsgNextInTurn DEF vars, taskVars, TaskInv
<1>2. FCFS <=> [][InTurn]_taskVars
  BY DEF FCFS, InTurn
<1> QED BY <1>1, <1>2, KernelInvariant, PTL DEF Spec
=============================================================================
