------------------------------- MODULE KTask -------------------------------
(***************************************************************************)
(* The task manager of the kernel (k_task.c): the task control blocks, the *)
(* ready queue, the scheduler and the system calls that create, end and    *)
(* re-prioritise tasks.  A system call of an unprivileged task runs with   *)
(* interrupts masked from the SVC to the return (HAL_CA.c:169-200), so one *)
(* action is one whole call, with the scheduling it ends in.  A call the   *)
(* code rejects with RTX_ERR before touching anything is a stuttering step *)
(* and has no action.                                                      *)
(***************************************************************************)
EXTENDS Naturals, Sequences, FiniteSets, SequencesExt

CONSTANTS
  MAX_TASKS,     \* number of task control blocks (160 in common.h)
  PRIO_NULL,     \* the null task's priority, the largest number (255)
  MaxBootTasks,  \* bound on the length of the boot-time task table
  Block,         \* the blocks the heap can hand out for stacks and mailboxes
  NULL,          \* the null pointer
  DORMANT, READY, RUNNING, BLK_MSG   \* task states (common.h:93-96)

TID_NULL == 0
TID_KCD  == MAX_TASKS - 1
PRIO_RT  == 0
TaskId   == 0 .. MAX_TASKS - 1
Prio     == 0 .. PRIO_NULL

ASSUME TaskAssumption == /\ MAX_TASKS \in Nat /\ MAX_TASKS > 2
                         /\ PRIO_NULL \in Nat /\ PRIO_NULL > 1
\* k_tsk_init indexes g_tcbs[i + 1] and trusts the table to leave TID_KCD alone.
ASSUME BootAssumption == MaxBootTasks \in 0 .. MAX_TASKS - 2
ASSUME NullAssumption == NULL \notin Block
ASSUME StateAssumption == /\ DORMANT \notin {READY, RUNNING, BLK_MSG}
                          /\ READY \notin {RUNNING, BLK_MSG}
                          /\ RUNNING # BLK_MSG

VARIABLES
  state, prio, priv,    \* TCB fields, one function per field
  usp,                  \* the heap block of the task's user stack
  mbx,                  \* the heap block of the task's mailbox, or NULL
  ready,                \* prio_list (a FIFO per priority) and the tree of priorities
  gp_current_task,      \* the task that has the CPU
  g_num_active_tasks,
  current_tid,          \* where k_tsk_create looked for a free TCB last
  heap,                 \* blocks allocated with the kernel's tag (k_mem.c, tid 256)
  boot_i, boot_left     \* k_tsk_init: loop index, table entries still to do

taskVars == <<state, prio, priv, usp, mbx, ready, gp_current_task,
              g_num_active_tasks, current_tid, heap, boot_i, boot_left>>

TypeOK ==
  /\ state \in [TaskId -> {DORMANT, READY, RUNNING, BLK_MSG}]
  /\ prio \in [TaskId -> Prio]
  /\ priv \in [TaskId -> {0, 1}]
  /\ usp \in [TaskId -> Block \cup {NULL}]
  /\ mbx \in [TaskId -> Block \cup {NULL}]
  /\ ready \in [prio_list : [Prio -> Seq(TaskId)], tree : SUBSET Prio]
  /\ gp_current_task \in TaskId
  /\ g_num_active_tasks \in Nat
  /\ current_tid \in TaskId
  /\ heap \subseteq Block
  /\ boot_i \in Nat
  /\ boot_left \in Nat
  /\ boot_i + boot_left <= MaxBootTasks

-----------------------------------------------------------------------------
(* The ready queue (tcb_storage.c).  The tree holds the priorities whose  *)
(* list is not empty and is maintained separately from the lists.          *)

\* Mutant of pl_insert: t is linked at the front of its list.
pl_insert_AtFront(rq, t, p) ==
  [prio_list |-> [rq.prio_list EXCEPT ![p] = <<t>> \o @],
   tree |-> rq.tree \cup {p}]

\* Append t to the list of priority p; a list that was empty enters the tree.
pl_insert(rq, t, p) ==
  [prio_list |-> [rq.prio_list EXCEPT ![p] = Append(@, t)],
   tree |-> IF rq.prio_list[p] = <<>> THEN rq.tree \cup {p} ELSE rq.tree]

\* Unlink the head of list p; a list that becomes empty leaves the tree.
pl_pop_min(rq, p) ==
  [prio_list |-> [rq.prio_list EXCEPT ![p] = Tail(@)],
   tree |-> IF Tail(rq.prio_list[p]) = <<>> THEN rq.tree \ {p} ELSE rq.tree]

\* Where the walk along q meets t first.
Position(q, t) ==
  CHOOSE i \in DOMAIN q : q[i] = t /\ \A j \in 1 .. i - 1 : q[j] # t

\* Unlink t from the list of priority p.  The walk past the head does not look
\* at the tree: a list that t is not the head of cannot become empty.
pl_remove(rq, t, p) ==
  IF Head(rq.prio_list[p]) = t THEN pl_pop_min(rq, p)
  ELSE [rq EXCEPT !.prio_list[p] =
          IF t \in ToSet(@) THEN RemoveAt(@, Position(@, t)) ELSE @]

\* rb_min(tree.root): the most urgent priority with a READY task.
rb_min(tree) == CHOOSE p \in tree : \A q \in tree : p <= q

-----------------------------------------------------------------------------
(* The scheduler.  The operators take the ready queue rq, the task states  *)
(* st and the priorities pr the caller has just written.                   *)

\* The running task still wants the CPU (scheduler() and run_new_wrapper()).
Runnable(st, t) == st[t] \notin {DORMANT, BLK_MSG}

\* Mutant of scheduler: the current task is put back even if it cannot run.
scheduler_RequeuesBlocked(rq, st, pr) ==
  LET cur == gp_current_task
      min == rb_min(rq.tree)
      all == pl_insert(rq, cur, pr[cur])
  IN  IF rq.tree = {} \/ (pr[cur] < min /\ Runnable(st, cur))
      THEN [next |-> cur, rq |-> rq]
      ELSE [next |-> Head(all.prio_list[min]), rq |-> pl_pop_min(all, min)]

\* Mutant of scheduler: the running task keeps the CPU at equal priority.
scheduler_KeepsEqual(rq, st, pr) ==
  LET cur == gp_current_task
      min == rb_min(rq.tree)
      all == IF Runnable(st, cur) THEN pl_insert(rq, cur, pr[cur]) ELSE rq
  IN  IF rq.tree = {} \/ (pr[cur] <= min /\ Runnable(st, cur))
      THEN [next |-> cur, rq |-> rq]
      ELSE [next |-> Head(all.prio_list[min]), rq |-> pl_pop_min(all, min)]

\* Mutant of scheduler: the running task's priority is never looked at.
scheduler_IgnoresCurrent(rq, st, pr) ==
  LET cur == gp_current_task
      min == rb_min(rq.tree)
      all == IF Runnable(st, cur) THEN pl_insert(rq, cur, pr[cur]) ELSE rq
  IN  IF rq.tree = {}
      THEN [next |-> cur, rq |-> rq]
      ELSE [next |-> Head(rq.prio_list[min]), rq |-> pl_pop_min(all, min)]

\* The task to run next, and the ready queue without it.
scheduler(rq, st, pr) ==
  LET cur == gp_current_task
      min == rb_min(rq.tree)
      all == IF Runnable(st, cur) THEN pl_insert(rq, cur, pr[cur]) ELSE rq
  IN  IF rq.tree = {} \/ (pr[cur] < min /\ Runnable(st, cur))
      THEN [next |-> cur, rq |-> rq]
      ELSE [next |-> Head(all.prio_list[min]), rq |-> pl_pop_min(all, min)]

\* Mutant of SwitchStates: the task that loses the CPU stays RUNNING.
SwitchStates_KeepsOld(st, next) ==
  IF next = gp_current_task THEN st ELSE [st EXCEPT ![next] = RUNNING]

\* States once next has the CPU instead of the running task.
SwitchStates(st, next) ==
  LET cur == gp_current_task
  IN  IF next = cur THEN st
      ELSE [st EXCEPT ![next] = RUNNING,
                      ![cur] = IF Runnable(st, cur) THEN READY ELSE @]

k_tsk_run_new(rq, st, pr) ==
  LET s == scheduler(rq, st, pr)
  IN  /\ ready' = s.rq
      /\ gp_current_task' = s.next
      /\ state' = SwitchStates(st, s.next)

\* Mutant of run_new_wrapper: a call that is not a yield never reschedules.
run_new_wrapper_NeverPreempts(strict, rq, st, pr) ==
  IF ~strict /\ Runnable(st, gp_current_task)
  THEN ready' = rq /\ state' = st /\ UNCHANGED gp_current_task
  ELSE k_tsk_run_new(rq, st, pr)

\* strict: give way to equal priorities as well, as a yield does.
run_new_wrapper(strict, rq, st, pr) ==
  LET cur == gp_current_task
  IN  IF ~strict /\ Runnable(st, cur) /\ (rq.tree = {} \/ pr[cur] <= rb_min(rq.tree))
      THEN ready' = rq /\ state' = st /\ UNCHANGED gp_current_task
      ELSE k_tsk_run_new(rq, st, pr)

-----------------------------------------------------------------------------
(* Memory.  The heap hands out whole blocks; how it finds them is left to   *)
(* k_mem.c.                                                                *)

\* Mutant of k_mem_alloc_with_tid: the block stays on the free list.
k_mem_alloc_with_tid_KeepsFree(b) == b \in Block /\ heap' = heap \cup {b}

\* Block b was free and now carries the kernel's tag.
k_mem_alloc_with_tid(b) == b \in Block \ heap /\ heap' = heap \cup {b}

\* A user stack for task tid.  No action of the callers is enabled for the case
\* of an exhausted heap: a create then returns RTX_ERR with nothing changed.
k_alloc_p_stack(tid) ==
  \E b \in Block : k_mem_alloc_with_tid(b) /\ usp' = [usp EXCEPT ![tid] = b]

-----------------------------------------------------------------------------
(* Boot: k_tsk_init runs as the null task, one table entry per step.       *)

Init ==
  /\ state = [t \in TaskId |-> IF t = TID_NULL THEN RUNNING ELSE DORMANT]
  /\ prio = [t \in TaskId |-> IF t = TID_NULL THEN PRIO_NULL ELSE 0]
  /\ priv = [t \in TaskId |-> IF t = TID_NULL THEN 1 ELSE 0]
  /\ usp = [t \in TaskId |-> NULL]
  /\ mbx = [t \in TaskId |-> NULL]
  /\ ready = [prio_list |-> [p \in Prio |-> <<>>], tree |-> {}]
  /\ gp_current_task = TID_NULL
  /\ g_num_active_tasks = 1
  /\ current_tid = 1
  /\ heap = {}
  /\ boot_i = 0
  /\ boot_left \in 0 .. MaxBootTasks

\* k_tsk_create_new and what k_tsk_init does when it succeeds.
BootCreate(tid, p) ==
  /\ state' = [state EXCEPT ![tid] = READY]
  /\ ready' = pl_insert(ready, tid, p)
  /\ g_num_active_tasks' = g_num_active_tasks + 1
  /\ boot_left' = boot_left - 1

\* One entry of the table: the KCD's goes to TID_KCD, any other to i + 1.
\* The entry's priority and privilege reach the TCB before they are validated.
BootTask(kcd, p, v) ==
  LET tid == IF kcd THEN TID_KCD ELSE boot_i + 1
  IN  /\ boot_left > 0
      /\ kcd => state[TID_KCD] = DORMANT    \* the KCD is listed at most once
      /\ prio' = [prio EXCEPT ![tid] = p]
      /\ priv' = [priv EXCEPT ![tid] = v]
      /\ boot_i' = IF kcd THEN boot_i ELSE boot_i + 1
      /\ UNCHANGED <<mbx, gp_current_task, current_tid>>
      /\ \/ /\ v = 1
            /\ BootCreate(tid, p)
            /\ UNCHANGED <<usp, heap>>
         \/ /\ v = 0 /\ p # PRIO_NULL
            /\ k_alloc_p_stack(tid)
            /\ BootCreate(tid, p)
         \/ /\ v = 0 /\ p # PRIO_NULL            \* no memory: entry skipped
            /\ boot_left' = boot_left - 1
            /\ UNCHANGED <<state, ready, g_num_active_tasks, usp, heap>>
         \/ /\ v = 0                             \* bad entry: RTX_ERR, and
            /\ boot_left' = 0                    \* main() goes on without the rest
            /\ UNCHANGED <<state, ready, g_num_active_tasks, usp, heap>>

-----------------------------------------------------------------------------
(* System calls.                                                           *)

\* Boot is over and the caller is in its own code.
Booted == boot_left = 0

\* task_null does nothing but yield; every other task may make any call.
CanCall == Booted /\ gp_current_task # TID_NULL

k_tsk_yield ==
  /\ Booted
  /\ run_new_wrapper(TRUE, ready, state, prio)
  /\ UNCHANGED <<prio, priv, usp, mbx, g_num_active_tasks, current_tid, heap,
                 boot_i, boot_left>>

\* Mutant of FreeSlot: the index does not wrap around.
FreeSlot_NoWrap ==
  LET above == {t \in TaskId : state[t] = DORMANT /\ t > current_tid}
  IN  IF above # {} THEN Min(above) ELSE current_tid + 1

\* Mutant of FreeSlot: the next slot is taken without a look at its state.
FreeSlot_TakesNext == (current_tid + 1) % MAX_TASKS

\* The first DORMANT slot after current_tid, cyclically; after MAX_TASKS failed
\* probes the search is back where it started.
FreeSlot ==
  LET dormant == {t \in TaskId : state[t] = DORMANT}
      above == {t \in dormant : t > current_tid}
  IN  CASE above # {} -> Min(above)
        [] above = {} /\ dormant # {} -> Min(dormant)
        [] OTHER -> (current_tid + 1) % MAX_TASKS

\* The slot's mbx pointer is left as its previous owner left it.
k_tsk_create(p) ==
  LET tid == FreeSlot
      st == [state EXCEPT ![tid] = READY]
      pr == [prio EXCEPT ![tid] = p]
  IN  /\ CanCall
      /\ g_num_active_tasks < MAX_TASKS
      /\ p \notin {PRIO_NULL, PRIO_RT}
      /\ k_alloc_p_stack(tid)
      /\ current_tid' = tid
      /\ prio' = pr
      /\ priv' = [priv EXCEPT ![tid] = 0]
      /\ g_num_active_tasks' = g_num_active_tasks + 1
      /\ run_new_wrapper(FALSE, pl_insert(ready, tid, p), st, pr)
      /\ UNCHANGED <<mbx, boot_i, boot_left>>

\* Mutant of FreedByExit: the mailbox of an ending task is not given back.
FreedByExit_NoMailbox(t) == IF priv[t] = 0 THEN {usp[t]} ELSE {}

\* The blocks an ending task gives back: a user task's stack, and its mailbox.
\* k_mem_dealloc_with_tid rejects a block whose header lost the kernel's tag,
\* so freeing a block that is not allocated changes nothing.
FreedByExit(t) == (IF priv[t] = 0 THEN {usp[t]} ELSE {}) \cup {mbx[t]}

k_tsk_exit ==
  LET cur == gp_current_task
  IN  /\ CanCall
      /\ heap' = heap \ FreedByExit(cur)
      /\ g_num_active_tasks' = g_num_active_tasks - 1
      /\ run_new_wrapper(FALSE, ready, [state EXCEPT ![cur] = DORMANT], prio)
      /\ UNCHANGED <<prio, priv, usp, mbx, current_tid, boot_i, boot_left>>

\* Mutant of MaySetPrio: the null task is not protected.
MaySetPrio_AlsoNull(t, p) ==
  /\ state[t] # DORMANT
  /\ p \notin {PRIO_NULL, PRIO_RT}

\* The validation of k_tsk_set_prio's arguments.
MaySetPrio(t, p) ==
  /\ t # TID_NULL /\ state[t] # DORMANT
  /\ p \notin {PRIO_NULL, PRIO_RT}
  /\ ~(priv[t] = 1 /\ priv[gp_current_task] = 0)

k_tsk_set_prio(t, p) ==
  LET pr == [prio EXCEPT ![t] = p]
      requeued == IF state[t] = READY
                  THEN pl_insert(pl_remove(ready, t, prio[t]), t, p) ELSE ready
  IN  /\ CanCall
      /\ MaySetPrio(t, p)
      /\ prio' = pr
      /\ \/ /\ t = gp_current_task
            /\ run_new_wrapper(TRUE, ready, state, pr)
         \/ /\ t # gp_current_task
            /\ run_new_wrapper(FALSE, requeued, state, pr)
      /\ UNCHANGED <<priv, usp, mbx, g_num_active_tasks, current_tid, heap,
                     boot_i, boot_left>>

Boot    == \E kcd \in BOOLEAN, p \in Prio, v \in {0, 1} : BootTask(kcd, p, v)
Create  == \E p \in Prio : k_tsk_create(p)
SetPrio == \E t \in TaskId, p \in Prio : k_tsk_set_prio(t, p)

TaskNext == Boot \/ k_tsk_yield \/ Create \/ k_tsk_exit \/ SetPrio

\* The task manager on its own: no task uses messages.
TaskSpec == Init /\ [][TaskNext]_taskVars

-----------------------------------------------------------------------------
(* What makes the task manager correct.                                    *)

\* Every task in a list is READY and waits in the list of its own priority,
\* and no task waits twice: a task is never linked into two places.
QueuedIsReady ==
  \A p \in Prio : \A i \in DOMAIN ready.prio_list[p] :
     LET t == ready.prio_list[p][i]
     IN  /\ state[t] = READY
         /\ prio[t] = p
         /\ \A j \in DOMAIN ready.prio_list[p] : ready.prio_list[p][j] = t => j = i

\* No READY task is ever lost: it waits in the list of its own priority.
ReadyIsQueued ==
  \A t \in TaskId : state[t] = READY =>
     \E i \in DOMAIN ready.prio_list[prio[t]] : ready.prio_list[prio[t]][i] = t

\* The tree knows exactly the priorities somebody waits at.  It is updated only
\* when pl_insert and pl_pop_min see a list become non-empty or empty.
TreeMatchesLists == ready.tree = {p \in Prio : ready.prio_list[p] # <<>>}

\* The list-and-tree queue and the states in the TCBs agree.
ReadyQueueOK == QueuedIsReady /\ ReadyIsQueued /\ TreeMatchesLists

\* gp_current_task is RUNNING and nobody else is: the CPU is never given to a
\* DORMANT or blocked task (k_inc.h:101, "always point to the current RUNNING task").
OneRunning == \A t \in TaskId : state[t] = RUNNING <=> t = gp_current_task

\* The null task can always be scheduled.  scheduler() returns a DORMANT or
\* blocked gp_current_task when the tree is empty; this is why it never does.
NullSchedulable == state[TID_NULL] \in {READY, RUNNING} /\ prio[TID_NULL] = PRIO_NULL

\* g_num_active_tasks is the "number of non-dormant tasks" (k_inc.h:106), so
\* k_tsk_create, which trusts it, always finds a DORMANT slot.
ActiveCount == g_num_active_tasks = Cardinality({t \in TaskId : state[t] # DORMANT})

\* From the first yield on, every step leaves a most urgent task with the CPU,
\* whatever it created, ended, woke or re-prioritised ("strict-priority",
\* common.h:72).
StrictPriority ==
  [][Booted => \A t \in TaskId : state'[t] = READY =>
        prio'[gp_current_task'] <= prio'[t]]_taskVars

\* The tasks that wait in front of t in its list.
Ahead(t) ==
  LET q == ready.prio_list[prio[t]]
  IN  {q[j] : j \in {k \in DOMAIN q : \A i \in 1 .. k : q[i] # t}}

\* First come, first served at equal priority (common.h:72): nobody gets in front
\* of a task that stays READY, unless k_tsk_set_prio re-queues that very task.
FCFS ==
  [][\A t \in TaskId :
       state[t] = READY /\ state'[t] = READY /\ prio'[t] = prio[t]
         => Ahead(t)' \subseteq Ahead(t) \/ \E p \in Prio : k_tsk_set_prio(t, p)]_taskVars

\* Live user tasks have stacks of their own, in allocated memory, even though
\* k_tsk_exit leaves usp and mbx behind and create reuses the slot.
UserTasks == {t \in TaskId : state[t] # DORMANT /\ priv[t] = 0}
StacksPrivate ==
  /\ \A t \in UserTasks : usp[t] \in heap
  /\ \A t, u \in UserTasks : usp[t] = usp[u] => t = u

\* A task that waits at a priority nobody runnable beats gets the CPU again and
\* again, if from some point on nobody calls k_tsk_set_prio: re-setting a READY
\* task's priority sends it to the back of its list, so it can be starved.
MostUrgent(t) ==
  /\ state[t] \in {READY, RUNNING}
  /\ \A u \in TaskId : state[u] \in {READY, RUNNING} => prio[t] <= prio[u]
RoundRobin ==
  \A t \in TaskId :
    (<>[]MostUrgent(t) /\ <>[][~SetPrio]_taskVars) => []<>(gp_current_task = t)

=============================================================================
