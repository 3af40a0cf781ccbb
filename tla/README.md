# A verification project for TinyRTOS (ECE350-RTOS)

TinyRTOS is a small real-time kernel in C for the DE1-SoC board (one ARM Cortex-A9 core):
up to 160 tasks with strict-priority scheduling, a first-fit heap, mailboxes and a keyboard
command dispatcher. This directory holds TLA+ models of the kernel, the TLC runs that check
them on small instances, and TLAPS proofs for every instance. Paths below are relative to
`src/RTX/src/` unless they start with `src/`.

## 1. Inventory

| Part (source) | State | Operations | Correct if |
|---|---|---|---|
| Task manager, scheduler (`kernel/k_task.c`) | TCBs `g_tcbs[]` (state, prio, priv, usp, mbx), `gp_current_task`, `g_num_active_tasks`, `current_tid` | boot table, create, exit, set_prio, yield, scheduler, context switch | one task runs, and it is a most urgent one; equal priorities are served in order; the count is right; slots, stacks and mailboxes are not shared |
| Ready queue (`kernel/tcb_storage.c`) | one linked list per priority, a red-black tree of the priorities whose list is not empty | pl_insert, pl_pop_min, pl_remove; rb_insert, rb_remove, rb_min | lists, tree and task states agree; the tree stays a red-black tree |
| Messages (`kernel/k_msg.c`) | TCB.mbx, task states | mbx_create, send_msg, recv_msg (blocks) | no lost wake-up, no wake-up without mail |
| Mailbox (`kernel/mailbox.c`) | a byte ring in a heap block, `first_header` | push_message, pop_message | a bounded FIFO of messages, unaltered |
| Heap (`kernel/k_mem.c`) | free list in address order, a tagged header per allocated block | k_mem_alloc, k_mem_dealloc, count_extfrag | blocks do not overlap, nothing is lost, neighbours merge |
| Exceptions (`kernel/HAL_CA.c`) | interrupt mask, stacks, the temporary `gp_current_task` of the UART handler | SVC_Handler, IRQ_Handler, c_IRQ_Handler | calls are atomic for user tasks; a keystroke reaches the KCD |
| Boot (`kernel/main_svc_cw.c`, `kernel/k_rtx_init.c`) | - | main, k_rtx_init, task_null | the null task is always there |
| KCD (`app/kcd_task.c`) | `commands[62]`, `command_string[64]`, `count`, one message buffer | register, collect keystrokes, dispatch | a typed command goes, whole, to the living task that registered it last, and nothing else is sent |
| Board drivers (`board/DE1_SoC_A9/`) | device registers | UART, timers, GIC, printf | register-level I/O, supplied with the board |
| Tests (`app/ae*.c`) | the tasks' own variables (`turn`, `what_to_send`, scores) | nine configurations of `TEST`: a boot table and the tasks' programs | every call does what its test wants, every test ends with a full score |

Interactions. A user task enters the kernel by SVC with interrupts masked until it returns,
so its call is atomic; it may return much later, in `k_tsk_switch`, when the scheduler gives
the CPU back. A privileged task calls the same functions directly. The UART interrupt comes
between any two instructions of a task's own code, replaces `gp_current_task` by a
temporary TCB, posts every waiting character to the KCD's mailbox and then reschedules.
Create, mbx_create and exit share the heap; create, exit, set_prio, send, receive and the
interrupt share the ready queue. The KCD is a user task like any other: it receives
registrations and keystrokes from the mailbox all tasks and the interrupt write to, and sends
commands to the mailboxes of tasks that may have ended in the meantime.

What is hard: the ready queue is described three times (list, tree, state) and each helper
updates a part; a receiver blocks in the middle of a call that senders and an interrupt
handler complete; slots, stacks and mailboxes are reused while old pointers stay in the TCB;
the scheduler returns a task that cannot run if the queue is ever empty. `PROJECT.json` lists
the hazards at their lines. There is no persistent state, and no message can be lost,
duplicated or reordered on the way: the hazards are interleavings, stale state, limits and
long sequences of legal calls.

## 2. Modules

| Module | Models | Checked by |
|---|---|---|
| `KTask` | `k_task.c`, the lists of `tcb_storage.c`, boot | `MCKTask` |
| `KMsg` (extends `KTask`) | `k_msg.c`, the UART branch of `c_IRQ_Handler`, mailboxes as bounded FIFOs | `MCKMsg` |
| `KTaskProofs`, `KMsgProofs` | theorems about `KTask` and about `KMsg` | `tlapm` |
| `Heap` | what the memory manager promises: a first-fit allocator of disjoint blocks | `MCKMem` |
| `KMem` | `k_mem.c`: free list, headers, splitting, merging; implements `Heap` | `MCKMem` |
| `KMemProofs` | theorems about `KMem`, the refinement among them | `tlapm` |
| `MsgQueue` | what a mailbox promises: a bounded FIFO of messages | `MCMailbox` |
| `Mailbox` | `mailbox.c`: one ring of bytes; implements `MsgQueue` | `MCMailbox` |
| `MailboxProofs` | theorems about `Mailbox`, the refinement among them | `tlapm` |
| `InductionLemmas` | induction over natural numbers, for proofs about recursive functions | `tlapm` |
| `RBTree` | the red-black tree of `tcb_storage.c` | `MCRBTree` |
| `RBTreeInsertProofs`, `RBTreeProofs` | theorems about `RBTree`: rotations and insertion; removal and the theorems | `tlapm` |
| `CommandLine` | what the KCD promises: lines that go to whoever registered their command | `MCKcd` |
| `KcdTask` | `kcd_task.c`: what one pass of its loop does with one message (operators) | `MCKcd`, `MCAe` |
| `Kcd` (extends `KcdTask`) | the KCD among tasks that register, end and send anything; implements `CommandLine` | `MCKcd` |
| `KcdProofs` | theorems about `Kcd`, the refinement among them | `tlapm` |
| `AeScripts` (extends `KcdTask`) | `ae_usr_tasks.c`, `ae_priv_tasks.c`, `ae.c`: the test programs as scripts of calls, the boot tables | `MCAe` |
| `Ae` (extends `KMsg`, uses `AeScripts`) | the whole system under its own tests: kernel, KCD, test tasks, UART and keyboard | `MCAe` |

`Ae` is the composition: every step of it is an action of `KMsg` joined with what the task
that called or was interrupted makes of it, and the KCD in it is the operator `Handle` that
`Kcd` checks on its own. `KTask` and `KMsg` use the promises (a set of allocated blocks, a
queue of lengths, a set of priorities); `KMem`, `Mailbox` and `RBTree` are the code below
them, each on its own. Their operations run inside calls that are atomic, so a step of theirs
is a whole function.

The operators whose comment begins "Mutant of" are wrong variants of the definition that
follows them. They are not part of the model: a property is only kept if replacing the
definition by such a variant makes TLC report the property as violated (`PROJECT.json`,
"mutants").

### KTask

One function per TCB field (`state`, `prio`, `priv`, `usp`, `mbx`); `ready` is a record of
the lists (`prio_list`, a sequence per priority) and of the set of priorities the tree holds
(`tree`); the two are updated separately, as in the code. `heap` is the set of allocated
blocks; how the allocator finds a block is not modelled here, and any free block may be the
answer. `pl_insert`, `pl_pop_min`, `pl_remove`, `rb_min`, `scheduler`, `k_tsk_run_new` and
`run_new_wrapper` are operators with the names of the functions. The scheduler's operators
take the queue, the states and the priorities as parameters because the system calls write
those before they call it.

Each system call is one action (`k_tsk_yield`, `k_tsk_create`, `k_tsk_exit`,
`k_tsk_set_prio`), including the rescheduling it ends in. Calls that return RTX_ERR without
a change (no memory, no slot, bad arguments) leave the state as it is and have no action.
`BootTask` is one iteration of the loop in `k_tsk_init`: a privileged entry, a user entry, a
user entry without memory (skipped), and a bad entry (boot ends, `main` ignores the error).
Table entries are chosen freely, with any priority; the KCD is listed at most once. The null
task only yields (`CanCall`).

Abstracted: stack contents and entry points; alignment and size checks of stacks (their
outcome is "rejected"); addresses. `k_tsk_get_info` and `k_tsk_get_tid` only read.

### KMsg

`box[b]` is the mailbox in heap block `b`: its size in bytes and the lengths of the messages
in it, which is all the kernel decides on. `Used`, `Space` and `Footprint` count bytes as
`push_message` does (header of the mailbox 8, sender id 1). `in_recv` is the set of tasks
whose `k_recv_msg` blocked and has not come back; in the code this is the return address on
the kernel stack. `RecvBlock` blocks and reschedules; `RecvResume` is the rest of the call,
when the task has the CPU again: it pops without testing for mail.

`c_IRQ_Handler(n)` finds n characters. It posts them as long as they fit, wakes the KCD if it
was blocked, and reschedules whether it posted or not. It is enabled when a task is in its
own code. It is not enabled for the null task: `main` enters the kernel with interrupts
masked (`k_rtx_init.c:57`) and never unmasks them.

`KeysAccepted` gives how many of n characters a mailbox takes: the loop posts one after the
other, and since all have the same length it stops at the first that does not fit.

Assumptions. Privileged tasks' calls are taken to be atomic too, although interrupts are
enabled in them. The heap always has room for the temporary blocks of `push_message`,
`pop_message` and the interrupt handler. Lengths and sizes are at least a header
(`MsgAssumption`). Owners of mailboxes end, and the blocks they give back are stacks and
mailboxes of others afterwards. But `StaleSlotsReused = FALSE` excludes that a task is created
in a TCB that still points at the mailbox of a task that ended (`StaleSlots`): see finding 1,
after which memory is shared and nothing below would hold.

The handler is one step. That `gp_current_task` is a temporary TCB while it sends is therefore
seen only in what the handler leaves behind: nobody else runs in between, and the wake-up is
done with the real current task back in place.

### KMem and Heap

`mem` maps each multiple of 8 to the two words the kernel wrote there; a free block's header
and an allocated block's are the same two words, and headers of merged blocks stay behind, as
in the code. `walk` is the walk along the list. `fits` tests the head before it asks whether
it is NULL, because the code does. `Heap` knows blocks in use only: a request gets the first
span that holds it or is refused, and the refinement mapping takes the blocks in use to be the
headers that carry a tag. RAM ends 7 bytes into a unit of 8 (`RAM_END`), which no request can
get; a block handed out whole at the end of the heap may contain them.

`request` is a history variable of both: the call that was granted last, with its size or
pointer and its caller. It ties each step of the list to the step of `Heap` with the same
arguments, so that a block that is too short for its request, or that is given back by somebody
else, is no step of `Heap`.

Assumptions. A tag is 42069000 plus the owner's id. That number, and the one of the kernel's
blocks, are multiples of 8 inside RAM, so a free block may begin there; the header before it
then has a next pointer that passes the ownership test. `TagsApart` says that in a state no
free block begins at an address that is the value of a tag, and `ApartSpec` is the behaviours
in which it holds throughout; the run and the theorems are about these. It is an assumption
about where blocks begin, not about the constants: the instance of `mem` has a tag inside its
heap. `TagAssumption` says no more than that tags are positive numbers. Callers stay inside
their blocks and pass NULL or a pointer that `k_mem_alloc` can return, in use or not.
`EmptyListCalls = FALSE` excludes calls when no block is free: see finding 2. `Sizes`
excludes requests within 15 bytes of 2^32, whose size plus header plus rounding wraps around
(`k_mem.c:209-211`) to a block of no or one unit; `total_bytes_needed` models the wrap, but
`Heap` promises a block that holds the request.

### Mailbox and MsgQueue

The ring's bytes are modelled one by one where the code looks at them: the four bytes of a
length field are real bytes (in base `BYTE`), the others are numbers, beyond any length, that
tell which message they belong to and where, so that a byte out of place is noticed. The walk
of `push_message` and the test for the last message in `pop_message` see nothing but lengths
and zeros. `overrun` records that `push_message` wrote outside of the mailbox. The refinement
mapping (`Contents`) finds each message by its fifth byte, which says which message it is,
and orders them by their distance from `first_header`: it uses no length field's position
relative to another.

Assumptions. Lengths are at least a header, and they, the sender's id added, and the capacity
fit in a word (`RingAssumption`); `k_mbx_create` and `k_send_msg` set no other upper limit. The
temporary blocks can be allocated.
What `KMsg` takes for granted, that `push_message` accepts a message exactly when there is
room, holds in rings that are never left with a gap of one to three bytes (`AcceptsIffRoom`;
finding 3 is the case that is left). The instances of `KMsg` have such rings: 24 bytes for
messages of 10 and 14.

### RBTree

The tree is a record of the root and the nodes' fields; a node is its own priority, and `NIL`
is the shared nil node. Left and right cases are one case with a side as parameter.

A loop of the code is one iteration of it as an operator on the loop's variables
(`InsertFixup`, `RemoveFixup`), which leaves them alone where the loop's test fails, and
`Iterated` does it `Iterations` times. That as many iterations as there are nodes are enough
is part of what is proved (section 5). `BlackSibling` is the part of an iteration of
`rb_remove_fixup` behind the test for a red sibling. `rb_remove` lets the nil node
have a parent for a while, as the code does. Only the fields of nodes outside the tree differ
from the code: they are reset, because `rb_insert` writes them before anything reads them.

### KcdTask, Kcd and CommandLine

`KcdState` is the KCD's memory: the table `commands`, the buffer `command_string`, `count`,
and `msg_body`, the first byte behind the header in the only message buffer, which survives
until a message overwrites it. Characters are ASCII codes because the table's index is computed
from them (`CommandIndex`). `Handle(k, m, dormant)` is one pass of the loop: it returns the new
memory and the message that is sent, if any. Its parts follow the branches of the code:
`Register` (line 47), `StoreKey` (line 104, with the mark `BUF + 1` for a line that is too
long), `Addressee`, `CommandMessage` and `AfterEnter` (line 69). Neither the buffer nor the
message buffer is initialised; `Garbage` is what they may contain.

`Kcd` gives it messages in mailbox order: keystrokes, registrations, messages of other types,
forged keys, messages that are too long for `recv_msg`; and tasks end and come back, which
nobody tells the KCD. `CommandLine` is what this promises: a directory of owners and the line
typed since the last Enter. The mapping reads the line off the counted part of the buffer and
the owners off the table. `input` is a history variable of both: the key that was pressed or
the message that was sent last. It ties the step of the KCD to the step of `CommandLine` for
that key or that registration, so that a KCD that keeps another key, or gives a command to
another task, is no step of `CommandLine`. `parity`, the parity of the number of keys
pressed, lets no key pass as a step that changes nothing.

`Stored` is a store into an array as C does it: a store outside of it makes the array longer in
the model, so that it loses its type.

The promise is made to TCB slots, as the code keeps it: a task that is created in the slot of
one that ended has the commands of its predecessor.

`Careful = TRUE` excludes two inputs for which the code promises nothing: Enter on a line
with less than two characters, and a registration without a body. With them the KCD acts on
bytes that an earlier line or message left: see finding 4.

### AeScripts and Ae

A test program is the sequence of its calls; loops with a fixed count are unrolled and tests
of results become what the call is expected to return (`want`, and for a message its sender,
type and body), with the number of calls the program skips otherwise (`skip`). `scores` marks
those that the program counts as a passed test. `Programs` has the programs of TEST 0 to 8,
`BootTable` the tables of `ae.c`, with the priorities, privileges and stack sizes given there.

`Ae` executes them on `KMsg`. `pc[t]` is the call a task is at or inside; each action is a
call of the running task (`MbxCreates`, `Sends`, `Receives`, `SetsPrio`, ...) and performs the
action of `KMsg` for it, or none if the kernel rejects the call. `mail` holds senders, types
and bodies of the messages whose lengths `box` has. The KCD runs in its own task: `KcdReceives`
is `recv_msg` and `Handle`, `KcdSends` the `send_msg` at the end of the pass, and interrupts
may come in between. `KeyPress` puts a character into the UART, `UartInterrupt` empties the
UART into the KCD's mailbox at any point where a task is in its own code. The user types the
lines TEST 2 asks for when they are asked for, and `NoiseKeys` more keys at any time after.

Assumptions. `mem_alloc` for the tests' buffers, and in the KCD, succeeds and is left out.
First fit hands out the lowest free block (blocks are numbers here; all are large enough). A
type is one byte: the 500 of TEST 5 is another value that is none of the kernel's. The
privileged tasks of TEST 0 make atomic calls. `FifoMax` is the number of keys that may wait in
the UART; the user is slow enough not to overflow it.

## 3. Runs

| Run | Instance | Shows |
|---|---|---|
| `task` | 5 TCBs, priorities 0-3, 3 stacks, up to 3 boot entries; 163,047 states | type and consistency invariants, strict priority, FCFS |
| `msg` | 4 TCBs, priorities 0-3, 3 blocks, 32-byte mailboxes, messages of 13 bytes, bursts of up to 3 keys; 766,641 states | message invariants, strict priority and wake-ups under interrupts |
| `msg_fair` | 4 TCBs, priorities 0-2, 2 blocks, 9-byte messages; 68,623 states | `WokenReceives`, `RoundRobin` |
| `mem` | a heap of 6 units of 8 bytes and 7 bytes more, requests of 0, 8 and 13 bytes, two owners, a tag that is an address of the heap; 19,231 states | `KMem` implements `Heap`; the list's invariants |
| `mailbox` | a ring of 34 bytes, messages of 10, 15 and 41 bytes, two contents each; 3,841 states | `Mailbox` implements `MsgQueue`; the ring's invariants |
| `rbtree` | 7 priorities; 4,481 states | red-black tree |
| `kcd` | a buffer of 3, two senders, three keys, three bodies; 88,128 states | `Kcd` implements `CommandLine`; every store inside its array, the count in its byte |
| `ae` | TEST 0 to 8 with their priorities, sizes and loop counts, 6 TCBs, a command buffer of 8, 3 stray keys; 5,686 states | the tests pass and end, no keystroke waits for ever in TEST 2 |
| `stale_mailbox` | as `msg_fair` | finding 1 |
| `mem_empty_list` | as `mem`, with the calls `mem` excludes | finding 2 |
| `mailbox_gap` | 34 bytes, messages of 10 and 12 bytes | finding 3 |
| `kcd_stale` | as `kcd`, with the inputs `kcd` excludes | finding 4 |

Bounds. `MAX_TASKS`: five TCBs are the null task, the KCD's slot and three more, so that a
list can hold three tasks and a removal can hit its head, middle and end. Priorities 0-3 give
the null priority, `PRIO_RT` (boot tasks only) and two ordinary ones, so preemption, equality
and giving way all occur. One block fewer than tasks makes allocation fail. A 32-byte mailbox
has 24 bytes for messages: two keys (20), or a key and a message (24, exactly), or one
message (14), so that sends are refused while mail is waiting, and a burst of three keys
overflows it. Three blocks are one short of a stack and a mailbox for two tasks.
`MaxBootTasks` bounds the boot table and `MaxBurst` the characters one interrupt finds; there
are no other counters to bound: the state space is finite. Six units of heap let a block in
the middle be freed between free neighbours that have blocks in use on their other side,
which is every case of `k_mem_dealloc_with_tid`, and a request of 13 bytes leaves remainders;
the tag of owner 1 is the address of the fifth unit, where blocks in use begin but, in
`ApartSpec`, no free ones. Footprints of 10 and 15 bytes in a ring of 34 make messages begin
everywhere and wrap inside the length field, behind it and inside the content; the message of
41 never fits. In base 3 their lengths are 100, 112 and 1111, so that the first bytes of a
length may be zero. With seven priorities every case of both fix-ups comes up. A command
buffer of 3 holds %, a command and one character, so that lines are empty, short, exact and
too long, and the count reaches its mark; two senders take a command from each other, a digit
and a letter are registered, and one body is the character behind `z`. The six lines of TEST
2 have 6 characters, hence the buffer of 8 in `ae`; `FifoMax` and `MaxBurst` let a whole line
wait. Word sizes are scaled down (`WORD`, `BYTE`). The blocks of `KTask` and `KMsg` are
symmetric: nothing compares them but for equality. The runs that check liveness use no
symmetry.

Properties worth a word:

- `ReadyQueueOK`: lists, tree and states agree. This is what create, exit, yield, wake-up and
  re-prioritisation in any order could break.
- `NullSchedulable`: why `scheduler()` never returns a task that cannot run.
- `StrictPriority`, `FCFS`: the policy named in `common.h:72`, as action properties over
  every step. `FCFS` excepts the task `k_tsk_set_prio` is called for: it goes to the back.
- `RoundRobin`: the most urgent tasks take turns. It assumes that from some point on nobody
  calls `k_tsk_set_prio`; without that TLC shows a READY task starved by calls that set its
  priority to what it is.
- `BlockedHasNoMail`, `WokenHasMail`: no lost wake-up, and `pop_message` never finds an empty
  mailbox, whose NULL result `k_recv_msg` would dereference.
- `WakeupPreempts`: a receiver that is woken and is most urgent has the CPU when the call or
  the interrupt ends.
- `MailboxesPrivate`, `StacksPrivate`, `NoLeak`: reuse of slots and blocks. In `msg` stacks
  and mailboxes are given back by tasks that end and taken by others; `NoLeak` fails if exit
  forgets the mailbox.
- `ImplementsHeap`, `ImplementsQueue`: the two refinements. `Partitioned` and `UnusedIsZero`
  are what they rest on: every unit of the heap is in one block, and what is not in use in a
  ring is zero, by which `push_message` and `pop_message` find the end of the messages.
- `ImplementsHeap` also holds each call to its own arguments: it fails if the size is rounded
  down, and if a block is taken back from somebody who does not own it.
- `RefusedOnlyIfFull`: no order of calls leaves free space cut up by anything but blocks in
  use. It fails if any of the merges of `k_mem_dealloc_with_tid` is missed.
- `ImplementsCommandLine`: the KCD sends what was typed, all of it, to the right task, and
  nothing else, although forged, overlong and unknown messages arrive in between, owners end,
  and the buffer is never cleared. It fails if a line that could not be processed is kept, and
  if a later registration does not replace an earlier one.
- `KcdTypeOK`: every key is stored inside the buffer and every registration inside the table,
  and `count` stops at its mark however long a line gets. It fails if one key more is stored.
- `TestsPass`: over all places where keys may interrupt and tasks be preempted, no call of a
  test returns anything else than the test wants. TEST 2 rests on the order of two tasks at
  different priorities, on mailboxes with room for one command, and on the KCD's priority.
- `TestsEnd`: nobody waits for ever, although task 2 of TEST 2 spins on a variable.
- `KeysAreSeen`: the null task runs with interrupts masked, so keystrokes are seen only as
  long as another task is left to run. Task 3 of TEST 2, which only yields, is what
  makes it hold; the run's mutant lets it exit.
- `Balanced`, `SearchTree`, `MembersKept`: the tree after any order of insertions and
  removals.

Fairness. There is no time slice (the timer branches of `c_IRQ_Handler` never reschedule), so
the kernel alone guarantees no progress. The fair specifications assume that boot finishes,
that the running task yields sooner or later (weak fairness of the yield, which is enabled
for whoever has the CPU), and in `KMsg` that the kernel finishes a `k_recv_msg` it resumed.
`AeSpec` assumes weak fairness of three things: the CPU goes on executing (some step of
whoever has it, not of any task in particular); the UART interrupt is taken if it stays
possible, which the GIC does with an unmasked pending interrupt; and the user types what the
test asks for.

## 4. Findings

1. `stale_mailbox`: exit frees the mailbox and leaves the pointer; a task created in the slot
   owns a mailbox in freed memory, can never create one, and receives or is sent messages
   through it. The run boots slots 1 and 2; task 2 makes a mailbox and ends, and task 1 creates
   a task, for which the search begins at slot 2.
2. `mem_empty_list`: when the last free block is handed out whole, `head` is NULL, and the
   next `k_mem_alloc` reads the word at address 0 as a size. The MMU is off and RAM is at
   address 0, so the word decides between a refusal and a block at address 0.
3. `mailbox_gap`: one to three bytes left between the last message and the first are fewer
   than a length field, and `get_header` reads on into the first message. The walk then
   counts more bytes than there are, `space_remaining` wraps around, and a message is accepted
   and written outside of the mailbox.
4. `kcd_stale`: Enter looks at the first two characters of the buffer without asking whether
   two were typed. "%9", Enter, Enter dispatches twice, the second time with a length of 7,
   less than a header, and a copy of 2^32 - 1 bytes (`kcd_task.c:73-100`).

Two observations have no run. The search of `k_tsk_create` for a free slot skips
`TID_UART_IRQ` and not `TID_KCD` (`k_task.c:502`), which `common.h:78` reserves: a system
booted without the KCD may create an ordinary task there, and keystrokes then go to that task.
And a size near 2^32 wraps around in the allocator (section 2, `KMem`).

`src/README.md:13` announces "Timer-based task switching". There is none: the timer branches of
`c_IRQ_Handler` (`HAL_CA.c:272-288`) clear flags and print, and only the UART branch ever
reschedules. The models have no time slice, and the fairness of section 3 says what takes its
place.

Besides, the comment at `k_task.c:160` says that `scheduler()` keeps a current task of equal
priority; line 169 gives way to it, on which `FCFS` and `RoundRobin` rest. A block handed out
whole from the head of the free list records the size asked for (`k_mem.c:254`), further down
the list the block's own (line 227). `mem` shows that the difference never reaches a
complete unit, so that nothing is lost.

## 5. Proofs

### The task manager (`KTaskProofs`)

For all values of the constants (under the named assumptions of `KTask`: at least three TCBs
and two priorities, a boot table that fits below the KCD's slot, distinct states) `TaskSpec`
implies `[]TaskInv`, and from that `TypeOK`, `ReadyQueueOK`, `OneRunning`, `NullSchedulable`,
`ActiveCount`, and the action property `StrictPriority`.

`TaskInv` is the conjunction of these invariants with `BootSlotsFree` and
`HighestPriorityRuns`: no READY task is more urgent than the running one, except while the null
task boots the others. They need each other:
the scheduler keeps `OneRunning` only if the queue is in step (`ReadyQueueOK`) and somebody
can run (`NullSchedulable`); create finds a DORMANT slot only if `ActiveCount` holds; and the
boot loop writes into TCBs only `BootSlotsFree` knows to be unused. Without `BootSlotsFree`
the invariant is not inductive: a boot entry could overwrite a queued task.

The argument goes in layers. `ListOf(q, T)` says that a sequence holds a set of tasks, each
once; lemmas show what Append, Tail and RemoveAt do to it. `Queues(rq, pr, S)` says that a
ready queue holds the set S of tasks by priority with its tree in step; lemmas give the effect
of pl_insert, pl_pop_min, pl_remove and of changing the priority of a task that is not queued.
`QueuesReady` shows that `ReadyQueueOK` is `Queues` for the READY tasks. `Prepared` is what a
caller of the scheduler has to provide, `Dispatched` what the scheduler returns; every system
call is shown to prepare, and `AfterDispatch` draws the conclusions they share.

`StacksPrivate` needs its own invariant, `BlocksOwned`: the stacks and mailboxes of living
tasks are allocated, all different, and nothing else is allocated. It is not enough to look at
stacks, because exit also frees what `mbx` points at, and the freed block must not be another
task's stack. `Kept` says that the scheduler changes no task from DORMANT or to it, so that
each call has to be examined only for the task it creates or ends.

### Messages (`KMsgProofs`)

`TaskInv` is an invariant of `Spec` too (`KernelInvariant`): a receiver blocks as a running
task that leaves the queue, a wake-up inserts a task that was in no list (`WokenPrepared`),
and the interrupt is a wake-up from outside. `StrictPriority` and `WakeupPreempts` follow for
the whole kernel.

`MailInv` is the invariant behind the rest: mailboxes hold messages, `BlocksOwned`,
`BlockedHasNoMail` and `WokenHasMail`. These depend on each other: only a private mailbox is
empty because of its owner alone, and a woken receiver has mail only because nobody but itself
can pop. It is proved under `~StaleSlotsReused`, without which it is false (finding 1). From
it follow `MsgTypeOK`, `MailboxesPrivate`, `NoLeak` and, with mailboxes, `StacksPrivate`.

### The keyboard command dispatcher (`KcdProofs`)

`KcdInv` adds to the types that table entries are tasks or MAX_TASKS, and that the counted
characters were typed. `Steps` reduces every message to one of five cases, so that the
invariant and the refinement need one lemma per case. `CommandLineCorrect` proves that `Spec`
implements `CommandLine` if `Careful` holds, for every number of tasks and every length of the
buffer that fits the byte `count` with its mark. `StoredInside`, with `CommandStored` and
`KeyStoredInside`, says that a store inside an array is an EXCEPT, and each use shows that the
index is one: `KeyTypes` is Append on the mapped line,
`AddresseeIsOwner` shows that the code's tests are those of the abstract line (this is where
two characters must have been typed), and `EnterEnters` that the copied bytes are the line
without its first character. `IndexInjective`, that no two commands share an entry of the
table, is what keeps registrations apart.

### Order within a priority (`KTaskProofs`, `KMsgProofs`)

`FCFS` is an action property: no step puts a task in front of one that goes on waiting at its
priority, unless `k_tsk_set_prio` is called for that very task. It is proved of `TaskSpec`
(`FCFSCorrect`) and of `Spec`, with blocking receives, wake-ups and interrupts
(`KernelFCFS`). Each list operation has a lemma about who is in front of whom afterwards:
`pl_insert` puts a task behind all others, `pl_pop_min` and `pl_remove` only shorten what is
in front. The lemmas need that a task is in a list once, which is `ReadyQueueOK`, hence
`TaskInv`.

### The load of a mailbox (`KMsgProofs`)

`WithinCapacity` is inductive together with `MailInv`: `push_message` is refused if the
message does not fit, the interrupt posts only as many keys as fit, and the load of a
concatenation is the sum of the loads. `Load` is a recursive function of the number of
messages counted, so this is an induction over that number, with `InductionUpTo`. It holds
under `~StaleSlotsReused`, like the rest.

### The heap (`KMemProofs`)

For every number of units, every tag and every set of owners and sizes, in the behaviours of
`ApartSpec` (section 2: no free block begins at the value of a tag), under two hypotheses
that name what the code does not handle: `~EmptyListCalls` (finding 2) and `RequestsFit` (no
request whose size, with the header and the rounding, passes the end of a word). Both are met
by the instance of run `mem`.

`MemInv` is the inductive invariant, and its core is `Layout`: the headers in memory have
their types; the list from `head` on is the free blocks, each once, in the order of their
addresses (`IsChain`); free and tagged blocks cover the heap and do not overlap (`Tiles`); no
two free blocks touch. None of these holds by itself: the search for the place of a block that
comes back is right only because the list is in order, merging two blocks is right only
because what lies between them is nobody's, and a pointer is recognised as a block in use only
because the headers of merged blocks have lost their tag.

`AllocEffect` says what `k_mem_alloc` leaves: the block is taken whole or cut in two.
`DeallocEffect` has four cases, for a block between blocks in use, one that touches the free
block before it, the one after it, or both. The walk along the list is a recursive function,
and what it finds is shown by `InductionUpTo`.

From `MemInv` follow `MemTypeOK`, `FreeListOK` and `Partitioned`. `RefusedOnlyIfFull` needs
that a span of free units lies within one free block (`FreeSpan`), which is where "no two
free blocks touch" is used; the same lemma gives the abstract first fit its block, so that
`ListImplementsHeap` is a simulation: each call of the list is the same call of `Heap`.
`ExtFragCounts` compares two cardinalities: the gaps between blocks in use and the free blocks
are put in one-to-one correspondence.

### The mailbox (`MailboxProofs`)

For every capacity and every set of lengths that fit in a word, all contents and every size
of a byte, under the one hypothesis `NoGap`: no sequence of messages leaves one to three
bytes of the ring. Finding 3 shows that without it the properties are false;
`WordsLeaveNoGap` shows that it is met, for instance, by every mailbox of whole words for
messages that are whole words with their sender id; the ring of run `mailbox` is another
instance that meets it.

`RingInv` says that there are messages `q` and offsets `o` such that the ring is the image of
`q`, laid end to end from `first_header` on, and zero everywhere behind the last (`Ringed`);
that `first_header` is NULL exactly if `q` is empty; that nothing was written outside; and that
`pop_message` last returned a message. Positions are counted as distances from
`first_header`, and only a few lemmas know where the ring ends.

- The walk of `push_message` is a recursive function. `WalkIs` says that its recursion has one
  solution, and `WalkCorrect` gives it: after i steps it stands on the i-th message, with the
  footprints of the messages before it counted, and at the end it stops. This needs `NoGap`:
  the zero that stops the walk must have room for the four bytes that are read. Hence
  `space_remaining` is the capacity less what is in use: `AcceptsIffRoom`.
- Pushing writes the image of one message behind the others, in one piece or two; popping
  zeroes the first one, in one piece or two, and the next one begins where it ended, or there
  is none if a zero is read there (`UnusedIsZero`, and `NoGap` again).
- `ContentsIs`: the messages read off the ring by `Contents` are `q`. The fifth bytes are
  found by what they are, and their ranks by distance are counted by a bijection.

Hence `RingImplementsQueue`. `HeadersExtracted` proves, under `NoGap`, the comment at
`mailbox.c:121` that finding 3 refutes: a gap is the only reason for it to be wrong.
`RingTypeCorrect` also assumes that contents are finitely many and that there is one, because
the type invariant bounds bytes by the largest.

### The red-black tree (`RBTreeInsertProofs`, `RBTreeProofs`)

For every number of priorities and without any hypothesis, `Spec` implies `[]TreeTypeOK`,
`[]SearchTree`, `[]Balanced` and `MembersKept`.

The invariant, `RBInv`, says that there are a set `M` of nodes and functions `D` and `h` with
`Correct(tree, M, D, h)`. `D[n]` is the set of nodes at or below n and `h[n]` the number of
black nodes on every way down from it. The code computes neither, and no definition by
recursion along the pointers could be reasoned about before the tree is known to be one; as
functions whose value at a node is tied to those at its children they make every part of
`Correct` local. `Shaped` is the search tree with its parent pointers, `Heights` the equal
numbers of black nodes, `RedsApart` the colours. A proof about an operation names the `D`
and `h` that the tree has afterwards.

- Rotations: the pointers of the two nodes, and of the one above, are shown to be what they
  should be (`RotateFields`, `RotatePointers`); only the two nodes get new subtrees
  (`RotateShaped`) and, if the lower one is red, no way down gains or loses a black node
  (`RotateHeights`).
- Insertion: the search ends at the node whose free side the priority belongs to
  (`InsertionPlace`); the new leaf is red. `Climbing` is the invariant of `rb_insert_fixup`:
  all is well but that the node it has come to may have a red parent. Each iteration moves to
  a larger subtree, or makes the one rotation that is left to do, or is the last
  (`InsertFixupKeeps`), hence `InsertCorrect`.
- Removal: a node with at most one child is cut out by `rb_transplant` (`CutLacks`). For a
  node with two children the two ways in which `Spliced` links the successor come to the
  same: the successor is cut out of its place, and put for z everywhere (`Renamed`).
  `Lacking` is the invariant of `rb_remove_fixup`: below the node it has come to one black
  node is missing, and its colour may be wrong. `Deficit` gives the names of the nodes around
  it; each of the four cases of the code has a lemma (`RedSibling`, `BlackNephews`,
  `NearNephew`, `FarNephew`). That node may be NIL, whose parent field is then all the loop
  has to find its way up; that this field is right is part of `Lacking`, which is the reason
  why `rb_transplant` sets it.
- `BelowFound` and `BlackHeightsFound` show that the operators of the properties, which do
  follow the pointers, compute `D` and `h`.

`MembersKept` is what `KTask` takes for granted when it keeps the tree as a set of priorities
and takes its minimum for `rb_min`. For the loops, the proofs have a set of loop states per
iteration (`IteratedKeeps`) in which `Iterations` is large enough, so that no loop is cut
short: in the code, all of them end.

### Only model-checked

- Liveness (`RoundRobin`, `WokenReceives`, `TestsEnd`, `KeysAreSeen`): out of the prover's
  reach.
- `TestsPass`: it is about nine given programs, for which TLC's run is exhaustive.

## 6. Not modelled, and the plan

Not modelled:

- The board drivers, start-up code and printf: register-level I/O and formatting, supplied
  with the board. Their part in the system is the UART's queue of characters in `Ae`.
- The timers, the GIC and the timer branches of `c_IRQ_Handler`, which clear flags and print
  and change no state of the kernel.
- The allocator tests of `ae_mem.c`: no configuration calls them, and run `mem` asks their
  questions for every order of calls.
- Real-time calls, `recv_msg_nb` and the `*_ls` functions: empty stubs.
- Interrupts inside the calls of privileged tasks, which run with interrupts enabled: this
  needs the single steps of the kernel's functions, while every model here takes a call as one
  step.
- The temporary heap blocks of `push_message`, `pop_message` and the interrupt handler, and
  messages shorter than a header: what the code then overwrites depends on the memory map.

Every safety property of the passing runs but `TestsPass` is proved for all values of the
constants, in part under the hypotheses named in section 5. What could come next are the
interrupts inside privileged calls, which need a finer model of the kernel's functions, and
the proof that `KTask`, run on the lists and the tree instead of a set of priorities, is the
same.
