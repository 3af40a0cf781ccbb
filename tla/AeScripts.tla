----------------------------- MODULE AeScripts -----------------------------
(***************************************************************************)
(* The test programs of the repository (ae_usr_tasks.c, ae_priv_tasks.c)   *)
(* and the boot-time task tables they run with (ae.c).  A program is the   *)
(* sequence of the calls it makes; loops with a fixed count are unrolled.  *)
(* Each call says what the test wants of it and how many of the calls after*)
(* it the program skips when it gets something else.                       *)
(***************************************************************************)
EXTENDS KcdTask
LOCAL INSTANCE SequencesExt

CONSTANTS
  Iterations,   \* num_iterations of TEST 3
  Dequeues      \* num_dequeues of TEST 3

KCD == MAX_TASKS - 1
OK  == "RTX_OK"
ERR == "RTX_ERR"

\* Skip everything up to the last call of the program.
ToEnd == 1000

\* More than the heap has.
TooLarge == 1073741825

Anyone  == Byte
AnyBody == Seq(Byte)

-----------------------------------------------------------------------------
(* The calls.  scores: the test counts it as a test passed.                *)

\* c with the number of calls skipped if it does not do what is wanted.
Else(c, skip) == [c EXCEPT !.skip = skip]
Scored(c) == [c EXCEPT !.scores = 1]

call(name, want) == [call |-> name, want |-> want, skip |-> 0, scores |-> 0]

mbx_create(size, want) == [call |-> "mbx_create", size |-> size, want |-> want,
                           skip |-> ToEnd, scores |-> 0]

send_msg(to, type, body, want) ==
  [call |-> "send_msg", to |-> to, type |-> type, body |-> body, want |-> want,
   skip |-> 0, scores |-> 0]

\* recv_msg of at most cap bytes from one of froms; want holds the results that do.
recv_msg(cap, froms, types, bodies, want) ==
  [call |-> "recv_msg", cap |-> cap, froms |-> froms, types |-> types, bodies |-> bodies,
   prompt |-> FALSE, want |-> want, skip |-> 0, scores |-> 0]

tsk_set_prio(t, p) == [call |-> "tsk_set_prio", task |-> t, prio |-> p, want |-> OK,
                       skip |-> ToEnd, scores |-> 0]
tsk_create(program, p) == [call |-> "tsk_create", program |-> program, prio |-> p, want |-> OK,
                           skip |-> 0, scores |-> 0]
tsk_get_info(t, want) == [call |-> "tsk_get_info", task |-> t, want |-> want,
                          skip |-> 0, scores |-> 0]
tsk_exit  == call("tsk_exit", OK)
yield_forever == call("yield_forever", OK)

-----------------------------------------------------------------------------
(* TEST 0: privileged and user tasks side by side.                         *)

ktask1 == <<yield_forever>>
ktask2 == <<tsk_create("utask1", 102), tsk_set_prio(3, 103), yield_forever>>
T0_utask1 == <<tsk_create("utask2", 175), tsk_get_info(4, OK), tsk_set_prio(4, 200), tsk_exit>>
T0_utask2 == <<yield_forever>>

(* TEST 1: there is no KCD unless the table lists it.                      *)

T1_utask1 == <<tsk_get_info(KCD, ERR), tsk_exit>>

-----------------------------------------------------------------------------
(* TEST 2: commands.  The lines the user is asked to type are %cGTA and    *)
(* %dGTA.                                                                  *)

Letter_c == 99
Letter_d == 100
GTA == <<71, 84, 65>>

\* Room for one command, not for two: 2 * (sizeof(RTX_MSG_HDR) + sizeof(task_t) + 5).
T2_MbxSize == 28

\* The user is asked for a line and the command is awaited.
command(c) == [recv_msg(12, {KCD}, Anyone, {<<c>> \o GTA}, {OK}) EXCEPT
                 !.prompt = TRUE, !.scores = 1]

register(c, skip) == Scored(Else(send_msg(KCD, KCD_REG, <<c>>, OK), skip))

\* The final message of task 2 says that it passed 7 tests.
report_wanted == Scored(recv_msg(12, {2}, Anyone, {<<7>> \o GTA}, {OK}))

T2_utask1 == <<mbx_create(T2_MbxSize, OK),
               register(Letter_c, 2), command(Letter_c), command(Letter_c),
               call("set_turn", OK), report_wanted, tsk_exit>>

T2_utask2 == <<call("wait_turn", OK), mbx_create(T2_MbxSize, OK),
               register(Letter_c, 5), register(Letter_d, 4),
               command(Letter_c), command(Letter_d), command(Letter_c), command(Letter_d),
               Scored(tsk_set_prio(1, 200)), call("report", OK), tsk_exit>>

\* Mutant of T2_utask3: the task that keeps the CPU from the null task ends at once.
T2_utask3_Exits == <<tsk_exit>>

T2_utask3 == <<yield_forever>>

-----------------------------------------------------------------------------
(* TEST 3: a mailbox is filled, partly emptied and filled again while the  *)
(* receiver's priority goes up and down; messages are numbered.            *)

T3_MbxSize == 511

\* A number as the four bytes of a little-endian int; numbers stay small here.
Number(n) == <<n, 0, 0, 0>>

\* In even rounds the buffer is too short, and an error is as good as a message.
RoundOf(i) ==
  [j \in 1 .. Dequeues |->
     LET c == recv_msg(IF i % 2 = 0 THEN HdrLen + 1 ELSE HdrLen + 4, Anyone, Anyone,
                       {Number(i * Dequeues + j - 1)},
                       IF i % 2 = 0 THEN {OK, ERR} ELSE {OK})
     IN  Else(IF j = Dequeues THEN Scored(c) ELSE c, ToEnd)]

T3_utask1 ==
  <<mbx_create(T3_MbxSize, OK)>>
  \o FlattenSeq([i \in 1 .. Iterations |-> RoundOf(i - 1) \o <<tsk_set_prio(1, 200)>>])
  \o <<tsk_exit>>

T3_utask2 ==
  LET Refill == <<tsk_set_prio(1, 150)>> \o
        [j \in 1 .. Dequeues |->
           Else(IF j = Dequeues THEN Scored(call("send_next", OK)) ELSE call("send_next", OK), ToEnd)]
  IN  <<tsk_set_prio(1, 200), Scored(Else(call("fill", OK), ToEnd))>>
      \o FlattenSeq([i \in 1 .. Iterations |-> Refill]) \o <<tsk_exit>>

-----------------------------------------------------------------------------
(* TEST 4: messages the KCD has to ignore.  The byte behind the header is  *)
(* uninitialised; the KCD looks at it in registrations only.               *)

T4_utask1 == <<send_msg(KCD, 0, <<0>>, OK), send_msg(KCD, 2, <<0>>, OK),
               send_msg(KCD, 3, <<0>>, OK), send_msg(KCD, 155, <<0>>, OK),
               send_msg(KCD, KCD_REG, <<123>>, OK), tsk_exit>>

(* TEST 5: all message types get through, in order (500 as one byte here). *)

T5_Types  == <<DEFAULT, KCD_REG, KCD_CMD, KEY_IN, 250>>
T5_utask1 == <<Else(mbx_create(511, OK), ToEnd), tsk_set_prio(1, 200)>>
             \o [i \in DOMAIN T5_Types |-> send_msg(2, T5_Types[i], <<>>, OK)] \o <<tsk_exit>>
T5_utask2 == <<mbx_create(511, OK)>>
             \o [i \in DOMAIN T5_Types |-> recv_msg(HdrLen, Anyone, {T5_Types[i]}, AnyBody, {OK})]
             \o <<tsk_exit>>

(* TEST 6: which mailboxes can be created.                                 *)

T6_utask1 == <<mbx_create(0, ERR), mbx_create(TooLarge, ERR), mbx_create(HdrLen, OK),
               mbx_create(HdrLen, ERR), tsk_exit>>

(* TEST 7: sending to a task without a mailbox, from no buffer, and to a   *)
(* task that ended.                                                        *)

send_null(to) == [call |-> "send_null", to |-> to, want |-> ERR, skip |-> 0, scores |-> 0]

T7_utask1 == <<send_msg(2, DEFAULT, <<>>, ERR), mbx_create(511, OK), tsk_set_prio(1, 200),
               send_msg(2, DEFAULT, <<>>, ERR), tsk_exit>>
T7_utask2 == <<mbx_create(511, OK), send_null(1), tsk_exit>>

(* TEST 8: receiving without a mailbox, with and without mail, and into no *)
(* buffer.                                                                 *)

recv_null == call("recv_null", ERR)

T8_utask1 == <<recv_msg(HdrLen, Anyone, Anyone, AnyBody, {ERR}), mbx_create(511, OK),
               recv_msg(HdrLen, Anyone, Anyone, AnyBody, {OK}),
               recv_msg(HdrLen, {2}, Anyone, AnyBody, {OK}), recv_null, tsk_exit>>
T8_utask2 == <<send_msg(1, DEFAULT, <<>>, OK), send_msg(1, DEFAULT, <<>>, OK), tsk_exit>>

-----------------------------------------------------------------------------
(* The kernel's own part of each program, and the boot-time tables.        *)

\* The KCD: its mailbox, then receiving for ever; what it answers is in KcdTask.
kcd_task == <<mbx_create(512, OK), call("kcd_loop", OK)>>

\* The programs of each TEST, from TEST 0 on.
Programs ==
  << [utask1 |-> T0_utask1, utask2 |-> T0_utask2, ktask1 |-> ktask1, ktask2 |-> ktask2],
     [utask1 |-> T1_utask1],
     [utask1 |-> T2_utask1, utask2 |-> T2_utask2, utask3 |-> T2_utask3, kcd_task |-> kcd_task],
     [utask1 |-> T3_utask1, utask2 |-> T3_utask2],
     [utask1 |-> T4_utask1, kcd_task |-> kcd_task],
     [utask1 |-> T5_utask1, utask2 |-> T5_utask2],
     [utask1 |-> T6_utask1],
     [utask1 |-> T7_utask1, utask2 |-> T7_utask2],
     [utask1 |-> T8_utask1, utask2 |-> T8_utask2] >>

\* An entry of the table; user stacks below 0x200 bytes are refused.
Entry(ptask, prio, priv, u_stack_size) ==
  [ptask |-> ptask, prio |-> prio, priv |-> priv, u_stack_size |-> u_stack_size]
User(ptask, prio) == Entry(ptask, prio, 0, 512)

MinStack == 512

\* TEST 0 leaves u_stack_size of its user task zero, so that k_tsk_init ends there.
BootTable(test) ==
  CASE test = 0 -> <<Entry("ktask1", 100, 1, 0), Entry("ktask2", 100, 1, 0),
                     Entry("utask2", 100, 0, 0)>>
    [] test = 1 -> <<User("utask1", 100)>>
    [] test = 2 -> <<User("utask1", 150), User("utask2", 175), User("kcd_task", 100),
                     User("utask3", 200)>>
    [] test = 4 -> <<User("utask1", 150), User("kcd_task", 100)>>
    [] test = 6 -> <<User("utask1", 150)>>
    [] OTHER -> <<User("utask1", 150), User("utask2", 175)>>

\* What the tests print at best: "11 out of 11", "17 out of 17".
Marks(test) == CASE test = 2 -> 11 [] test = 3 -> 1 + 2 * Iterations [] OTHER -> 0
=============================================================================
