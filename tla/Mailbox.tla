------------------------------ MODULE Mailbox -------------------------------
(***************************************************************************)
(* One mailbox (mailbox.c): a ring of bytes behind a header of two words.  *)
(* Messages lie one behind the other from first_header on, each with its   *)
(* length in front; a length of zero ends them.  Positions are offsets     *)
(* from the first byte behind the mailbox's header.  The system calls run  *)
(* with interrupts masked, so one action is one whole push or pop.         *)
(***************************************************************************)
EXTENDS Integers, Sequences, FiniteSets, SequencesExt, FiniteSetsExt

CONSTANTS
  Capacity,    \* bytes of the ring: the mailbox's size less its header
  Lengths,     \* the lengths of messages: their header and their payload
  Stamps,      \* what tells messages of a length apart: sender, type, payload
  BYTE         \* the number of values of a byte (256)

NULL    == -1     \* no position
HdrSize == 8      \* sizeof(RTX_MSG_HDR): length and type
TidSize == 1      \* sizeof(task_t)
WORD    == BYTE * BYTE * BYTE * BYTE
Pos     == 0 .. Capacity - 1

\* Sizes fit in a word, and so does what a message takes up (Footprint).
ASSUME RingAssumption == /\ Capacity \in Nat /\ BYTE \in Nat \ {0, 1}
                         /\ HdrSize < Capacity /\ Capacity < WORD
                         /\ Lengths \subseteq HdrSize .. WORD - 2
                         /\ Stamps \subseteq Nat \ {0}

Message == [length : Lengths, stamp : Stamps]

\* Bytes a message takes up: the sender's id is stored behind its header.
Footprint(m) == m.length + TidSize

\* A number without its lowest byte.
Higher(x) == x \div BYTE

\* The k-th byte of m as it is stored: the length field, little-endian, then numbers
\* that are no bytes of a length and tell the message and the place in it.
StoredByte(m, k) == CASE k = 1 -> m.length % BYTE
                      [] k = 2 -> Higher(m.length) % BYTE
                      [] k = 3 -> Higher(Higher(m.length)) % BYTE
                      [] k = 4 -> Higher(Higher(Higher(m.length))) % BYTE
                      [] k > 4 -> m.stamp * WORD + k

Stored(m) == [k \in 1 .. Footprint(m) |-> StoredByte(m, k)]

VARIABLES
  ring,          \* the bytes of the mailbox behind its header
  first_header,  \* where the oldest message begins, or NULL
  buffer,        \* the bytes pop_message returned last
  overrun        \* push_message has written outside of the mailbox

mbxVars == <<ring, first_header, buffer, overrun>>

-----------------------------------------------------------------------------
(* Reading and writing the ring.                                           *)

\* Mutant of get_header: the bytes behind the end of the ring read as zero.
get_header_NoWrap(r, p) ==
  LET b(i) == IF p + i < Capacity THEN r[p + i] ELSE 0
  IN  b(0) + BYTE * (b(1) + BYTE * (b(2) + BYTE * b(3)))

\* The length field read at p in ring r, what is behind the end read from the top.
get_header(r, p) ==
  LET b(i) == IF p + i < Capacity THEN r[p + i] ELSE r[i - Max({Capacity - p, 0})]
  IN  b(0) + BYTE * (b(1) + BYTE * (b(2) + BYTE * b(3)))

\* Mutant of get_next_message: no wrap when a message ends where the ring does.
get_next_message_KeepsEnd(p, n) ==
  IF p + n <= Capacity THEN p + n ELSE p + n - Capacity

\* Where the message behind the n bytes at p begins.
get_next_message(p, n) == IF p + n < Capacity THEN p + n ELSE p + n - Capacity

\* copy_data of the bytes bs to p.
Write(r, p, bs) ==
  [i \in Pos |-> IF p <= i /\ i < p + Len(bs) THEN bs[i - p + 1] ELSE r[i]]

\* Mutant of Cleared: a message that wraps is zeroed only up to the end of the ring.
Cleared_NoWrap(p, n) == Write(ring, p, [k \in 1 .. Min({n, Capacity - p}) |-> 0])

\* The ring with the n bytes at p zeroed.
Cleared(p, n) == Write(Write(ring, p, [k \in 1 .. Min({n, Capacity - p}) |-> 0]),
                       0, [k \in 1 .. Max({0, p + n - Capacity}) |-> 0])

\* Mutant of Bytes: what wraps is read one byte too far down.
Bytes_OffByOne(p, n) ==
  [k \in 1 .. n |-> IF p + k - 1 < Capacity THEN ring[p + k - 1] ELSE ring[p + k - Capacity]]

\* The n bytes at p, the ones behind the end of the ring taken from the top.
Bytes(p, n) == [k \in 1 .. n |-> ring[(p + k - 1) % Capacity]]

-----------------------------------------------------------------------------
(* push_message.                                                           *)

\* The walk that adds up what is in use: the position p it looks at, the bytes
\* counted so far and the last message found.  It ends at a length of zero or
\* when the whole ring is counted; a message is at least a header and an id.
Walk ==
  LET stopped(s) == s.p = NULL \/ s.count >= Capacity
      next(s) ==
        LET n == get_header(ring, s.p)
        IN  IF n = 0 THEN [s EXCEPT !.p = NULL]
            ELSE [p |-> get_next_message(s.p, n + TidSize),
                  count |-> (s.count + n + TidSize) % WORD, last |-> s.p]
      w[i \in 0 .. Capacity \div (HdrSize + TidSize) + 1] ==
        IF i = 0 THEN [p |-> first_header, count |-> 0, last |-> NULL]
        ELSE LET s == w[i - 1] IN IF stopped(s) THEN s ELSE next(s)
  IN  w

WalkEnd == Walk[Capacity \div (HdrSize + TidSize) + 1]

\* Bytes left, in unsigned arithmetic.
space_remaining ==
  IF first_header = NULL THEN Capacity ELSE (Capacity - WalkEnd.count) % WORD

\* push_message does not return RTX_ERR.
Accepts(m) == space_remaining >= Footprint(m)

\* Mutant of BeforeWrap: the message is always written in one piece.
BeforeWrap_All(start, n) == n

\* How many of the n bytes written at start come before the end of the ring.
BeforeWrap(start, n) ==
  IF start + n < Capacity THEN n ELSE (n - (start + n - Capacity)) % WORD

push_message(m) ==
  LET last == WalkEnd.last
      behind == last + get_header(ring, last) + TidSize
      start == IF first_header = NULL THEN 0
               ELSE IF behind > Capacity THEN behind - Capacity ELSE behind
      n == BeforeWrap(start, Footprint(m))
      fitted == start + n <= Capacity
  IN  /\ Accepts(m)
      /\ first_header' = IF first_header = NULL THEN 0 ELSE first_header
      \* What a write outside of the mailbox does to the mailbox does not matter.
      /\ overrun' = (overrun \/ ~fitted)
      /\ ring' = IF fitted
                 THEN Write(Write(ring, start, SubSeq(Stored(m), 1, n)),
                            0, SubSeq(Stored(m), n + 1, Footprint(m)))
                 ELSE ring
      /\ UNCHANGED buffer

-----------------------------------------------------------------------------
(* pop_message.                                                            *)

\* The popped message is zeroed; if a length of zero follows, it was the last.
pop_message ==
  LET n == get_header(ring, first_header) + TidSize
      next == get_next_message(first_header, n)
  IN  /\ first_header # NULL
      /\ buffer' = Bytes(first_header, n)
      /\ ring' = Cleared(first_header, n)
      /\ first_header' = IF get_header(Cleared(first_header, n), next) = 0
                         THEN NULL ELSE next
      /\ UNCHANGED overrun

\* init_mailbox.
Init == /\ ring = [i \in Pos |-> 0]
        /\ first_header = NULL
        /\ buffer = <<>>
        /\ overrun = FALSE

Push == \E m \in Message : push_message(m)

Next == Push \/ pop_message

Spec == Init /\ [][Next]_mbxVars
-----------------------------------------------------------------------------
(* What makes the mailbox correct.                                         *)

\* Every byte is one of a length or of a content, first_header is inside the ring.
MailboxTypeOK ==
  /\ ring \in [Pos -> 0 .. WORD * (Max(Stamps) + 1)]
  /\ first_header \in Pos \cup {NULL}
  /\ buffer \in Seq(Nat)
  /\ overrun \in BOOLEAN

\* The messages in the ring, told by their fifth byte, oldest first.
Fifth(i) ==
  {m \in Message : /\ ring[i] = StoredByte(m, 5)
                   /\ \A k \in 1 .. 4 : ring[(i + k - 5) % Capacity] = StoredByte(m, k)}
Distance(i) == (i - 4 - first_header) % Capacity
Contents ==
  LET at == {i \in Pos : Fifth(i) # {}}
      nearer(i) == {j \in at : Distance(j) < Distance(i)}
      nth(n) == CHOOSE i \in at : Cardinality(nearer(i)) = n - 1
  IN  [n \in 1 .. Cardinality(at) |-> CHOOSE m \in Message : m \in Fifth(nth(n))]

\* What pop_message handed out last, if its bytes are those of a message.
Popped == {m \in Message : buffer = Stored(m)}

\* The ring implements a queue: messages come out in the order they went in, each
\* with the bytes it went in with, wherever header and content wrap around.
Queue == INSTANCE MsgQueue WITH
  Message <- Message, Size <- Footprint, Capacity <- Capacity, queue <- Contents,
  got <- IF buffer = <<>> THEN <<>> ELSE SetToSeq(Popped)

ImplementsQueue == Queue!QueueSpec

\* push_message accepts a message if and only if there is room for it: its walk
\* finds every message and nothing else.
AcceptsIffRoom == \A m \in Message : Accepts(m) <=> Queue!HasRoom(m)

\* "all data within mailbox that isn't in use will be 0" (mailbox.c:69): what tells
\* the walk and pop_message that no message follows.
UnusedIsZero ==
  LET used == Queue!Filled
  IN  \A i \in Pos : first_header = NULL \/ (i - first_header) % Capacity >= used
                   => ring[i] = 0

\* No write of push_message leaves the mailbox.
NoOverrun == ~overrun

\* "This function will *in theory* always be able to extract a header from the
\* mailbox" (mailbox.c:121): every length push_message's walk reads is that of a
\* message, or the zero behind the last one.
HeaderExtracted ==
  \A i \in DOMAIN Walk :
     LET p == Walk[i].p
     IN  p # NULL /\ Walk[i].count < Capacity
           => get_header(ring, p) = 0 \/ (p \in Pos /\ Fifth((p + 4) % Capacity) # {})
=============================================================================
