-------------------------------- MODULE KMem --------------------------------
(***************************************************************************)
(* The memory manager (k_mem.c): a list of free blocks in address order and*)
(* a header in front of every block, free or allocated.  Both headers are  *)
(* two words, a size and a second word, which is the next free block's     *)
(* address in one and a tag naming the owner in the other.  Addresses and  *)
(* sizes are in bytes, unsigned and WORD values wide.                      *)
(***************************************************************************)
EXTENDS Integers, FiniteSets, FiniteSetsExt

CONSTANTS
  HeapStart,     \* end of the image, rounded up to a multiple of 8
  RAM_END,       \* one less than a multiple of 8, as on the board
  WORD,          \* 2^32
  MAGIC_NUM,     \* tag of an allocated block, less its owner
  Tid,           \* the owners: task ids, and 256 for the kernel
  Sizes,         \* sizes asked for
  ExtSizes,      \* sizes asked of k_mem_count_extfrag
  ZeroWord,      \* the word in memory at address 0
  EmptyListCalls \* whether k_mem_alloc is called when no block is free

NULL == 0

HeaderSize == 8    \* sizeof(free_space_header), sizeof(allocated_space_header)
Addr == {a \in 0 .. RAM_END - 1 : a % 8 = 0}
TotalSize == RAM_END - HeapStart

ASSUME LayoutAssumption ==
  /\ HeapStart \in Nat /\ RAM_END \in Nat /\ WORD \in Nat
  /\ HeapStart % 8 = 0 /\ HeapStart > 0 /\ RAM_END % 8 = 7
  /\ HeapStart + HeaderSize < RAM_END /\ RAM_END + HeaderSize < WORD
ASSUME TagAssumption == /\ MAGIC_NUM \in Nat /\ MAGIC_NUM > 0
                        /\ Tid \subseteq Nat
ASSUME SizeAssumption == /\ Sizes \subseteq 0 .. WORD - 1
                         /\ ExtSizes \subseteq 0 .. WORD - 1
                         /\ ZeroWord \in 0 .. WORD - 1
                         /\ EmptyListCalls \in BOOLEAN

\* The last, incomplete unit of the heap, which no request can get.
HeapLimit == RAM_END - 7

\* The units a request can get.
HeapUnits == {a \in Addr : HeapStart <= a /\ a < HeapLimit}

VARIABLES
  head,    \* the first free block
  mem,     \* the two words at each multiple of 8, as the kernel wrote them
  request  \* history: what the last call that was granted had asked for

memVars == <<head, mem, request>>

-----------------------------------------------------------------------------
(* The free list.                                                          *)

\* The walk along the list: the n-th pointer, NULL from the end on.
walk ==
  LET w[n \in 0 .. Cardinality(Addr)] ==
        IF n = 0 THEN head
        ELSE LET p == w[n - 1] IN IF p = NULL THEN NULL ELSE mem[p].word
  IN  w

FreeBlocks == LET w == walk IN {w[n] : n \in DOMAIN w} \ {NULL}

\* Bytes of the free block at a with its header.
Whole(a) == (mem[a].size + HeaderSize) % WORD

\* Mutant of AllocatedHeader: the tag is the bare owner.
AllocatedHeader_NoMagic(len, tid) == [size |-> (len - HeaderSize) % WORD, word |-> tid]

\* What init_allocated_space_header writes in front of len bytes of block.
AllocatedHeader(len, tid) ==
  [size |-> (len - HeaderSize) % WORD, word |-> MAGIC_NUM + tid]

-----------------------------------------------------------------------------
(* The operations.                                                         *)

\* k_mem_init: one free block, all of the heap.
Init ==
  /\ head = HeapStart
  /\ mem = [a \in Addr |->
              CASE a = NULL -> [size |-> ZeroWord, word |-> 0]
                [] a = HeapStart -> [size |-> TotalSize - HeaderSize, word |-> NULL]
                [] OTHER -> [size |-> 0, word |-> 0]]
  /\ request = [op |-> "none"]

\* Mutant of total_bytes_needed: the sum is rounded down.
total_bytes_needed_RoundsDown(size) ==
  LET sum == (size + HeaderSize) % WORD IN sum - (sum % 8)

\* Bytes taken for a request: header added, rounded up to a multiple of 8.
total_bytes_needed(size) ==
  LET sum == (size + HeaderSize + 7) % WORD IN sum - (sum % 8)

\* Mutant of fits: the header of the free block is not counted in.
fits_NoHeader(p, n, need) == need <= mem[p].size /\ (n = 0 \/ p # NULL)

\* The n-th pointer p of the walk is to a block that is long enough.  The head is
\* looked at before anyone asks whether it is NULL.
fits(p, n, need) == need <= Whole(p) /\ (n = 0 \/ p # NULL)

\* The search of k_mem_alloc_with_tid ends without a block: NULL is returned.
Refused(size) ==
  LET w == walk IN \A n \in DOMAIN w : ~fits(w[n], n, total_bytes_needed(size))

\* First fit: the block is cut in two, or handed out whole if the rest could not
\* hold a free block's header.
k_mem_alloc_with_tid(size, tid) ==
  LET need == total_bytes_needed(size)
      w == walk
      n == Min({m \in DOMAIN w : fits(w[m], m, need)})
      a == w[n]
      noRoom == Whole(a) - need < HeaderSize
      succ == IF noRoom THEN mem[a].word ELSE a + need
      split == IF noRoom THEN mem
               ELSE [mem EXCEPT ![a + need] = [size |-> (mem[a].size - need) % WORD,
                                               word |-> mem[a].word]]
      linked == IF n = 0 THEN split ELSE [split EXCEPT ![w[n - 1]].word = succ]
      \* Only a block inside the list records the bytes it got beyond its request.
      len == IF noRoom /\ n > 0 THEN Whole(a) ELSE need
  IN  /\ ~Refused(size)
      /\ head' = IF n = 0 THEN succ ELSE head
      /\ mem' = [linked EXCEPT ![a] = AllocatedHeader(len, tid)]

\* Mutant of Owns: any tag will do.
Owns_Anyone(ptr, tid) ==
  ptr # NULL /\ \E t \in Tid : mem[ptr - HeaderSize].word - t = MAGIC_NUM

\* The header in front of ptr carries tid's tag.
Owns(ptr, tid) == ptr # NULL /\ mem[ptr - HeaderSize].word - tid = MAGIC_NUM

\* Mutant of Untagged: a freed block keeps its tag.
Untagged_Keeps(a) == mem

\* Memory once a block at a is being freed: no second deallocation will be accepted.
Untagged(a) == [mem EXCEPT ![a].word = 0]

\* Mutant of touching_next: a block is merged only with the one before it.
touching_next_Never(a, next) == FALSE

\* The allocated block at a ends where the free block next begins.
touching_next(a, next) == next = a + mem[a].size + HeaderSize

\* The freed block is merged with the free blocks it touches, or linked between.
k_mem_dealloc_with_tid(ptr, tid) ==
  LET a == ptr - HeaderSize
      len == mem[a].size + HeaderSize
      w == walk
      n == Min({m \in DOMAIN w : w[m] = NULL \/ w[m] > a})
      next == w[n]
      prev == IF n = 0 THEN NULL ELSE w[n - 1]
      touching_prev == n > 0 /\ prev + Whole(prev) = a
      freed == IF touching_next(a, next)
               THEN [size |-> mem[next].size + len, word |-> mem[next].word]
               ELSE [size |-> len - HeaderSize, word |-> next]
  IN  /\ Owns(ptr, tid)
      /\ head' = IF n = 0 THEN a ELSE head
      /\ mem' = CASE touching_prev ->
                       [Untagged(a) EXCEPT
                          ![prev] = [size |-> mem[prev].size + freed.size + HeaderSize,
                                     word |-> freed.word]]
                  [] ~touching_prev /\ n > 0 ->
                       [Untagged(a) EXCEPT ![a] = freed, ![prev].word = a]
                  [] n = 0 -> [Untagged(a) EXCEPT ![a] = freed]

\* Mutant of k_mem_count_extfrag: headers are not counted in.
k_mem_count_extfrag_NoHeader(size) ==
  Cardinality({a \in FreeBlocks : mem[a].size < size /\ mem[a].size > 0})

\* Free blocks too small for size, those of a bare header not counted.
k_mem_count_extfrag(size) ==
  Cardinality({a \in FreeBlocks : Whole(a) < size /\ mem[a].size > 0})

Alloc   == /\ head # NULL \/ EmptyListCalls
           /\ \E s \in Sizes, t \in Tid :
                /\ k_mem_alloc_with_tid(s, t)
                /\ request' = [op |-> "alloc", size |-> s, owner |-> t]
\* Callers pass NULL or a pointer k_mem_alloc returns, still theirs or not.
Dealloc == \E p \in {NULL} \cup {a + HeaderSize : a \in HeapUnits}, t \in Tid :
             /\ k_mem_dealloc_with_tid(p, t)
             /\ request' = [op |-> "dealloc", ptr |-> p, owner |-> t]

Next == Alloc \/ Dealloc

Spec == Init /\ [][Next]_memVars

\* No free block begins at an address that is the value of a tag: the second word of a
\* header tells a free block from one in use only as long as this is so.
TagsApart == \A a \in FreeBlocks : \A t \in Tid : a # MAGIC_NUM + t

\* The behaviours in which the second word does so.
ApartInit == Init /\ TagsApart
ApartNext == Next /\ TagsApart'
ApartSpec == ApartInit /\ [][ApartNext]_memVars

-----------------------------------------------------------------------------
(* What makes the memory manager correct.                                  *)

\* The allocated blocks: headers that carry a tag.
Tagged == {a \in Addr : \E t \in Tid : mem[a].word = MAGIC_NUM + t}

MemTypeOK ==
  /\ head \in Addr
  /\ mem \in [Addr -> [size : 0 .. WORD - 1,
                       word : Addr \cup {MAGIC_NUM + t : t \in Tid}]]

\* Where the block with a header at a ends, a block's incomplete unit left out.
EndOf(a) == a + Whole(a) - (Whole(a) % 8)

\* The free list is in address order and no two of its blocks touch: dealloc
\* finds both neighbours by one walk and merges with each of them.
FreeListOK ==
  LET w == walk
  IN  \A n \in DOMAIN w : n > 0 /\ w[n] # NULL => EndOf(w[n - 1]) < w[n]

\* Nothing is lost and nothing handed out twice: every unit of the heap is in
\* exactly one block, free or allocated.
Partitioned ==
  LET blocks == FreeBlocks \cup Tagged
  IN  \A u \in HeapUnits : Cardinality({a \in blocks : a <= u /\ u < EndOf(a)}) = 1

AbstractHeap == INSTANCE Heap WITH
  Start <- HeapStart, Limit <- HeapLimit, Owner <- Tid, Request <- Sizes,
  blocks <- {[at |-> a, len |-> EndOf(a) - a, owner |-> mem[a].word - MAGIC_NUM] :
               a \in Tagged}

\* The list with its headers implements the first-fit allocator of Heap, of which the
\* same is asked: a block is as long as the size asked for takes and lies in the first
\* span that holds it, and a call frees the block in use at its pointer, its caller's,
\* although stale headers stay behind in memory.
ImplementsHeap == AbstractHeap!HeapSpec

\* NULL is returned only if no free span holds the request: no call leaves free
\* space cut up by anything but blocks in use.
RefusedOnlyIfFull ==
  \A s \in Sizes : head # NULL /\ Refused(s)
     => AbstractHeap!Room(AbstractHeap!Extent(s)) = {}

\* k_mem_count_extfrag counts the spans too small for a request.
ExtFragCounts ==
  \A s \in ExtSizes : \E slack \in {0, 7} :
     k_mem_count_extfrag(s) = AbstractHeap!Fragments(s, slack)

\* "see if there is a valid free space [...] Else Return NULL" (k_mem.c:207-208):
\* a call that finds no free block of the size asked for allocates nothing.
ElseReturnNull ==
  [][\A s \in Sizes, t \in Tid :
       /\ k_mem_alloc_with_tid(s, t)
       /\ \A a \in FreeBlocks : Whole(a) < s + HeaderSize
       => UNCHANGED mem]_memVars
=============================================================================
