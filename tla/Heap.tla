-------------------------------- MODULE Heap --------------------------------
(***************************************************************************)
(* What the memory manager promises: a first-fit allocator of disjoint     *)
(* blocks that knows nothing of lists and headers.  A request is refused   *)
(* only if no free span holds it, a block is given back only by its owner, *)
(* and free space is fragmented only by blocks in use.                     *)
(***************************************************************************)
EXTENDS Integers, FiniteSets, FiniteSetsExt

CONSTANTS
  Start,     \* the first address of the heap
  Limit,     \* the first address behind its last complete unit
  Owner,     \* who may own a block
  Request    \* the sizes asked for

Overhead == 8     \* bytes of a block its owner does not get
Unit     == 8     \* blocks begin at and extend to multiples of this

VARIABLES
  blocks,   \* the blocks in use: address, length with the overhead, owner
  request   \* history: what the last call that was granted had asked for

RoundUp(n) == ((n + Unit - 1) \div Unit) * Unit

\* Bytes a request for n takes.
Extent(n) == RoundUp(n + Overhead)

\* None of the blocks in bs reaches into [a, a + len).
Free(bs, a, len) ==
  /\ a + len <= Limit
  /\ \A b \in bs : b.at + b.len <= a \/ a + len <= b.at

\* Where a block of length len can begin.
Room(len) == LET bs == blocks
             IN  {a \in Start .. Limit - 1 : a % Unit = 0 /\ Free(bs, a, len)}

\* The maximal free spans, as pairs of their first address and the one behind them.
Gaps ==
  LET bs == blocks
  IN  {g \in ({Start} \cup {b.at + b.len : b \in bs}) \X ({Limit} \cup {b.at : b \in bs}) :
         g[1] < g[2] /\ Free(bs, g[1], g[2] - g[1])}

\* How many spans are too small for n.  One of no more than the overhead holds no
\* request and does not count; the last may have slack bytes of the incomplete unit.
Fragments(n, slack) ==
  LET len(g) == g[2] - g[1] + (IF g[2] = Limit THEN slack ELSE 0)
  IN  Cardinality({g \in Gaps : Overhead < len(g) /\ len(g) < n})

HeapInit == blocks = {} /\ request = [op |-> "none"]

Alloc(n, o) ==
  LET room == Room(Extent(n))
  IN  /\ room # {}
      /\ blocks' = blocks \cup {[at |-> Min(room), len |-> Extent(n), owner |-> o]}
      /\ request' = [op |-> "alloc", size |-> n, owner |-> o]

Dealloc(p, o) ==
  \E b \in blocks : /\ b.at + Overhead = p /\ b.owner = o
                    /\ blocks' = blocks \ {b}
                    /\ request' = [op |-> "dealloc", ptr |-> p, owner |-> o]

HeapNext ==
  \/ \E n \in Request, o \in Owner : Alloc(n, o)
  \/ \E p \in Start .. Limit, o \in Owner : Dealloc(p, o)

HeapSpec == HeapInit /\ [][HeapNext]_<<blocks, request>>
=============================================================================
