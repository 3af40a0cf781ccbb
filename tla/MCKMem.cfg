\* Six units and the 7 bytes left of a seventh; requests of one, two and three units,
\* the header's included; two owners.  The tag of owner 1 is an address of the heap, 40,
\* as on the board.  No call when the list is empty, none that wraps.
CONSTANTS
  HeapStart = 8
  RAM_END = 63
  WORD = 256
  MAGIC_NUM = 39
  Tid = {1, 256}
  Sizes = {0, 8, 13}
  ExtSizes = {16, 17, 33}
  ZeroWord = 200
  EmptyListCalls = FALSE
SPECIFICATION ApartSpec
INVARIANTS MemTypeOK FreeListOK Partitioned RefusedOnlyIfFull ExtFragCounts
PROPERTIES ImplementsHeap
