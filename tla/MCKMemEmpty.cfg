\* Calls are made when the free list is empty; the word at address 0 is large.
CONSTANTS
  HeapStart = 8
  RAM_END = 55
  WORD = 256
  MAGIC_NUM = 1000
  Tid = {1, 256}
  Sizes = {0, 8, 13}
  ExtSizes = {16, 17, 33}
  ZeroWord = 200
  EmptyListCalls = TRUE
SPECIFICATION Spec
PROPERTIES ElseReturnNull
