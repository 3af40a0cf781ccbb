\* Footprints of 10 and 12 bytes in a ring of 34: 2 bytes are left behind 10 + 10 + 12.
CONSTANTS
  Capacity = 34
  Lengths = {9, 11}
  Stamps = {1}
  BYTE = 8
SPECIFICATION Spec
INVARIANTS HeaderExtracted
