\* Footprints of 10 and 15 bytes, and one too long, in a ring of 34: messages begin
\* at every position, and what is left behind the last is never 1, 2 or 3 bytes.
\* In base 3 their lengths are 100, 112 and 1111: the first byte of a length may be zero.
CONSTANTS
  Capacity = 34
  Lengths = {9, 14, 40}
  Stamps = {1, 2}
  BYTE = 3
SPECIFICATION Spec
INVARIANTS MailboxTypeOK AcceptsIffRoom UnusedIsZero NoOverrun
PROPERTIES ImplementsQueue
