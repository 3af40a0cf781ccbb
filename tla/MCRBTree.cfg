\* Seven priorities: every case of both fix-ups comes up.
CONSTANTS
  PRIO_NULL = 6
SPECIFICATION Spec
INVARIANTS TreeTypeOK SearchTree Balanced
PROPERTIES MembersKept
