SPECIFICATION Spec
CONSTANTS
  Callers = {t1, t2}
  IdModulus = 4
  MaxAllocations = 5
INVARIANTS NeverReplayed
CHECK_DEADLOCK FALSE
