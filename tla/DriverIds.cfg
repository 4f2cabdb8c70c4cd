SPECIFICATION Spec
CONSTANTS
  Callers = {t1, t2, t3}
  IdModulus = 4
  MaxAllocations = 8
INVARIANTS TypeOK DistinctInWindow
CHECK_DEADLOCK FALSE
