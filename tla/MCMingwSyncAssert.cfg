SPECIFICATION Spec
CONSTANTS
  Thread = {t1, t2, t3}
  None = None
  MaxOps = 4
INVARIANTS AssertionsHold
CHECK_DEADLOCK FALSE
