CONSTANTS
  Waiters = {t1, t2, t3, t4}
  Timed = {t3, t4}
  Resetters = {other, t1}
  ManualReset = FALSE
  Spurious = FALSE
SPECIFICATION EventSpec
INVARIANT AssertHolds
CHECK_DEADLOCK FALSE
