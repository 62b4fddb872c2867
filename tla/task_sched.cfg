CONSTANTS
  o1 = o1
  e1 = e1
  d1 = d1
  Once = {o1}
  Every = {e1}
  Daily = {d1}
  Secs = {2}
  Day = 2
  Sec = 2
  MaxBusy = 3
SPECIFICATION SchedSpec
PROPERTIES TaskRuns StopReturns
INVARIANTS CountedOnce OnTime PeriodKept
CHECK_DEADLOCK FALSE
