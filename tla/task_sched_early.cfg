CONSTANTS
  o1 = o1
  o2 = o2
  Once = {o1, o2}
  Every = {}
  Daily = {}
  Secs = {1, 3}
  Day = 2
  Sec = 2
  MaxBusy = 5
SPECIFICATION SchedSpec
INVARIANT FirstRunNotEarly
CHECK_DEADLOCK FALSE
