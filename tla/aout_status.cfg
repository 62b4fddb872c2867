CONSTANTS
  f1 = f1
  Item = {f1}
  TooLong = {}
  Blank = Blank
  QueueSize = 2
  c1 = c1
  Dequeuers = {c1}
  Orderly = TRUE
  Second = 2
  Half = 4
  MaxClock = 10
SPECIFICATION SpeechSpec
INVARIANT StatusNeedsData
CHECK_DEADLOCK FALSE
