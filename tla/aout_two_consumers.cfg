CONSTANTS
  a1 = a1
  a2 = a2
  long = long
  c1 = c1
  c2 = c2
  Item = {a1, a2, long}
  TooLong = {long}
  Blank = Blank
  QueueSize = 3
  Dequeuers = {c1, c2}
  Orderly = TRUE
SPECIFICATION QueueSpec
PROPERTY DequeueTakesQueued
