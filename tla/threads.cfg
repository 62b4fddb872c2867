CONSTANTS
  Waiters = {t1, t2, t3, t4}
  Timed = {t3, t4}
  Resetters = {other, t1}
  ManualReset = FALSE
  Spurious = TRUE
  a1 = a1
  a2 = a2
  long = long
  d1 = d1
  Item = {a1, a2, long}
  TooLong = {long}
  Blank = Blank
  QueueSize = 4
  Dequeuers = {d1}
  Orderly = TRUE
  Producer = producer
  Consumers = {c1}
  Size = 2
  MaxPut = 4
  MaxMade = 2
  Threads = {t1, t2}
  Cats = {a, b}
  Default = default
  Null = null
  MaxLevel = 1
  MaxSet = 2
SPECIFICATION ThreadsSpec
INVARIANTS NoLostWakeup WaveKeepsSignal DequeueSound EmptyMeansWholeRounds
  LevelsCurrent ListIntact
PROPERTIES WaveConsumesSignal ImplementsFifo NonemptyIsServed GetsInOrder
  PutReturns SetReturns
CHECK_DEADLOCK FALSE
