CONSTANTS
  Order <- MCOrder
  Inputs <- MCInputs
  Align = 256
  Names = {0, 20, 65, 68, 69}
  Key = {1, 2, 3}
  Value = {7, 8}
  A = A
  B = B
  Map = {A, B}
  Asked = {0, 1, 2}
  DefaultCapacity = 3
  h1 = h1
  h2 = h2
  h3 = h3
  Handle = {h1, h2, h3}
  Thread = {1, 2}
  b1 = b1
  b2 = b2
  b3 = b3
  Block = {b1, b2, b3}
  None = None
  p1 = p1
  p2 = p2
  Process = {p1, p2}
  QueueLimit = 2
  FileLimit = 1
  AliveDays = 1
  East = 0
  MaxQueues = 4
  MaxInits = 3
  MaxTexts = 2
  MaxDay = 1
  Letters <- MCLetters
  Signs = {"a", "/", "*", "?"}
  MaxText = 8
  MaxBoth = 6
  f1 = f1
  Item = {f1}
  TooLong = {}
  Blank = Blank
  QueueSize = 2
  c1 = c1
  Dequeuers = {c1}
  Orderly = TRUE
  Second = 2
  Half = 4
  MaxClock = 10
  Num = 3
  Size = 2
  MaxWrites = 9
  Times = {0, 1, 58, 59, 60, 61, 62, 119, 120, 121, 3539, 3540, 3541, 3599, 3600,
           3601, 3602, 3659, 3660, 3661, 7140, 7199, 7200, 7201}
  MaxTyped = 6
  Alphabets <- MCAlphabets
SPECIFICATION PartsSpec
INVARIANTS Unpacked SharesSound OrderKept LatestCanLog TextRight StatusFresh
  StampRight FilesInOrder LastWritesKept FlagsRight
PROPERTIES ImplementsLru
CHECK_DEADLOCK FALSE
