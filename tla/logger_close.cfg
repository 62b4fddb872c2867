CONSTANTS
  a = a
  b = b
  Logger = Logger
  NoThread = NoThread
  App = {a, b}
  Closers = {a, b}
  Signalled = {}
  Dying = {}
  MaxLines = 2
  MaxBuffer = 3
  InitCap = 2
  OpenMayFail = FALSE
  Spurious = FALSE
SPECIFICATION LoggerSpec
INVARIANT CloseWritesAll
CHECK_DEADLOCK FALSE
