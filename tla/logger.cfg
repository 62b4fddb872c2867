CONSTANTS
  a = a
  b = b
  Logger = Logger
  NoThread = NoThread
  App = {a, b}
  Closers = {a}
  Signalled = {b, Logger}
  Dying = {b}
  MaxLines = 4
  MaxBuffer = 3
  InitCap = 2
  OpenMayFail = TRUE
  Spurious = TRUE
SPECIFICATION LoggerSpec
INVARIANTS EventSound StopperWritesAll LogLinesInLogFile
PROPERTIES ImplementsPipe CloseReturns LinesSettle
CHECK_DEADLOCK FALSE
