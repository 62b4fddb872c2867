CONSTANTS
  x = x
  y = y
  main = main
  other = other
  Addr = {x, y}
  Clients = {main, other}
  Owner = main
  Callers = {other}
  MaxTasks = 2
  MaxInits = 2
SPECIFICATION TimerSpec
INVARIANTS ListsSound TimelyRemoveHitsItsTask OverIsFinal
PROPERTIES RequestsHandled WorkersEnd DeinitReturns
CHECK_DEADLOCK FALSE
