SPECIFICATION Spec
CONSTANTS
  Main = main
  Threads = {main, p1, p2}
  NoThread = NoThread
  RelockOutcomes = {"block"}
  MaxConns = 2
  Fds = {d1, d2}
  NoFd = NoFd
  Fatal = {}
CHECK_DEADLOCK FALSE
INVARIANT PoolCanWork
