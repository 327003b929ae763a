SPECIFICATION FairSpec
CONSTANTS
  Main = main
  Threads = {main, p1, p2}
  NoThread = NoThread
  RelockOutcomes = {"enter"}
  MaxConns = 2
  Fds = {d1, d2}
  NoFd = NoFd
  Fatal = {}
CHECK_DEADLOCK FALSE
PROPERTY RequestsAnswered
