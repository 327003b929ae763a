SPECIFICATION Spec
CONSTANTS
  Main = main
  Threads = {main, p1, p2}
  NoThread = NoThread
  RelockOutcomes = {"block", "enter"}
  MaxConns = 3
  Fds = {d1, d2}
  NoFd = NoFd
  Fatal = {"dangling", "sigpipe", "race", "session"}
SYMMETRY Symmetry
CHECK_DEADLOCK FALSE
INVARIANTS
  TypeOK
  AnswerOwnRequest
  NoForeignDescriptor
  OnlyKnownLeaks
PROPERTY ImplementsExchange
