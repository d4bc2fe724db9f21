SPECIFICATION Spec
CONSTANTS
  Listeners = {l1, l2}
  Conns = {c1, c2}
  Fds = {f1, f2}
  Master = Master
  Backlog = 2
  MaxSends = 1
  MaxEvents = 2
  NoConn = NoConn
  NoFd = NoFd
  NoListener = NoListener
SYMMETRY EPollSymmetry
INVARIANTS
  TypeOK
  LoneAnswersGoHome
CHECK_DEADLOCK FALSE
