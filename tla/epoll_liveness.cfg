SPECIFICATION FairSpec
CONSTANTS
  Listeners = {l1, l2}
  Conns = {c1, c2, c3}
  Fds = {f1, f2}
  Master = Master
  Backlog = 2
  MaxSends = 0
  MaxEvents = 2
  NoConn = NoConn
  NoFd = NoFd
  NoListener = NoListener
INVARIANTS
  BacklogIsWatched
  TableMatchesKernel
  BatchIsCurrent
PROPERTIES
  ConnectionsAreAccepted
  HungUpIsClosed
CHECK_DEADLOCK FALSE
