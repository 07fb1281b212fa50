CONSTANTS
  c1 = c1
  c2 = c2
  n1 = n1
  n2 = n2
  none = none
  nil = nil
  Conn = {c1, c2}
  Node = {n1, n2}
  NoConn = none
  NoNode = nil
SPECIFICATION FairSpec
INVARIANT TypeOK
INVARIANT NoStaleIterator
INVARIANT SocketOwnership
INVARIANT NoThreadOutlivesServer
PROPERTY StopWakesReaper
PROPERTY FinishedThreadsAreJoined
PROPERTY ShutdownCompletes
