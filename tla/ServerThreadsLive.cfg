\* One start, every failure: what the fair threads must eventually do.
CONSTANTS
  Conn = {c1}
  NoConn = NoConn
  WorkerCount = 2
  MaxConnections = 1
  MaxStarts = 1
  MaxArrivals = 2
SPECIFICATION FairSpec
PROPERTY TakenUp
PROPERTY StopCompletes
