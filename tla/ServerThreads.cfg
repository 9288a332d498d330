\* Two workers, three connections for two slots, restarts and failed starts.
CONSTANTS
  Conn = {c1, c2, c3}
  NoConn = NoConn
  WorkerCount = 2
  MaxConnections = 2
  MaxStarts = 2
  MaxArrivals = 3
SPECIFICATION Spec
SYMMETRY ConnSymmetry
INVARIANT TypeOK
INVARIANT SlotsExact
INVARIANT SinglePlace
INVARIANT TeardownExclusive
INVARIANT NothingLeft
INVARIANT FairShare
PROPERTY ImplementsSlots
