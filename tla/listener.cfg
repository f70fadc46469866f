SPECIFICATION FairSpec
CHECK_DEADLOCK FALSE
CONSTANTS
  NumConns = 3
  MaxConnections = 2
  MaxPanics = 1
INVARIANTS SlotsExact RefusedUnhandled
PROPERTIES WorkerEnds SignalStops
