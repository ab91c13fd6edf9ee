SPECIFICATION FairSpec
CONSTANTS
  p1 = p1
  p2 = p2
  k1 = k1
  k2 = k2
  NoTask = NoTask
  Stoppers <- TwoStoppers
  Connections <- TwoConnections
  Usage <- Documented
INVARIANTS
  TypeOK
  ClosedByOne
PROPERTIES
  NothingAcceptedAfterStop
  KeepsHandleSafe
  StopReturns
  HandleReclaimed
CHECK_DEADLOCK FALSE
