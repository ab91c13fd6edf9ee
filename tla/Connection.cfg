SPECIFICATION FairSpec
CONSTANTS
  s1 = s1
  s2 = s2
  c1 = c1
  c2 = c2
  NoTask = NoTask
  Starters <- TwoStarters
  Closers <- TwoClosers
  MaxPeerStreams = 1
  Usage <- VetoOrNoHandler
INVARIANTS
  TypeOK
  NoDoubleResume
  PendingIsHeld
PROPERTIES
  StartedIsEstablished
  KeepsHandleSafe
  StartReturns
  StoredShutdownReturns
  HandleReclaimed
CHECK_DEADLOCK FALSE
