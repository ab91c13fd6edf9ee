SPECIFICATION FairSpec
CONSTANTS
  s1 = s1
  s2 = s2
  c1 = c1
  c2 = c2
  NoTask = NoTask
  Starters <- OneStarter
  Closers <- OneCloser
  MaxPeerStreams = 0
  Usage <- Documented
PROPERTIES
  ShutdownReturns
CHECK_DEADLOCK FALSE
