SPECIFICATION FairSpec
CONSTANTS
  s1 = s1
  s2 = s2
  c1 = c1
  c2 = c2
  w1 = w1
  NoTask = NoTask
  Starters <- OneStarter
  Closers <- TwoClosers
  Senders <- OneSender
  MaxReceives = 1
  Usage <- Documented
PROPERTIES
  ClosedIsFinal
  StartReturns
  ShutdownReturns
  SendReturns
  HandleReclaimed
  DetachedReaderEnds
CHECK_DEADLOCK FALSE
