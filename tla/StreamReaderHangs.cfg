SPECIFICATION FairSpec
CONSTANTS
  s1 = s1
  s2 = s2
  c1 = c1
  c2 = c2
  w1 = w1
  NoTask = NoTask
  Starters <- OneStarter
  Closers <- None
  Senders <- None
  MaxReceives = 1
  Usage <- Documented
PROPERTIES
  ReaderReleased
CHECK_DEADLOCK FALSE
