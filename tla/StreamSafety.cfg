SPECIFICATION Spec
CONSTANTS
  s1 = s1
  s2 = s2
  c1 = c1
  c2 = c2
  w1 = w1
  NoTask = NoTask
  Starters <- OneStarter
  Closers <- TwoClosers
  Senders <- OneSender
  MaxReceives = 2
  Usage <- RejectedFlags
INVARIANTS
  TypeOK
  NoDoubleResume
  PendingIsHeld
  OpenMeansUsable
  NothingLost
PROPERTIES
  KeepsHandleSafe
CHECK_DEADLOCK FALSE
