SPECIFICATION Spec
CONSTANTS
  s1 = s1
  s2 = s2
  c1 = c1
  c2 = c2
  w1 = w1
  NoTask = NoTask
  Starters <- TwoStarters
  Closers <- None
  Senders <- None
  MaxReceives = 1
  Usage <- Restart
INVARIANTS
  CallbackLifetime
CHECK_DEADLOCK FALSE
