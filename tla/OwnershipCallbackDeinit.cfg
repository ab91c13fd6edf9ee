SPECIFICATION Spec
CONSTANTS
  Registration = Registration
  k = k
  l = l
  c = c
  s = s
  p = p
  Configurations <- OneConfiguration
  Listeners <- None
  Connections <- OneConnection
  LocalStreams <- None
  PeerStreams <- None
  ConnectionOf <- StreamsOnOne
  Disciplines <- Prompt
INVARIANTS
  DeinitOffCallbackThread
CHECK_DEADLOCK FALSE
