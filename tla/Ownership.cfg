SPECIFICATION FairSpec
CONSTANTS
  Registration = Registration
  k = k
  l = l
  c = c
  s = s
  p = p
  Configurations <- OneConfiguration
  Listeners <- OneListener
  Connections <- OneConnection
  LocalStreams <- OneLocal
  PeerStreams <- OnePeer
  ConnectionOf <- StreamsOnOne
  Disciplines <- PatientOrEarly
INVARIANTS
  TypeOK
  ClosedBottomUp
  ClosesInLibrary
PROPERTIES
  KeepsHandleSafe
  AllReclaimed
CHECK_DEADLOCK FALSE
