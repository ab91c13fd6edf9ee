SPECIFICATION FairSpec
CONSTANTS
  w1 = w1
  w2 = w2
  w3 = w3
  a1 = a1
  a2 = a2
  NoAddress = NoAddress
  Senders <- ThreeSenders
  Addresses <- TwoAddresses
  Usage <- Veto
INVARIANTS
  TypeOK
  NoDoubleResume
  TokensAreRetained
  QueuedBufferIsAlive
  AnsweredIsSent
  MistakenAfterReuse
PROPERTIES
  SendReturns
CHECK_DEADLOCK FALSE
