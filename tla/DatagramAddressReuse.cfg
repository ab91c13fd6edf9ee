SPECIFICATION Spec
CONSTANTS
  w1 = w1
  w2 = w2
  w3 = w3
  a1 = a1
  a2 = a2
  NoAddress = NoAddress
  Senders <- TwoSenders
  Addresses <- TwoAddresses
  Usage <- Passing
INVARIANTS
  ReturnedIsSent
CHECK_DEADLOCK FALSE
