SPECIFICATION Spec
CONSTANTS
  t1 = t1
  t2 = t2
  h1 = h1
  h2 = h2
  h3 = h3
  d0 = d0
  d1 = d1
  NoHandling = NoHandling
  NoCallback = NoCallback
  BuiltIn = d0
  Token <- MCToken
  Handling <- MCHandling
  TokenOf <- MCTokenOf
  OneShot <- MCOneShot
  Observed <- MCObserved
  CallbackOps <- SafeOps
  Peer = {"piggyback", "icmp"}
  MessageType = {"CON"}
  SendMayFail = FALSE
  MaxInFlight = 1
PROPERTIES
  RequestsEnd
CHECK_DEADLOCK FALSE
