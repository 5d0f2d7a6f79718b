SPECIFICATION Spec
CONSTANTS
  req = req
  rsp = rsp
  rcv = rcv
  v1 = v1
  v2 = v2
  b1 = b1
  b2 = b2
  Pdu <- MCPdu
  Request <- MCRequest
  Built <- MCBuilt
  Number <- MCNumber
  ContentFormat <- cf
  Value <- MCValue
  NoValue = NoValue
  Data <- MCData
  NoData = NoData
  NoPayload = NoPayload
  Received <- MCReceived
  MaxOptions = 2
  MaxSize <- MCMaxSize
INVARIANT
  NothingSpilled
CHECK_DEADLOCK FALSE
