SPECIFICATION Spec
CONSTANTS
  main = main
  io = io
  f1 = f1
  f2 = f2
  Thread <- MCThread
  Function <- MCFunction
  NoFunction = NoFunction
  Level = {3, 6}
  Nobody = Nobody
  HandlerOps = {"LibcoapLogs"}
  MaxCalls = 5
INVARIANT
  HandlerIsSet
CHECK_DEADLOCK FALSE
