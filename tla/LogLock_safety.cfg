SPECIFICATION Spec
CONSTANTS
  main = main
  io = io
  f1 = f1
  f2 = f2
  Thread <- MCThread
  Function <- MCFunction
  NoFunction = NoFunction
  Level = {3, 6}
  Nobody = Nobody
  HandlerOps = {"LibcoapLogs"}
  MaxCalls = 5
INVARIANTS
  TypeOK
  HandlerUndisturbed
PROPERTIES
  CallsReturn
CHECK_DEADLOCK FALSE
