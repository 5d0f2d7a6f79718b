SPECIFICATION Spec
CONSTANTS
  c1 = c1
  c2 = c2
  r1 = r1
  r2 = r2
  NoResource = NoResource
  NoRequest = NoRequest
  Client <- MCClient
  Resource <- MCResource
  Code = {"Get", "Put"}
  CallbackOps = {"notify"}
  MaxQueued = 1
SYMMETRY Symmetry
INVARIANTS
  TypeOK
  GetKeepsCount
  AppDataOnlyInRequest
  ObserversAreServed
  RegisteredOnce

CHECK_DEADLOCK FALSE
