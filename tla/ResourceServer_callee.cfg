SPECIFICATION Spec
CONSTANTS
  c1 = c1
  c2 = c2
  r1 = r1
  r2 = r2
  NoResource = NoResource
  NoRequest = NoRequest
  Client <- MCClient
  Resource <- MCResource
  Code = {"Get", "Delete"}
  CallbackOps = {"notify", "unregister"}
  MaxQueued = 1
SYMMETRY Symmetry
INVARIANTS
  DeleteServed
CHECK_DEADLOCK FALSE
