SPECIFICATION Spec
CONSTANTS
  io = io
  io2 = io2
  owner = owner
  s1 = s1
  s2 = s2
  s3 = s3
  e1 = e1
  e2 = e2
  NoSession = NoSession
  NoHandler = NoHandler
  Thread = {io, owner}
  IoThread = {io}
  Key = {1, 2}
  Session = {s1, s2, s3}
  Handler = {e1, e2}
  CallbackOps = {"add", "remove", "enablePersist", "ioPending"}
  LateOps = {"add"}
  DestroyDuring = {"in"}
  RestartMayFail = FALSE
  MaxDepth = 4
INVARIANTS
  AllReleased
CHECK_DEADLOCK FALSE
