SPECIFICATION Spec
CONSTANTS
  a = a
  b = b
  init = init
  pkg = pkg
  Root = Root
  NoPath = NoPath
  NoCode = NoCode
  Path <- FlatPath
  Dir = {}
  Mod = {"b"}
  Code = {c1, c2}
  Holder <- AllRoot
  Source <- FlatSource
  Stub <- Nothing
  Package <- Nothing
  InitStub <- NoInit
  InitFile <- NoInit
  Builtins = b
  Editable = {a, b}
  MaxFile = 3
  MaxGen = 3
  MaxQueue = 1
  MaxPanic = 1
INVARIANTS InMemoryAgrees EditorWins BuiltinsLoaded Converged IndexesExist
PROPERTIES LossAnnounced
CHECK_DEADLOCK FALSE
