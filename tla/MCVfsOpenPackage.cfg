SPECIFICATION Spec
CONSTANTS
  a = a
  b = b
  init = init
  pkg = pkg
  Root = Root
  NoPath = NoPath
  NoCode = NoCode
  Path <- InitPath
  Dir = {pkg}
  Mod = {"pkg"}
  Code = {c1, c2}
  Holder <- PackageHolder
  Source <- Nothing
  Stub <- Nothing
  Package <- PackageDir
  InitStub <- NoInit
  InitFile <- PackageInit
  Builtins = NoPath
  Editable = {init}
  MaxFile = 3
  MaxGen = 3
  MaxQueue = 2
  MaxPanic = 2
INVARIANTS InMemoryAgrees EditorWins EntryPointsBack DirsConverged
CHECK_DEADLOCK FALSE
