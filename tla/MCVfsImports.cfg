SPECIFICATION Spec
CONSTANTS
  a = a
  b = b
  init = init
  pkg = pkg
  Root = Root
  NoPath = NoPath
  NoCode = NoCode
  Path <- ChainPath
  Dir = {pkg}
  Mod = {"pkg", "b"}
  Code = {c1}
  Holder <- PackageHolder
  Source <- ChainSource
  Stub <- Nothing
  Package <- PackageDir
  InitStub <- NoInit
  InitFile <- PackageInit
  Builtins = NoPath
  Editable = {a}
  MaxFile = 3
  MaxGen = 2
  MaxQueue = 1
  MaxPanic = 0
INVARIANTS TypeOK ResolutionFresh DependentsRegistered Converged
PROPERTIES TransitiveInvalidation LossAnnounced
CHECK_DEADLOCK FALSE
