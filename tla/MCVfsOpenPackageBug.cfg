SPECIFICATION Spec
CONSTANTS
  a = a
  b = b
  init = init
  pkg = pkg
  Root = Root
  NoPath = NoPath
  NoCode = NoCode
  Path <- PackagePath
  Dir = {pkg}
  Mod = {"pkg", "a"}
  Code = {c1, c2}
  Holder <- PackageHolder
  Source <- PackageSource
  Stub <- Nothing
  Package <- PackageDir
  InitStub <- NoInit
  InitFile <- PackageInit
  Builtins = NoPath
  Editable = {init}
  MaxFile = 3
  MaxGen = 3
  MaxQueue = 1
  MaxPanic = 0
PROPERTIES TransitiveInvalidation
CHECK_DEADLOCK FALSE
