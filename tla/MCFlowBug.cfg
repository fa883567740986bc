CONSTANTS
  A = A
  B = B
  x = x
  m = m
  Class = {A, B}
  Name = {x}
  Member = {}
  Base <- OfX
  Declared <- All
  Declaration = Declaration
  Value <- Values
  Test <- XTests
  LoopTest <- OpaqueLoops
  LanguageServer = FALSE
  MaxStatement = 5
  MaxDepth = 2
  Forgiven = {"narrowed-jump"}
SPECIFICATION Spec
CHECK_DEADLOCK FALSE
INVARIANT Sound
