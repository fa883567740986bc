CONSTANTS
  A = A
  B = B
  x = x
  m = m
  Class = {A, B}
  Name = {x}
  Member = {m}
  Base <- OfX
  Declared <- All
  Declaration = Declaration
  Value <- Values
  Test <- Tests
  LoopTest <- Loops
  LanguageServer = TRUE
  MaxStatement = 5
  MaxDepth = 2
  Forgiven = {}
SPECIFICATION Spec
CHECK_DEADLOCK FALSE
INVARIANT TypeOK
INVARIANT Sound
INVARIANT DeadIsDead
