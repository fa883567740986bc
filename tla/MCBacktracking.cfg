CONSTANTS
  Tokens = {"a", "b"}
  MaxTokens = 4
  MaxEnd = 1
SPECIFICATION Spec
CONSTRAINT Bounded
PROPERTY Rewindable
