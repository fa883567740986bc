CONSTANTS
  Grammars <- MCStarGrammars
  Alphabet <- MCStarAlphabet
  MaxTokens = 4
SPECIFICATION Spec
INVARIANT TreeValid
CHECK_DEADLOCK FALSE
