CONSTANTS
  Grammars <- MCGrammars
  Alphabet <- MCAlphabet
  MaxTokens = 4
SPECIFICATION Spec
INVARIANTS NoPanic TreeValid EveryTokenOnce Spans ParsesLanguage IsDerivation CanGoBack
PROPERTY Terminates
CHECK_DEADLOCK FALSE
