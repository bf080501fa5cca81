SPECIFICATION MCSpec
CONSTANTS
  Texts = {}
  Goals = {}
  MaxTokens = 8
INVARIANTS OnlySentences NothingElseHidden RegularPrecedence
CHECK_DEADLOCK FALSE
