SPECIFICATION Spec
CONSTANTS
  Texts <- MCTexts
  MaxLiteral = 6
INVARIANTS Lossless LongestMatch Places
CHECK_DEADLOCK FALSE
