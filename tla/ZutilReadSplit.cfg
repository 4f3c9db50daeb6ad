CONSTANTS
  IN_BUF_SIZE = 4
  Texts <- LineTexts
  Blocks = {5}
  MaxLen = 7
  Longest = 3
SPECIFICATION Spec
INVARIANT EndsAtLineEnd
CHECK_DEADLOCK FALSE
