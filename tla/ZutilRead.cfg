CONSTANTS
  IN_BUF_SIZE = 4
  Texts <- AllTexts
  Blocks = {3, 4}
  MaxLen = 11
  Longest = 3
SPECIFICATION Spec
INVARIANTS
  TypeOK
  BufferKeepsText
PROPERTY ReadsLines
CHECK_DEADLOCK FALSE
