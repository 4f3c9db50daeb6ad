CONSTANTS
  OUT_BUF_SIZE = 3
  Trailer = 2
  Lengths = {0, 1, 2, 4}
  MaxGiven = 8
SPECIFICATION FairSpec
INVARIANTS
  TypeOK
  ReadyWhenIdle
  NothingLost
  ClosedComplete
PROPERTY CallsReturn
CHECK_DEADLOCK FALSE
