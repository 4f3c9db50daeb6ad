CONSTANTS
  Secure = 2
  Window = 1
  Lead <- LeadValue
  First = 1
  Gaps = {0, 1, 2}
  Delays = {0, 2, 5}
  MaxCount = 6
  Files = 1
  Stats = TRUE
SPECIFICATION Spec
INVARIANTS
  BurstAssert
CHECK_DEADLOCK FALSE
