CONSTANTS
  Secure = 2
  Window = 1
  Lead <- LeadValue
  First = 1
  Gaps = {0, 1, 2}
  Delays = {0, 2, 5}
  MaxCount = 6
  Files = 2
  Stats = FALSE
SPECIFICATION Spec
INVARIANTS
  SyncAssert
CHECK_DEADLOCK FALSE
