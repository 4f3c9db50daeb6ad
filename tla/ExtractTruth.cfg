CONSTANTS
  Secure = 2
  Window = 1
  Lead <- LeadValue
  First = 0
  Gaps = {1, 2, 3}
  Delays = {0, 1}
  MaxCount = 6
  Files = 2
  Stats = TRUE
SPECIFICATION TruthSpec
INVARIANTS
  StatsExact
  BurstsExact
  NeverTooEarly
CHECK_DEADLOCK FALSE
