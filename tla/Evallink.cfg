CONSTANTS
  Node = {"a", "b"}
  Strangers = {"c", "d"}
  Shown = {"a"}
  LINE_NB = 2
  Signal <- SignalValue
  Rate <- RateValue
  Layout <- LayoutValue
  Unstamped = {"b"}
  NS = 2
  Boot = 8
  Back = 5
  SockBuf = 1
  Noise = {"unicast", "empty", "runt", "magic", "tapver", "short", "control", "other", "group", "damaged", "ipv4", "tcp", "port", "length"}
  MaxTime = 2
  MaxSends = 3
SPECIFICATION Spec
INVARIANTS
  TypeOK
  IncTrue
  IncComplete
  OutTrueInOrder
  AgesExact
  AbortHasCause
CHECK_DEADLOCK FALSE
