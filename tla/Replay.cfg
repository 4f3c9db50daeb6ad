CONSTANTS
  Trains = {1, 2}
  MaxFrames = 7
  MaxRestarts = 1
  K = 2
  MaxRand = 4
  Traces <- TracesValue
  Heaps <- HeapsValue
SPECIFICATION Spec
INVARIANTS
  TypeOK
  ReadsCleanLogs
  TraceIsFate
  CountsTrace
  ChainCountsTrace
  DrawInverse
  ChainReplays
  WildHasCause
PROPERTIES
  PacketLeaves
CHECK_DEADLOCK FALSE
