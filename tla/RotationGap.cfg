CONSTANTS
  MaxFiles = 3
  SockBuf = 2
  MaxPackets = 3
SPECIFICATION RotationSpec
INVARIANTS
  UsesAllFiles
CHECK_DEADLOCK FALSE
