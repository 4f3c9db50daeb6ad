CONSTANTS
  MaxFiles = 3
  SockBuf = 2
  MaxPackets = 3
SPECIFICATION RotationSpec
INVARIANTS
  TypeOK
  OneOpenFile
  FilesHoldRecording
  ReadsPrefix
  ReadsInOrder
  ReadsFinished
  ErrorHasCause
PROPERTIES
  SignalStops
CHECK_DEADLOCK FALSE
