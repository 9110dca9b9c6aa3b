CONSTANTS
  QueueSize = 2
  BatchFrames = 2
  MaxFrames = 4
SPECIFICATION Spec
INVARIANTS
  TypeOK
  NoUseAfterFree
  PageSettles
  MicOnlyAfterRequest
  AudioAccounted
  StopHasCause
  WaitsEnd
  EndExplained

PROPERTIES
  SessionEnds
