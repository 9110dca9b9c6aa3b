CONSTANTS
  QueueSize = 1
  BatchFrames = 2
  MaxFrames = 2
SPECIFICATION Spec
INVARIANTS
  StopNotLost
