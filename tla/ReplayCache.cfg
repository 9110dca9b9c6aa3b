CONSTANTS
  Texts = {t1, t2}
  Ids = {1, 2}
  NoClip = NoClip
  NoText = NoText
  PacketUnits = 2
  BufferUnits = 3
  FrameSamples = 2
  Preskip = 1
  MaxFrames = 4
  TakeBound = 2
SPECIFICATION Spec
INVARIANTS
  TypeOK
  ClipComplete
  WritesErasedFlash
  PlaysTheRecording
  StopObeyed
  ServedUndisturbed
PROPERTIES
  PlaybackEnds
  KeepsPromise
