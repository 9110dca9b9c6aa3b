\* Does deleting a note clear its recording, with power cuts?
SPECIFICATION Spec
CONSTANTS
  History = 2
  Texts = {t1}
  NoText = NoText
  NoNote = NoNote
  NoClip = NoClip
  IdBound = 2
  NvsFaults = FALSE
  ReplayPartition = TRUE
  FlashFaults = FALSE
INVARIANTS DeletedAudioGone
