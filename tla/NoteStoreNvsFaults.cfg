\* Power is lost at any step, and any NVS call may return an error.
SPECIFICATION Spec
CONSTANTS
  History = 2
  Texts = {t1}
  NoText = NoText
  NoNote = NoNote
  NoClip = NoClip
  IdBound = 3
  NvsFaults = TRUE
  ReplayPartition = FALSE
  FlashFaults = FALSE
INVARIANTS StoreMirrorsList DraftSurvives SentIsCurrent
PROPERTY KeepsPromise
