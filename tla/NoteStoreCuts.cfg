\* Power is lost at any step; no storage call returns an error.
SPECIFICATION Spec
CONSTANTS
  History = 2
  Texts = {t1, t2}
  NoText = NoText
  NoNote = NoNote
  NoClip = NoClip
  IdBound = 4
  NvsFaults = FALSE
  ReplayPartition = TRUE
  FlashFaults = FALSE
SYMMETRY Symmetry
INVARIANTS TypeOK ClipMatchesNote
