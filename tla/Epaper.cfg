CONSTANTS
    Bodies = {"a", "b"}
    SlotCount = 2
    KeyBound = 2
    BacklogBound = 2
    MaxPartials = 2
    EventBound = 3
SPECIFICATION Spec
INVARIANTS TypeOK ReceiptIsDurable LiveChallengeKept FrameIsGlass GhostingBounded
PROPERTY NoteIsShown
