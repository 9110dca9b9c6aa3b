CONSTANTS
    History = 3
    IdBound = 4
    QueueSize = 2
SPECIFICATION Spec
INVARIANTS TypeOK ShownIsSelected
PROPERTY DeletesWhatIsShown
