CONSTANTS
    History = 3
    IdBound = 3
    QueueSize = 3
SPECIFICATION Spec
INVARIANT ReviewedBeforeSaved
