CONSTANTS
    FIFO_SIZE = 3
    STACK_SIZE = 2
    MaxTouches = 5
SPECIFICATION FairSpec
INVARIANTS
    PopIndexInArray
    SlotStable
    NoStaleInk
    StackNeverRepeats
    ThumbnailBackedByStroke
PROPERTIES
    RingIsQueue
    QueuedIsDrawn
    Drained
