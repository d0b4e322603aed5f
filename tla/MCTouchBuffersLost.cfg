CONSTANTS
    FIFO_SIZE = 3
    STACK_SIZE = 2
    MaxTouches = 4
SPECIFICATION Spec
INVARIANT AllTouchPointsProcessed
