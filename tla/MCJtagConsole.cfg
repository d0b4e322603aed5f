\* touch_isr may jam (MCJtagConsoleIsr): the system really may stop.
CHECK_DEADLOCK FALSE
CONSTANTS
    BUF_LEN = 3
    HwDepth = 2
    WThreshold = 1
    MaxCount = 4
    MaxChars = 6
SPECIFICATION ConsoleFairSpec
INVARIANTS
    SentInOrder
PROPERTY
    WrittenIsSent
