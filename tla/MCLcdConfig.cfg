CONSTANTS
    LUT_SIZE = 21
    MaxResets = 1
SPECIFICATION FairSpec
INVARIANTS
    ConfiguredInOrder
PROPERTIES
    FrameIsWhole
    Configured
