CONSTANTS
    H_LINE = 10
    V_LINE = 7
    Hsync_Blank = 3
    Hsync_Front_Porch = 1
    Vertical_Back_Porch = 2
    Vertical_Front_Porch = 1
    RD_LENGTH = 4
    Fifo_Depth = 8
    BMPLENGTH = 24
    MaxUnseen = 1
    MaxLate = 1
    Black = Black
    ClocksPerPixel = 3
    MaxStall = 3
SPECIFICATION FairSpec
INVARIANTS
    PixelInPlace
    NeverTwoBursts
    BurstInFrame
PROPERTIES
    PictureShown
