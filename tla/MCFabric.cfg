CONSTANTS
    N = 3
    Asks <- MCAsks
    Words <- MCWords
    NoWord = NoWord
    Depth = 4
    Room = 2
    MaxPending = 3
SPECIFICATION FairSpec
INVARIANTS
    AnswerToAsker
    ExtraSlotUnused
    PassedOnceEach
PROPERTY PacketServed
