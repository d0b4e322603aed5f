CONSTANTS
    Keys = {1, 2, 3}
    ClearKey = 1
    RecogKey = 2
    MaxPresses = 2
SPECIFICATION FairSpec
INVARIANTS
    OnePressOneCommand
PROPERTIES
    LostOnlyWhileBusy
    PressAnswered
