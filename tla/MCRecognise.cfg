CONSTANTS
    Half = 4
    MaxReads = 2
    Freq = 8
    TouchValues = {0, 2048, 4095}
    MaxTouches = 1
    Labels = {7}
    Percents = {37, 100}
SPECIFICATION RecogniseSpec
INVARIANTS
    TimeMeasured
    TouchReachesInput
    InputIsTouched
