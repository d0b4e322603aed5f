CONSTANTS
    ADC_DCLK_CNT = 2
    MaxResets = 1
SPECIFICATION AdcFairSpec
INVARIANTS
    PairIsWhole
    WholeAfterOneRound
PROPERTY SamplingContinues
