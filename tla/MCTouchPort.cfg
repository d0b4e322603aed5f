CONSTANTS
    Ratio = 3
    AccessGap = 6
    FetchGap = 2
    MaxSamples = 4
    MaxUarts = 2
SPECIFICATION FairSpec
INVARIANTS
    NewestSampleWins
    TornPairIsFollowed
    NoSpuriousInterrupt
PROPERTY SampleDelivered
