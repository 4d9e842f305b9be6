SPECIFICATION BenchSpec
CONSTANTS
    Base = 2
    BlockLen = 2
    Blocks = 2
    Keys <- TwoKeys
    KeyLen = 2
    PairsPerSeq = 3
    Sequences = 2
    FillLengths = {0, 1, 2, 3, 4, 5, 6, 7, 8}
    MaxOrder = 2
    CountLimit = 32
    Knobs <- Below0ToAbove2
    Sweeps <- SweepLists
    Corpora <- ShortCorpora
CHECK_DEADLOCK FALSE
INVARIANTS
    FillsExactly
    ParityBlocks
    InductionPairs
    RecallIsKnowable
    ScoresAreNgrams
    OnlyValuesScored
    SweepIsFair
    StreamsTellModels
