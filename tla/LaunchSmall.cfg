SPECIFICATION Spec
CONSTANTS
    Launches <- MCLaunches
    MaxLaunches = 2
    Numerals <- MCNumerals
    Spelled <- MCSpelled
    FileSizes <- MCFileSizes
    Word = 65536
    ToyBytes = 4920
    SeedRange = 16
    Precision = 100000000
    None = None
CHECK_DEADLOCK FALSE
INVARIANTS
    NothingHeld
    SpanBacked
    RecordTellsArgs
    ResumeSameModel
