SPECIFICATION Spec
CONSTANTS
    i1 = i1
    i2 = i2
    off = off
    small = small
    large = large
    Absent = Absent
    Short = Short
    NoCommand = NoCommand
    NoRecord = NoRecord
    Off = off
    Commands <- Resuming
    Inits <- TwoInits
    Landscapes <- SharedCurve
    MaxStep = 3
    Inf = 2
    Strays <- LowOrNone
    Unscorable = {}
    EvalEvery = 2
    CkptEvery = 1
    ShortWrites <- MetaOnly
    Incompatible <- NoneIncompatible
INVARIANT BestIsOwn
PROPERTIES
    ProgressKept
    BestSoFarSurvives
    FingerprintStable
    ImplementsResumableRun
