SPECIFICATION FairSpec
CONSTANTS
    i1 = i1
    i2 = i2
    off = off
    small = small
    large = large
    Absent = Absent
    Short = Short
    NoCommand = NoCommand
    NoRecord = NoRecord
    Off = off
    Commands <- OneRun
    Inits <- TwoInits
    Landscapes <- SharedCurve
    MaxStep = 3
    Inf = 2
    Strays <- LowOrNone
    Unscorable = {1, 2}
    EvalEvery = 2
    CkptEvery = 1
    ShortWrites <- MtOnly
    Incompatible <- NoneIncompatible
INVARIANTS
    TypeOK
    MetaImpliesSet
    ExactResume
    BestKept
    ReportIsBestOfRun
    WorkBounded
PROPERTIES
    EventuallyReported
    EveryStepCounts
    ImplementsResumableRun
