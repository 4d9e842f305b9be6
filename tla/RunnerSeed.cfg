SPECIFICATION FairSpec
CONSTANTS
    i1 = i1
    i2 = i2
    off = off
    small = small
    large = large
    Absent = Absent
    Short = Short
    NoCommand = NoCommand
    NoRecord = NoRecord
    Off = off
    Commands <- FromTheStart
    Inits <- TwoInits
    Landscapes <- AllCurves
    MaxStep = 2
    Inf = 2
    Strays <- LowOrNone
    Unscorable = {}
    EvalEvery = 2
    CkptEvery = 0
    ShortWrites <- NoShort
    Incompatible <- NoneIncompatible
PROPERTY SeedDeterminesRecord
