SPECIFICATION Spec
CONSTANTS
    i1 = i1
    i2 = i2
    off = off
    small = small
    large = large
    Absent = Absent
    Short = Short
    NoCommand = NoCommand
    NoRecord = NoRecord
    Off = off
    Commands <- MixedStructures
    Inits <- OneInit
    Landscapes <- FallingCurve
    MaxStep = 2
    Inf = 2
    Strays <- Low
    Unscorable = {}
    EvalEvery = 1
    CkptEvery = 1
    ShortWrites <- NoShort
    Incompatible <- BothWays
INVARIANTS
    ExactResume
    MetaImpliesSet
