SPECIFICATION Spec
CONSTANTS
    j1 = j1
    j2 = j2
    j3 = j3
    deltanet = deltanet
    gru = gru
    NoFile = NoFile
    Partial = Partial
    Garbled = Garbled
    JobIds <- Two
    Arch <- MixedArchs
    Evals = 1
    Inf = 2
CHECK_DEADLOCK FALSE
INVARIANT ReportsOwnBest
