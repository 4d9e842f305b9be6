SPECIFICATION Spec
CONSTANTS
    Lengths = {0, 1, 2, 3, 21, 59, 60, 80}
    SeqLens = {1, 2}
    Word = 128
    Drawn = 2
INVARIANTS
    ReadsInside
    TrainingStaysOut
PROPERTY OneYardstick
CHECK_DEADLOCK FALSE
