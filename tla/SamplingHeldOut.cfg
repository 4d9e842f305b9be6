SPECIFICATION Spec
CONSTANTS
    Lengths = {60}
    SeqLens = {1}
    Word = 128
    Drawn = 1
INVARIANT EvaluatesHeldOut
CHECK_DEADLOCK FALSE
