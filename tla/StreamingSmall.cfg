SPECIFICATION Spec
CONSTANTS
    Layers = 3
    Texts <- ShortTexts
CHECK_DEADLOCK FALSE
INVARIANTS
    StreamMatchesForward
    NoPeeking
