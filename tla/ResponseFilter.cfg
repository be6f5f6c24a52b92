\* Answers of up to three levels, filtered down to two.
SPECIFICATION Spec
CONSTANTS
    Values <- ThreeLevels
    MaxDepth = 2
CHECK_DEADLOCK FALSE
INVARIANTS
    MaskedToTheDepth
    LoggedClean
