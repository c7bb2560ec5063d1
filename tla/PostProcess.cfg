SPECIFICATION Spec
CONSTANTS
    MaxCandidates = 4
    Scores = {1, 2, 3}
    Classes = {0, 1}
    OBJ_NUMB_MAX_SIZE = 3
INVARIANTS
    ResultsRanked
    KeptApart
    DroppedForBetter
PROPERTIES
    OnlyGoesOn
