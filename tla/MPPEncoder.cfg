SPECIFICATION Spec
CONSTANT MaxCalls = 5
INVARIANTS
    ShowsThisPicture
    ReleasedOnce
CHECK_DEADLOCK FALSE
