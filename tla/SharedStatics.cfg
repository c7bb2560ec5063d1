SPECIFICATION Spec
CONSTANTS
    c1 = c1
    c2 = c2
    Channels = {c1, c2}
    Widths = {2, 3}
    DrmWidths = {14}
    Heights = {2}
    Pitches = {32}
    Rows = {2, 4}
    OBJ_CLASS_NUM = 2
INVARIANTS
    OwnPicture
    LostOnlyWhenDisturbed
    LabelsAreRight
SYMMETRY Symmetry
CHECK_DEADLOCK FALSE
