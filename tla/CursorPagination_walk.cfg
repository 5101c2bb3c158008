SPECIFICATION Spec
CONSTANTS
    Ids = {1, 2, 3, 4}
    MaxTime = 2
    MaxLimit = 2
INVARIANTS
    PagesAscend
    NoRowSkipped
PROPERTY WalkEnds
