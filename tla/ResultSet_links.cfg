SPECIFICATION Spec
CONSTANTS
    Dirs = {"d1", "d2", "d3"}
    Scheduled = {"r1", "r2", "r3"}
    Extra = {"x1"}
    Cell <- MCCell
    Null = Null
INVARIANTS ChainsEndCounted AcceptedLoads
