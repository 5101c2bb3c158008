SPECIFICATION WrapperSpec
CONSTANTS
    NCases = 4
    Definition <- Registry
    Budget = 2
    Deadline = 4
    MaxFaults = 2
INVARIANTS VerdictJustified NoPartialOutcome NothingLeft NoEvaluatorLeft KeptIffWritten
PROPERTIES ReturnsUnlessStuck
CHECK_DEADLOCK FALSE
