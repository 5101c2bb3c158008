SPECIFICATION WrapperSpec
CONSTANTS
    NCases = 4
    Definition <- Registry
    Budget = 2
    Deadline = 4
    MaxFaults = 2
PROPERTIES AssemblyReturns
CHECK_DEADLOCK FALSE
