SPECIFICATION Spec
CONSTANTS
    Deadline = 3
    MaxFaults = 2
    MaxSignals = 1
INVARIANTS ExitTellsWhy InstanceRemoved
PROPERTIES RunnerEnds
