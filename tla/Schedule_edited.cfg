SPECIFICATION ScheduleSpec
CONSTANTS
    Configs <- MCConfigs
    Strata = 3
    Blocks = 2
    W = 3
    MaxEdits = 1
INVARIANTS Unbiased ScheduleSound
