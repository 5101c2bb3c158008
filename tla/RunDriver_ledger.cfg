SPECIFICATION FairSpec
CONSTANTS
    d1 = d1
    d2 = d2
    r1 = r1
    NoDriver = NoDriver
    Drivers = {d1, d2}
    RunDirs = {r1}
    RunDirOf <- PairShares
    MaxConcurrency = 1
    Timeout = 2
    Grace = 2
    MaxCrashes = 1
    DiskMayFail = TRUE
    RemovalMayFail = FALSE
INVARIANTS TypeOK ConcurrencyBound OneWriter EvaluatedAtMostOnce ResultJustified EvaluationIsQuiescent DoneMeansPublished
PROPERTIES WriteOnce ImplementsLedger DriverEnds
