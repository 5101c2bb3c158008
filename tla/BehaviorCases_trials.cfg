SPECIFICATION Spec
CONSTANTS
    Trials <- MCTrials
    MaxPages = 6
INVARIANTS BrokenRejected AnsweredCasesPass
