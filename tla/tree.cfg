SPECIFICATION FairSpec
CONSTANTS
    Plans <- MCPlans
    MaxReplans = 1
    MaxRuns = 2
    MaxCrashes = 1
INVARIANTS
    TypeOK
    DependenciesFirst
    RowsAreClosed
PROPERTIES
    EveryTaskLives
    RunEnds
CHECK_DEADLOCK FALSE
