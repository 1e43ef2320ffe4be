SPECIFICATION FairSpec
CONSTANTS
    Plans <- MCPlans
    MaxReplans = 0
    MaxRuns = 2
    MaxCrashes = 0
INVARIANT ResumeFinishesPlan
CHECK_DEADLOCK FALSE
