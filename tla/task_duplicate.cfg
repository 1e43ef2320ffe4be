SPECIFICATION FairSpec
CONSTANTS
    read = read
    bad = bad
    Calls <- MCCalls
    Allowed = {read}
    Proposals <- MCProposals
    Costs = {1}
    MaxCalls = 2
    MaxSteps = 3
    MaxCost = 2
    RepeatLimit = 2
    KeepRounds = 1
    MaxResumes = 2
    MaxCrashes = 0
PROPERTY NoDuplicateExecution
CHECK_DEADLOCK FALSE
