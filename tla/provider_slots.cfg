SPECIFICATION RoundFairSpec
CONSTANTS
    x1 = x1
    x2 = x2
    e1 = e1
    Rounds = {x1, x2}
    Providers = {e1}
    Candidates <- MCCandidates
    Codes <- MCCodes
    Thrown = {"aborted", "invalid_request", "auth", "provider_unavailable", "context_length_exceeded"}
    Policy <- MCPolicy
    MaxAttempts = 3
    Concurrency <- MCConcurrency
    FailureThreshold = 2
    HealthThreshold = 1
    MaxScore = 3
PROPERTY RoundEnds
CHECK_DEADLOCK FALSE
