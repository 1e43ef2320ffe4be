SPECIFICATION MCSpec
CONSTANTS
    r1 = r1  r2 = r2  q1 = q1  q2 = q2  b1 = b1  b2 = b2  None = None
    Roots = {r1, r2}
    Buses = {b1, b2}
    Questions = {q1, q2}
    RootOf <- MCRootOf
    Kinds <- MCKinds
    MaxEmitted = 4
    MaxFailures = 1
    MaxRestarts = 1
    aA = aA  aB = aB
    Arms = {aA, aB}
    MaxExecutions = 2
    MaxDiskChanges = 2
    MaxCrashes = 1
    m1 = m1  m2 = m2  n1 = n1
    Offerings = {m1, m2}
    Prices = {1, 2}
    Configs <- MCConfigs
    FirstConfig <- MCFirstConfig
    ModelCalls = {n1}
    MaxTime = 1
    MaxEdits = 2
    MaxImports = 3
    MaxDeaths = 1
    wA = wA  wB = wB  k1 = k1  g1 = g1  g2 = g2
    Workspaces = {wA, wB}
    FreeChat = wB
    Conversations = {k1}
    WorkspaceOf <- MCWorkspaceOf
    Runs = {g1, g2}
    ChatOf <- MCChatOf
    MaxRuntimes = 3
    MaxOutages = 1
    d0 = d0  d1 = d1  d2 = d2  d3 = d3
    Agents = {d0, d1, d2, d3}
    Root = d0
    Levels = {0, 1, 2}
    RootLevel = 1
    RootBudget = 2
    Shares = {0, 1, 2}
    MaxStops = 1
    MaxAnswers = 1
    MaxReplies = 1
    MaxPasses = 2
    MaxLosses = 1
    KeepRounds = 2
    Contributed = 1
    MaxTurns = 6
    w0 = w0  w1 = w1  w2 = w2  f1 = f1  f2 = f2
    WikiRuns = {w0, w1, w2}
    TopRun = w0
    Paths = {f1, f2}
    MaxWrites = 2
    MaxMishaps = 1
    x1 = x1  x2 = x2  e1 = e1
    Rounds = {x1, x2}
    Providers = {e1}
    Candidates <- MCCandidates
    Codes <- MCCodes
    Thrown = {"aborted", "invalid_request", "auth", "provider_unavailable"}
    Policy <- MCPolicy
    MaxAttempts = 2
    Concurrency <- MCConcurrency
    FailureThreshold = 2
    HealthThreshold = 1
    MaxScore = 3
INVARIANTS
    ServiceTypeOK
    ChainVerifies CaughtUpShowsWaiting
    LockCoversRunningArms ComparisonIsOfShownMetrics
    PriceIsLastObserved SyncIsIdempotent LedgerCoversSteps
    RunKeepsItsRuntime ListedRunsHaveRows
    SharesWithinBudget CeilingNeverRaised
    NothingAgreedIsLost VerdictOfWholeContract
    TranscriptStaysWhole MeasuredAsSent
    EveryChangeIsTold
    WithinConcurrency BreakerSound
SYMMETRY MCSymmetry
CHECK_DEADLOCK FALSE
