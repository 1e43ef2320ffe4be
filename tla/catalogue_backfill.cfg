SPECIFICATION CatSpec
CONSTANTS
    m1 = m1  m2 = m2  n1 = n1
    Offerings = {m1, m2}
    Prices = {1, 2}
    Configs <- MCConfigs
    FirstConfig <- MCFirstConfig
    ModelCalls = {n1}
    MaxTime = 1
    MaxEdits = 2
    MaxImports = 3
    MaxDeaths = 1
INVARIANTS RoundBilledOnce
CHECK_DEADLOCK FALSE
