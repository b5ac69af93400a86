SPECIFICATION FairSpec
CONSTANTS
    Calls = {c1, c2}
    Servers = {s1, s2}
    Reaches <- MCReaches
    Intents = {1, 2}
    Amount <- MCAmount
    MaxDaily = 1
    MaxRetries = 1
    Coordinated = {TRUE, FALSE}
    EarlierTxs = {1}
    Flaky = TRUE
    Crashes = TRUE
    MaxDay = 1
INVARIANTS
    NoncesAccounted
    OkMeansExecuted
    SoftCeilingHolds
PROPERTIES
    CallsEnd
CHECK_DEADLOCK FALSE
