SPECIFICATION Spec
CONSTANTS
    Calls = {c1, c2}
    Servers = {s1, s2}
    Reaches <- MCReaches
    Intents = {1}
    Amount <- MCAmount
    MaxDaily = 1
    MaxRetries = 1
    Coordinated = {TRUE}
    EarlierTxs = {0, 1}
    Flaky = TRUE
    Crashes = TRUE
    MaxDay = 1
INVARIANT
    GapsAreHarmless
CHECK_DEADLOCK FALSE
