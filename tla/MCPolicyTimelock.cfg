SPECIFICATION LockSpec
CONSTANTS
    change1 = change1
    change2 = change2
    Changes = {change1, change2}
    Delay = 2
    Backends = {"sqlite", "local"}
    Outcomes = {"returned", "threw", "died"}
    Crashes = TRUE
    LastClock = 5
SYMMETRY Symmetric
INVARIANTS
    SettledStaysSettled
    AcknowledgedIsDurable
PROPERTIES
    NoChangeIsEarly
