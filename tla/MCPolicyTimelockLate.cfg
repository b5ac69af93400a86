SPECIFICATION LockSpec
CONSTANTS
    change1 = change1
    change2 = change2
    Changes = {change1, change2}
    Delay = 2
    Backends = {"sqlite"}
    Outcomes = {"returned"}
    Crashes = FALSE
    LastClock = 4
SYMMETRY Symmetric
INVARIANT LateRevocationKeepsChange
