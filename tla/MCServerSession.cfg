SPECIFICATION SessionSpec
CONSTANTS
    s1 = s1
    s2 = s2
    Tools = {s1, s2}
    MaxIdentities = 3
    MaxSpawns = 3
SYMMETRY Interchangeable
INVARIANTS
    SignsAsItself
PROPERTIES
    DeadIsFinal
CHECK_DEADLOCK FALSE
