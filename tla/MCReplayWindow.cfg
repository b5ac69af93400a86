SPECIFICATION Spec
CONSTANTS
    i1 = i1
    i2 = i2
    e1 = e1
    e2 = e2
    e3 = e3
    Instances = {i1, i2}
    Primary = i1
    Kinds = {"guard", "memory", "file", "sqlite"}
    Envelopes = {e1, e2, e3}
    Timestamp <- MCTimestamp
    MaxAge = 1
    Retention = 2
    MaxEntries = 1
    Failures = TRUE
    MaxClock = 5
INVARIANTS
    ClaimedOnce
    WindowIsBounded
CHECK_DEADLOCK FALSE
