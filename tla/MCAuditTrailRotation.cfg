SPECIFICATION AuditSpec
CONSTANTS
    tick1 = tick1
    tick2 = tick2
    MaxLines = 2
    LineOutcomes = {"written"}
    Rotations = {"renamed"}
    Ticks = {tick1}
    Restarts = FALSE
    Edits = FALSE
    MaxHash = 6
    MaxAnchors = 2
CHECK_DEADLOCK FALSE
INVARIANT NoFalseAlarmUnderRotation
