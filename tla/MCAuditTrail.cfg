SPECIFICATION AuditSpec
CONSTANTS
    tick1 = tick1
    tick2 = tick2
    MaxLines = 1
    LineOutcomes = {"written", "lost", "died"}
    Rotations = {"none", "removed", "renamed"}
    Ticks = {tick1, tick2}
    Restarts = TRUE
    Edits = TRUE
    MaxHash = 4
    MaxAnchors = 2
SYMMETRY Symmetric
INVARIANTS
    BreakMeansLoss
    AnchorsTellEdits
    StatusAgreesWithReplay
    ResumedIsComplete
CHECK_DEADLOCK FALSE
