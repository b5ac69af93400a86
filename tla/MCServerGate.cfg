SPECIFICATION Spec
CONSTANTS
    u1 = u1
    u2 = u2
    a1 = a1
    a2 = a2
    Slots <- CallSlots
    Chains = {u1, u2}
    Addresses = {a1, a2}
    Requests <- AskedFor
    Intents <- SomeIntents
    Policies <- PolicyFiles
    FirstPolicy <- Written
    Harmless = {"query"}
    Strict = TRUE
    StoreFails = TRUE
    Window = 0
    LastTime = 1
    MaxCalls = 3
    MaxOther = 1
SYMMETRY Interchangeable
INVARIANTS
    SimulatedInTime
    AcknowledgedSurvives
    BelievedIsReal
CHECK_DEADLOCK FALSE
