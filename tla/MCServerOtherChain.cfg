SPECIFICATION Spec
CONSTANTS
    u1 = u1
    u2 = u2
    a1 = a1
    a2 = a2
    Slots <- OneServer
    Chains = {u1, u2}
    Addresses = {a1, a2}
    Requests <- AskedFor
    Intents <- SomeIntents
    Policies <- PolicyFiles
    FirstPolicy <- Written
    Harmless = {"query"}
    Strict = TRUE
    StoreFails = FALSE
    Window = 1
    LastTime = 2
    MaxCalls = 2
    MaxOther = 2
SYMMETRY Interchangeable
INVARIANT NeverAnotherChain
CHECK_DEADLOCK FALSE
