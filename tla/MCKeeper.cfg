SPECIFICATION Spec
CONSTANTS
    DefaultSmall = 10
    DefaultLarge = 100
    MinTtl = 1
    MaxTtl = 9
    Calls = {1, 2}
    Arrivals = {1, 2}
    Agents = {"a"}
    FirstSession <- MCFirstSession
    Narrowings <- MCNarrowings
    SelfMade <- MCSelfMade
    Uses <- MCUses
    TokenUntil = 3
    ReplayTtl = 2
    DayLength = 2
    ApprovalModes = {"auto", "deny"}
    LastTime = 3
    MaxBoots = 2
INVARIANT NonceSignsOnce
INVARIANT DayWithinCeiling
INVARIANT SignedUnderAuthority
INVARIANT AcceptedIsOwn
CHECK_DEADLOCK FALSE
