SPECIFICATION GuardSpec
CONSTANTS
    DefaultSmall = 10
    DefaultLarge = 100
    Payments = {1, 2}
    Offers <- MCOffers
    Policies <- MCPolicies
    Checks = {c1, c2}
    Mandates = {1}
    Ttl = 2
    DayLength = 3
    LastTime = 3
SYMMETRY Interchangeable
INVARIANT DayWithinCeiling
INVARIANT HeadroomKept
INVARIANT HonouredOnceInTime
INVARIANT MandateCovered
CHECK_DEADLOCK FALSE
