SPECIFICATION Spec
CONSTANTS
    DefaultSmall = 4
    DefaultLarge = 5
    MinTtl = 1
    MaxTtl = 8
    Issuer = "owner"
    Sessions <- DailySession
    Calls = {1, 2}
    Requests <- MCRequests
    BoundPolicies <- Unbound
    ParentPolicies <- Unbound
INVARIANT SessionDayHolds
CHECK_DEADLOCK FALSE
