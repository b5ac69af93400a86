SPECIFICATION FairSpec
CONSTANTS
    DefaultSmall = 4
    DefaultLarge = 5
    MinTtl = 1
    MaxTtl = 8
    Issuer = "owner"
    Sessions <- MCSessions
    Calls = {1, 2}
    Requests <- MCRequests
    BoundPolicies <- LooseBounds
    ParentPolicies <- MCParentPolicies
CHECK_DEADLOCK FALSE
INVARIANT ParentOnlyTightens
