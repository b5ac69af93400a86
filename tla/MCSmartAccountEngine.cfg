SPECIFICATION Spec
CONSTANTS
    owner = owner
    emergency = emergency
    s1 = s1
    s2 = s2
    c1 = c1
    c2 = c2
    good = good
    banned = banned
    Callers = {owner, emergency}
    Owner = owner
    EmergencyKey = emergency
    AccountLimited = TRUE
    AccountMaxDaily = 3
    SessionIds = {s1}
    Schemes = {"evm", "pqc"}
    Bindings <- MCBindings
    Targets = {good, banned}
    DeniedTargets = {banned}
    Whitelists <- MCWhitelists
    Ceilings = {2, 4}
    Amounts = {1, 2}
    Nonces = {1, 2}
    Calls = {c1, c2}
    dayWindowMs = 2
    MaxClock = 4
    MaxExecutions = 3
SYMMETRY Symmetric
INVARIANTS
    SpendIsAccounted
    EvmSignaturesSingleUse
PROPERTIES
    BrakesHold
