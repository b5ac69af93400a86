SPECIFICATION Spec
CONSTANTS
    owner = owner
    emergency = emergency
    s1 = s1
    s2 = s2
    k = k
    zero = zero
    Accounts <- MCAccounts
    Owner = owner
    EmergencyKey = emergency
    AccountMaxDaily = 3
    SessionIds <- MCSessionIds
    Agents <- MCAgents
    ZeroAddress = zero
    AgentIds = {"", "agent"}
    NoAgentId = ""
    Bindings <- MCBindings
    Names <- MCNames
    Normalize <- MCNormalize
    EscalationNames = {"addowner"}
    AllowanceNames = {"approve"}
    Whitelists <- MCWhitelists
    Targets <- MCTargets
    Ceilings = {0, 2}
    Amounts = {1, 2}
    Nonces = {1, 2}
    MaxUint = 3
    DAY_WINDOW = 2
    MillisPerSecond = 2
    MaxTime = 4
SYMMETRY Symmetric
PROPERTY EmergencyNeverRaisesLoss
