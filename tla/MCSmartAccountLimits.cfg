SPECIFICATION LimitSpec
CONSTANTS
    Accounts = {"owner", "emergency"}
    Owner = "owner"
    EmergencyKey = "emergency"
    AccountMaxDaily = 6
    SessionIds = {"s"}
    Agents = {"k"}
    ZeroAddress = "zero"
    AgentIds = {"", "agent"}
    NoAgentId = ""
    Bindings <- MCBindings
    Names = {"transfer"}
    Normalize <- MCNormalize
    EscalationNames = {}
    AllowanceNames = {}
    Whitelists <- MCWhitelists
    Targets <- MCTargets
    Ceilings = {0, 1, 2}
    Amounts = {1, 2}
    Nonces = {1, 2, 3, 4}
    MaxUint = 6
    DAY_WINDOW = 2
    MillisPerSecond = 2
    MaxTime = 3
INVARIANT LimitBindsOnceSet
CHECK_DEADLOCK FALSE
