SPECIFICATION Spec
CONSTANTS
    None = None
    Wrong = Wrong
    MaxNodes = 4
    MaxDepth = 2
    MaxSize = 3
    MaxParts = 2
    MaxRules = 2
    MaxBudget = 5
    SizeOf <- MCSizeOf
    Digits <- MCDigits
    IndexOf <- MCIndexOf
    Jobs <- MCJobs
    Servers <- MCServers
    Payloads <- MCPayloads
    Latencies = {0, 3}
    TenantCalls = 4
    MaxAttempts = 2
    TieDown <- MCTieDown
INVARIANTS
    RuleErrorsAreOfResults
    ReportsAreWhole
    SpendsOnce
    VerdictIsTight
CHECK_DEADLOCK FALSE
