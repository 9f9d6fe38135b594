SPECIFICATION Spec
CONSTANTS
    None = None
    Sessions = {s}
    Capacity = 1
    Backends = {a, b}
    Batches <- MCBatches
    ToolLimit = 3
    LedgerLimit = 4
    MaxLate = 2
INVARIANT SessionsAreOwned
PROPERTIES ToolsRunUnderAuthority AgentCallsEnd
