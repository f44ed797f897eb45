SPECIFICATION Spec
CONSTANTS
    Threads = {mcp, pool}
    Foreign = {pool}
    Types <- MCTypes
    Priorities <- MCPriorities
    Installed = {"autocad"}
    MaxAdapters = 3
INVARIANTS
    ApartmentsMatch
PROPERTIES
    AnswerIsConnected
