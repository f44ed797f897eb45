SPECIFICATION Spec
CONSTANTS
    s1 = s1
    s2 = s2
    Servers = {s1, s2}
    Requests <- MCRequests
    Versions = {0, 1}
    Contents <- MCContents
    MaxRuntime = 2
    MaxReplaced = 2
    MaxDimensions = 3
SYMMETRY Symmetry
CONSTRAINT MCParts
INVARIANTS
    TypeOK
    
    
CHECK_DEADLOCK FALSE
