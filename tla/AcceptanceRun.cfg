SPECIFICATION Spec
CONSTANTS
    Others = {"plan"}
    MaxEdits = 1
    MaxClock = 1
    Pids = {p1, p2}
    None = None
    Keep = 1
    MaxEvents = 4
CONSTRAINT MCApart
SYMMETRY MCProcesses
INVARIANTS
    TypeOK
    EvidenceHolds

    
    
CHECK_DEADLOCK FALSE
