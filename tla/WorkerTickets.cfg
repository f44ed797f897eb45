CONSTANTS
    Request = {r1, r2, r3}
    QueueSize = 1
    MaxWorkers = 2
SPECIFICATION Spec
SYMMETRY Symmetry
INVARIANTS TypeOK RefusedNeverEntered NoTicketLost GateOwned
PROPERTY TicketKept
