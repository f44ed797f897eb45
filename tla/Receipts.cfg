CONSTANTS
    Document = {d1, d2}
    Identity = {I1, I2}
    Unit = {mm, inch}
    UserActs = {"switch", "open", "close", "rename", "unit"}
    ReceiptId = {r1, r2}
    Plan = {p1, p2}
    TTL = 1
    MaxClock = 1
    MaxLife = 2
    MidCall = FALSE
SPECIFICATION Spec
SYMMETRY Symmetry
INVARIANTS OneTime OnlyRecentHeld 
PROPERTY AcceptedInTime
