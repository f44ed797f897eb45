CONSTANTS
    t1 = t1
    t2 = t2
    NoTask = NoTask
    Task = {t1, t2}
    PlanLength = 1
    LayoutOnly = {}
    PlanLayer <- SinglePlan
    UserEdits = {}
    UserLayers = {}
    AuditRequired = {}
    Uncertain = {}
    Approximate = {}
    LayerMappings <- DefaultMapping
    ReadBackFails = FALSE
SYMMETRY Symmetry
SPECIFICATION Spec
CHECK_DEADLOCK FALSE
INVARIANT StatusMatchesDrawing
