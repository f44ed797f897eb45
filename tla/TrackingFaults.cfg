CONSTANTS
    t1 = t1
    NoTask = NoTask
    Task = {t1}
    PlanLength = 3
    LayoutOnly = {2}
    PlanLayer <- MixedPlan
    UserEdits = {"erase"}
    UserLayers = {}
    AuditRequired = {}
    Uncertain = {3}
    Approximate = {3}
    LayerMappings <- PromotingMapping
    ReadBackFails = FALSE
SPECIFICATION Spec
CHECK_DEADLOCK FALSE
INVARIANTS TypeOK RecordsAgree LayersAgree ExecutedIsComplete ApproximateStaysUncertain 
PROPERTIES ForeignUntouched 
