SPECIFICATION Spec
CONSTANTS
    LayerNames <- MCLayerNames
    Colors <- MCColors
    MaxCoordinate = 5
    BlockNames = {"door", "window"}
    Kinds <- MCKinds
    MaxObjects = 3
    Tools <- MCTools
    Specs <- MCSpecs
    InitialDrawing <- MCInitial
    MaxDrawings = 2
    MaxOps = 3
    MaxEdits = 1
    PREVIEW_LAYERS <- MCPreview
INVARIANTS
    TypeOK
    UntoldOnlyWhereDoubtful
PROPERTIES
    StrictKeepsDrawings
    
CHECK_DEADLOCK FALSE
