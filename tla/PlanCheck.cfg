CONSTANTS
    Layers <- MCLayers
    Units <- MCUnits
    Linetypes <- MCLinetypes
    Plans <- MCPlans
    Dimensions <- MCDimensions
    Tolerance = 2
SPECIFICATION PlanSpec
CHECK_DEADLOCK FALSE
INVARIANTS
    
    FaithfulVerifies
    
