CONSTANTS
    UW = 2
    VLENB = 4
    VTypes <- MCVTypes
    Masks <- MCMasks
    FloatWidths = {2, 4}
    MaxSteps = 1
SPECIFICATION Spec
CHECK_DEADLOCK FALSE
INVARIANTS
    ActiveElementsOnly
    VlFits
    MaskInstructions
    PermutesCompose
    LoadsInvertStores
