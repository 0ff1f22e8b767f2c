CONSTANTS
    W = 4
    BW = 2
SPECIFICATION Spec
INVARIANTS
    LimbArithmetic
    ProductsAndQuotients
    FixedPoint
    BitPermutations
    ImplementationsAgree
    FramesAndTargets
