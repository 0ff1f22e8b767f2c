CONSTANTS
    RegBits = 20
    LongBits = 6
    Half <- SmallHalf
    Single <- SmallSingle
    Coarse <- SmallCoarse
    Operands = {1, 12, 13, 22}
    Loaded = {1, 7, 13, 16, 26}
SPECIFICATION Spec
INVARIANTS
    ConvertRounds
    HalfArithmetic
    FpImplementationsAgree
    Estimates
