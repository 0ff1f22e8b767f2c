CONSTANTS
    RegBits = 20
    LongBits = 6
    Half <- SmallHalf
    Single <- SmallSingle
    Coarse <- SmallCoarse
    Operands = {0, 1, 3, 6, 12, 13, 15, 16, 22, 28}
    Loaded = {1, 7, 13, 16, 26}
SPECIFICATION Spec
INVARIANT
    ResultsReadBack
