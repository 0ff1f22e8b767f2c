CONSTANTS
    Registers <- MCRegisters
    Numbers <- MCNumbers
    LongSymbols <- MCLongSymbols
    ShortSymbols <- MCShortSymbols
    Csrs <- MCCsrs
    address = 4096
SPECIFICATION Spec
INVARIANTS
    DecodesAsWritten
    EncodingsAgree
