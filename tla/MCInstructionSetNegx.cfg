CONSTANTS
    SignBit = 4
    Nibble = 4
    Ten = 3
    Programs <- MCPrograms
    Digits = 2
    Width = 3
    CountBound = 9
    LongDigits = 3
    ByteBits = 3
    Images <- MCImages
    Block = 24
    Distances <- MCDistances
    Repeats = {0, 1, 3}
    Arguments = {0, 5, 173, 2900}
    UpperWord = 5
    LongBound = 8
    StackTop = 64
    Data = 133
    Pointer = 104
    Entry = 16
    Locals = {2}
    CallBound = 2
    WorkBound = 1

SPECIFICATION InstructionSetSpec

INVARIANTS
    NegationOverflow

CHECK_DEADLOCK FALSE
