CONSTANTS
    nil = nil
    a = a
    b = b
    s = s
    MaxKey = 4
    Pointer = {a, b}
    Str = {s}
    Hash <- MCHash
    KeySets <- MCKeySets
    ASizes = {0, 2, 3}
    HSizes = {0, 3}
    MaxBits = 3
    MaxInt = 3
SPECIFICATION Spec
INVARIANTS
    AssertionsHold
    LengthIsBorder
PROPERTY
    ImplementsMap
