SPECIFICATION Spec
CONSTANTS
    NIL = NIL
    s1 = s1
    s2 = s2
    IntKeys = {1, 2, 3}
    Collectable = {s1, s2}
    Strings = {s1}
    Value = {1}
    MaxInt = 3
    Hashes <- MCHashes
    Sizes = {0}
INVARIANTS BorderFound SizesOptimal
PROPERTIES ImplementsMap NextVisits
CHECK_DEADLOCK FALSE
