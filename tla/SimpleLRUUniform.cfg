SPECIFICATION ServerSpec
CONSTANTS
    k1 = k1
    k2 = k2
    k3 = k3
    v0 = v0
    v1 = v1
    v2 = v2
    n1 = n1
    n2 = n2
    n3 = n3
    Key = {k1, k2, k3}
    Huge = v2
    Value = {v0, v1}
    Node = {n1, n2, n3}
    Null = Null
    KeySize <- MCKeySize
    ValSize <- MCValSizeOne
    MaxSize = 4
    Word = 8
    MaxClock = 6

INVARIANTS UniformSound
PROPERTIES EvictsOnlyWhenFull
CHECK_DEADLOCK FALSE
