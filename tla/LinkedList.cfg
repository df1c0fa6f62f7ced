SPECIFICATION Spec
CONSTANTS
    Lists = {a, b}
    Values = {1, 2, 3}
    Nodes = {n1, n2, n3, n4, n5}
    NULL = NULL
SYMMETRY NodeSymmetry
INVARIANT ListTypeOK
PROPERTY IsSequence
