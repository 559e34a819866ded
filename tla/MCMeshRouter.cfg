SPECIFICATION Spec
CONSTANTS
    a = a
    b = b
    c = c
    Node <- MCNode
    MaxGen = 2
SYMMETRY Symmetry
INVARIANTS
    GoneStaysGone
    NeighborsRouted
