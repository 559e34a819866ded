SPECIFICATION Spec
CONSTANTS
    rita = rita
    sam = sam
    ann = ann
    ben = ben
    Responder <- Members
    Joiner <- Newcomers
    MaxNonce = 2
    MaxLife = 2
SYMMETRY AnyOrder
INVARIANTS
    TypeOK
    AcceptedOnce
    AcceptedIntended
PROPERTY
    AcceptsNewest
