SPECIFICATION Spec
CONSTANTS
    Depth <- MCDepth
    MaxSeq <- MCMaxSeq
INVARIANTS
    TypeOK
    Bounded
    PlayedIsPast
    StartsAtOldest
