SPECIFICATION Spec
CONSTANTS
    Depth <- MCDepth
    MaxSeq <- MCMaxSeq
PROPERTY
    DropAdvances
