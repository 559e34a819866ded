SPECIFICATION Spec
CONSTANTS
    issuer = issuer
    alice = alice
    bob = bob
    Node <- MCNode
    Issuer = issuer
    MaxEpoch = 2
    MaxKey = 6
    MaxReign = 1
SYMMETRY MemberSymmetry
INVARIANTS
    AgreementAtEpoch
PROPERTIES
    FreshRekeyAccepted
