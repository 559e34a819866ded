SPECIFICATION Spec
CONSTANTS
    a = a
    b = b
    ghost = ghost
    Node <- Two
    Phantom = ghost
    Tek <- SharedTek
    Hop <- SharedHop
    Traffic <- DataAndVoice
    MaxFrame = 1
    Cap = 3
    BeaconLen = 2
    DataLen = 2
    MaxSend = 2
    MaxLead <- Leads
INVARIANTS
    TypeOK
    DeliveredOnce
    NothingVanishes
PROPERTY
    Reconverges
